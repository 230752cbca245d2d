----------------------------- MODULE ListsProofs -----------------------------
(* What Filter, Append, Head and Tail do to the elements of a list and to   *)
(* their order.  The library's induction theorems take a predicate as a     *)
(* parameter; here the induction is over sets of natural numbers instead.   *)
EXTENDS Lists, WellFoundedInduction, TLAPS

LtNat == {ss \in Nat \X Nat : ss[1] < ss[2]}

(* < on Nat is well founded.                                                *)
LEMMA LtNatWellFounded == IsWellFoundedOn(LtNat, Nat)
  BY NatLessThanWellFounded DEF LtNat, OpToRel

(* Induction: a set of natural numbers with 0 and successors is Nat.        *)
LEMMA SetInduction ==
  ASSUME NEW T \in SUBSET Nat, 0 \in T, \A n \in T : n + 1 \in T
  PROVE  T = Nat
<1> DEFINE U == Nat \ T
<1> SUFFICES ASSUME U # {} PROVE FALSE
  OBVIOUS
<1>1. PICK x \in U : \A y \in U : ~ (<<y, x>> \in LtNat)
  <2> HIDE DEF U
  <2>1. U \subseteq Nat
    BY DEF U
  <2> QED BY <2>1, LtNatWellFounded, WFMin
<1>2. x # 0 /\ x - 1 \in Nat
  OBVIOUS
<1>3. x - 1 \in U
  OBVIOUS
<1>4. <<x - 1, x>> \in LtNat
  BY <1>2 DEF LtNat
<1> QED BY <1>1, <1>3, <1>4

(* Every prefix of a list can be filtered by steps: the recursion of Filter *)
(* has a solution.                                                          *)
FilterStep(list, kept, g, n) ==
  IF n = 0 THEN <<>>
  ELSE IF list[n] \in kept THEN Append(g[n - 1], list[n]) ELSE g[n - 1]

LEMMA FilterExists ==
  ASSUME NEW S, NEW list \in Seq(S), NEW kept
  PROVE  \E g : g = [n \in 0..Len(list) |-> FilterStep(list, kept, g, n)]
<1> DEFINE Solves(g, m) == g = [n \in 0..m |-> FilterStep(list, kept, g, n)]
           T == {m \in Nat : \E g : Solves(g, m)}
<1>1. 0 \in T
  <2>1. Solves([n \in 0..0 |-> <<>>], 0)
    BY DEF FilterStep
  <2> QED BY <2>1
<1>2. ASSUME NEW m \in T PROVE m + 1 \in T
  <2>1. PICK g : Solves(g, m)
    OBVIOUS
  <2> DEFINE h == [n \in 0..(m + 1) |->
                    IF n = m + 1 THEN FilterStep(list, kept, g, n) ELSE g[n]]
  <2>2. \A n \in 0..m : h[n] = g[n]
    OBVIOUS
  <2>3. \A n \in 0..(m + 1) : FilterStep(list, kept, h, n) = FilterStep(list, kept, g, n)
    <3> SUFFICES ASSUME NEW n \in 0..(m + 1), n # 0
                 PROVE  h[n - 1] = g[n - 1]
      BY DEF FilterStep
    <3> QED BY <2>2
  <2>4. \A n \in 0..m : g[n] = FilterStep(list, kept, g, n)
    BY <2>1
  <2>5. Solves(h, m + 1)
    <3> HIDE DEF FilterStep
    <3>1. \A n \in 0..(m + 1) : h[n] = FilterStep(list, kept, h, n)
      BY <2>2, <2>3, <2>4
    <3> QED BY <3>1
  <2>6. \E gg : Solves(gg, m + 1)
    <3> HIDE DEF h, Solves
    <3> QED BY <2>5
  <2>7. m + 1 \in Nat
    OBVIOUS
  <2> QED BY <2>6, <2>7
<1>3. T = Nat
  <2> HIDE DEF T
  <2>1. T \in SUBSET Nat
    BY DEF T
  <2> QED BY <1>1, <1>2, <2>1, SetInduction
<1> QED BY <1>3

(* The value of Filter is the last of a chain of steps, one per element.    *)
LEMMA FilterChain ==
  ASSUME NEW S, NEW list \in Seq(S), NEW kept
  PROVE  \E g : /\ Filter(list, kept) = g[Len(list)]
               /\ \A n \in 0..Len(list) : g[n] = FilterStep(list, kept, g, n)
<1> DEFINE Sol(g) == g = [n \in 0..Len(list) |-> FilterStep(list, kept, g, n)]
           g0 == CHOOSE g : Sol(g)
<1>1. Sol(g0)
  <2>1. \E g : Sol(g)
    BY FilterExists
  <2> HIDE DEF Sol
  <2> QED BY <2>1
<1>2. Filter(list, kept) = g0[Len(list)]
  BY DEF Filter, FilterStep
<1>3. \A n \in 0..Len(list) : g0[n] = FilterStep(list, kept, g0, n)
  <2> HIDE DEF g0, FilterStep
  <2> QED BY <1>1
<1> HIDE DEF g0
<1> QED BY <1>2, <1>3

(* out holds, in list's order, the kept ones of list's first n elements.    *)
FilteredPrefix(out, list, kept, n) ==
  /\ \A i \in 1..Len(out) : \E k \in 1..n : out[i] = list[k] /\ list[k] \in kept
  /\ \A k \in 1..n : list[k] \in kept => \E i \in 1..Len(out) : out[i] = list[k]
  /\ \A i, j \in 1..Len(out) : i < j =>
       \E p, q \in 1..n : p < q /\ out[i] = list[p] /\ out[j] = list[q]

LEMMA FilterStepKeepsPrefix ==
  ASSUME NEW S, NEW list \in Seq(S), NEW kept, NEW n \in 1..Len(list), NEW g,
         g[n - 1] \in Seq(S), FilteredPrefix(g[n - 1], list, kept, n - 1),
         g[n] = FilterStep(list, kept, g, n)
  PROVE  g[n] \in Seq(S) /\ FilteredPrefix(g[n], list, kept, n)
<1> DEFINE old == g[n - 1]
<1>1. list[n] \in S
  OBVIOUS
<1>2. CASE list[n] \in kept
  <2>1. g[n] = Append(old, list[n])
    BY <1>2 DEF FilterStep
  <2>2. /\ g[n] \in Seq(S)
        /\ Len(g[n]) = Len(old) + 1
        /\ \A i \in 1..Len(old) : g[n][i] = old[i]
        /\ g[n][Len(old) + 1] = list[n]
    <3> HIDE DEF old
    <3>1. old \in Seq(S)
      BY DEF old
    <3> QED BY <1>1, <2>1, <3>1
  <2>3. \A i \in 1..Len(g[n]) : i = Len(old) + 1 \/ i \in 1..Len(old)
    BY <2>2
  <2>4. \A i \in 1..Len(g[n]) :
          \E k \in 1..n : g[n][i] = list[k] /\ list[k] \in kept
    BY <1>2, <2>2, <2>3 DEF FilteredPrefix
  <2>5. \A k \in 1..n : list[k] \in kept =>
          \E i \in 1..Len(g[n]) : g[n][i] = list[k]
    <3> SUFFICES ASSUME NEW k \in 1..n, list[k] \in kept
                 PROVE  \E i \in 1..Len(g[n]) : g[n][i] = list[k]
      OBVIOUS
    <3>1. CASE k = n
      BY <2>2, <3>1
    <3>2. CASE k # n
      <4>1. PICK i \in 1..Len(old) : old[i] = list[k]
        BY <3>2 DEF FilteredPrefix
      <4> QED BY <2>2, <4>1
    <3> QED BY <3>1, <3>2
  <2>6. \A i, j \in 1..Len(g[n]) : i < j =>
          \E p, q \in 1..n : p < q /\ g[n][i] = list[p] /\ g[n][j] = list[q]
    <3> SUFFICES ASSUME NEW i \in 1..Len(g[n]), NEW j \in 1..Len(g[n]), i < j
                 PROVE  \E p, q \in 1..n :
                          p < q /\ g[n][i] = list[p] /\ g[n][j] = list[q]
      OBVIOUS
    <3>1. i \in 1..Len(old)
      BY <2>2
    <3>2. CASE j \in 1..Len(old)
      BY <2>2, <3>1, <3>2 DEF FilteredPrefix
    <3>3. CASE j = Len(old) + 1
      <4>1. PICK p \in 1..(n - 1) : old[i] = list[p]
        BY <3>1 DEF FilteredPrefix
      <4>2. g[n][i] = list[p] /\ g[n][j] = list[n]
        BY <2>2, <3>1, <3>3, <4>1
      <4>3. p \in 1..n /\ n \in 1..n /\ p < n
        OBVIOUS
      <4> QED BY <4>2, <4>3
    <3> QED BY <2>3, <3>2, <3>3
  <2> HIDE DEF old
  <2> QED BY <2>2, <2>4, <2>5, <2>6 DEF FilteredPrefix
<1>3. CASE list[n] \notin kept
  <2>1. g[n] = old
    BY <1>3 DEF FilterStep
  <2> HIDE DEF old
  <2>2. old \in Seq(S) /\ FilteredPrefix(old, list, kept, n - 1)
    BY DEF old
  <2>3. FilteredPrefix(old, list, kept, n)
    <3>1. \A k \in 1..n : k \in 1..(n - 1) \/ k = n
      OBVIOUS
    <3>2. 1..(n - 1) \subseteq 1..n
      OBVIOUS
    <3>3. \A i \in 1..Len(old) : \E k \in 1..n : old[i] = list[k] /\ list[k] \in kept
      BY <2>2, <3>2 DEF FilteredPrefix
    <3>4. \A k \in 1..n : list[k] \in kept => \E i \in 1..Len(old) : old[i] = list[k]
      BY <1>3, <2>2, <3>1 DEF FilteredPrefix
    <3>5. \A i, j \in 1..Len(old) : i < j =>
            \E p, q \in 1..n : p < q /\ old[i] = list[p] /\ old[j] = list[q]
      BY <2>2, <3>2 DEF FilteredPrefix
    <3> QED BY <3>3, <3>4, <3>5 DEF FilteredPrefix
  <2> QED BY <2>1, <2>2, <2>3
<1> QED BY <1>2, <1>3

(* Filter(list, kept) holds the kept elements of list, in list's order.     *)
LEMMA FilterFacts ==
  ASSUME NEW S, NEW list \in Seq(S), NEW kept
  PROVE  /\ Filter(list, kept) \in Seq(S)
         /\ FilteredPrefix(Filter(list, kept), list, kept, Len(list))
<1>1. PICK g : /\ Filter(list, kept) = g[Len(list)]
               /\ \A n \in 0..Len(list) : g[n] = FilterStep(list, kept, g, n)
  BY FilterChain
<1> DEFINE T == {n \in Nat : n <= Len(list) =>
                   g[n] \in Seq(S) /\ FilteredPrefix(g[n], list, kept, n)}
<1>2. 0 \in T
  <2>1. g[0] = <<>>
    BY <1>1 DEF FilterStep
  <2>2. g[0] \in Seq(S) /\ 1..Len(g[0]) = {} /\ 1..0 = {}
    BY <2>1
  <2>3. FilteredPrefix(g[0], list, kept, 0)
    <3> HIDE DEF T
    <3> QED BY <2>2 DEF FilteredPrefix
  <2> QED BY <2>2, <2>3
<1>3. ASSUME NEW n \in T PROVE n + 1 \in T
  <2>1. CASE n + 1 <= Len(list)
    <3>1. n + 1 \in 1..Len(list) /\ n = (n + 1) - 1
      BY <2>1
    <3>2. g[n] \in Seq(S) /\ FilteredPrefix(g[n], list, kept, n)
      BY <2>1
    <3>3. g[n + 1] = FilterStep(list, kept, g, n + 1)
      BY <1>1, <3>1
    <3>4. g[n + 1] \in Seq(S) /\ FilteredPrefix(g[n + 1], list, kept, n + 1)
      BY <3>1, <3>2, <3>3, FilterStepKeepsPrefix
    <3> QED BY <3>1, <3>4
  <2>2. CASE ~ (n + 1 <= Len(list))
    BY <2>2
  <2> QED BY <2>1, <2>2
<1>4. T = Nat
  <2> HIDE DEF T
  <2>1. T \in SUBSET Nat
    BY DEF T
  <2> QED BY <1>2, <1>3, <2>1, SetInduction
<1>5. Len(list) \in T
  <2> HIDE DEF T
  <2> QED BY <1>4
<1> QED BY <1>1, <1>5

(* What a list holds, for an element it holds.                              *)
LEMMA ElementsAt ==
  ASSUME NEW S, NEW list \in Seq(S)
  PROVE  /\ Elements(list) \subseteq S
         /\ \A i \in 1..Len(list) : list[i] \in Elements(list)
         /\ Elements(list) = {} <=> list = <<>>
<1>1. /\ Elements(list) \subseteq S
      /\ \A i \in 1..Len(list) : list[i] \in Elements(list)
  BY DEF Elements
<1>2. list # <<>> => 1 \in 1..Len(list)
  OBVIOUS
<1>3. list = <<>> => 1..Len(list) = {}
  OBVIOUS
<1> QED BY <1>1, <1>2, <1>3 DEF Elements

(* list_push_back.                                                          *)
LEMMA PushBack ==
  ASSUME NEW S, NEW list \in Seq(S), NEW x \in S
  PROVE  /\ Append(list, x) \in Seq(S)
         /\ Elements(Append(list, x)) = Elements(list) \cup {x}
         /\ NoDuplicates(list) /\ x \notin Elements(list)
              => NoDuplicates(Append(list, x))
<1> DEFINE out == Append(list, x)
<1>1. /\ out \in Seq(S) /\ Len(out) = Len(list) + 1
      /\ \A i \in 1..Len(list) : out[i] = list[i]
      /\ out[Len(list) + 1] = x
  OBVIOUS
<1> HIDE DEF out
<1>2. \A i \in 1..Len(out) : i = Len(list) + 1 \/ i \in 1..Len(list)
  BY <1>1
<1>3. Elements(out) = Elements(list) \cup {x}
  BY <1>1, <1>2 DEF Elements
<1>4. ASSUME NoDuplicates(list), x \notin Elements(list) PROVE NoDuplicates(out)
  BY <1>1, <1>2, <1>4 DEF NoDuplicates, Elements
<1> QED BY <1>1, <1>3, <1>4 DEF out

(* list_pop_front.                                                          *)
LEMMA PopFront ==
  ASSUME NEW S, NEW list \in Seq(S), list # <<>>
  PROVE  /\ Head(list) \in S
         /\ Tail(list) \in Seq(S)
         /\ Elements(list) = Elements(Tail(list)) \cup {Head(list)}
         /\ NoDuplicates(list) => /\ NoDuplicates(Tail(list))
                                  /\ Head(list) \notin Elements(Tail(list))
<1> DEFINE rest == Tail(list)
<1>1. /\ Head(list) = list[1] /\ list[1] \in S
      /\ rest \in Seq(S) /\ Len(rest) = Len(list) - 1 /\ Len(list) \in Nat \ {0}
      /\ \A i \in 1..Len(rest) : rest[i] = list[i + 1]
  OBVIOUS
<1> HIDE DEF rest
<1>2. Elements(list) = Elements(rest) \cup {list[1]}
  <2>1. ASSUME NEW i \in 1..Len(list)
        PROVE  list[i] \in Elements(rest) \cup {list[1]}
    <3>1. CASE i = 1
      BY <3>1
    <3>2. CASE i # 1
      <4>1. i - 1 \in 1..Len(rest) /\ rest[i - 1] = list[i]
        BY <1>1, <3>2
      <4> QED BY <4>1 DEF Elements
    <3> QED BY <3>1, <3>2
  <2>2. ASSUME NEW i \in 1..Len(rest) PROVE rest[i] \in Elements(list)
    <3>1. i + 1 \in 1..Len(list) /\ rest[i] = list[i + 1]
      BY <1>1
    <3> QED BY <3>1 DEF Elements
  <2>3. list[1] \in Elements(list)
    BY <1>1 DEF Elements
  <2> QED BY <2>1, <2>2, <2>3 DEF Elements
<1>3. ASSUME NoDuplicates(list)
      PROVE  NoDuplicates(rest) /\ list[1] \notin Elements(rest)
  <2>1. \A i \in 1..Len(rest) : i + 1 \in 1..Len(list) /\ i + 1 # 1
    BY <1>1
  <2>2. 1 \in 1..Len(list)
    BY <1>1
  <2>3. NoDuplicates(rest)
    <3> SUFFICES ASSUME NEW i \in 1..Len(rest), NEW j \in 1..Len(rest), rest[i] = rest[j]
                 PROVE  i = j
      BY DEF NoDuplicates
    <3>1. i + 1 = j + 1
      BY <1>1, <1>3, <2>1 DEF NoDuplicates
    <3> QED BY <3>1
  <2> QED BY <1>1, <1>3, <2>1, <2>2, <2>3 DEF NoDuplicates, Elements
<1> QED BY <1>1, <1>2, <1>3 DEF rest

(* The loop that removes elements and pushes them back on another list.     *)
LEMMA Concat ==
  ASSUME NEW S, NEW list \in Seq(S), NEW more \in Seq(S)
  PROVE  /\ list \o more \in Seq(S)
         /\ Elements(list \o more) = Elements(list) \cup Elements(more)
         /\ NoDuplicates(list) /\ NoDuplicates(more)
              /\ Elements(list) \cap Elements(more) = {}
              => NoDuplicates(list \o more)
<1> DEFINE out == list \o more
<1>1. /\ out \in Seq(S) /\ Len(out) = Len(list) + Len(more)
      /\ \A i \in 1..Len(list) : out[i] = list[i]
      /\ \A i \in 1..Len(more) : out[i + Len(list)] = more[i]
  OBVIOUS
<1> HIDE DEF out
<1>2. \A i \in 1..Len(out) :
        i \in 1..Len(list)
        \/ (i - Len(list) \in 1..Len(more) /\ out[i] = more[i - Len(list)])
  <2> SUFFICES ASSUME NEW i \in 1..Len(out), i \notin 1..Len(list)
               PROVE  i - Len(list) \in 1..Len(more) /\ out[i] = more[i - Len(list)]
    OBVIOUS
  <2>1. i - Len(list) \in 1..Len(more) /\ (i - Len(list)) + Len(list) = i
    BY <1>1
  <2> QED BY <1>1, <2>1
<1>3. Elements(out) \subseteq Elements(list) \cup Elements(more)
  BY <1>1, <1>2 DEF Elements
<1>4. Elements(list) \subseteq Elements(out)
  BY <1>1 DEF Elements
<1>5. Elements(more) \subseteq Elements(out)
  <2>1. \A i \in 1..Len(more) : i + Len(list) \in 1..Len(out)
    BY <1>1
  <2> QED BY <1>1, <2>1 DEF Elements
<1>6. ASSUME NoDuplicates(list), NoDuplicates(more),
             Elements(list) \cap Elements(more) = {}
      PROVE  NoDuplicates(out)
  <2> SUFFICES ASSUME NEW i \in 1..Len(out), NEW j \in 1..Len(out), out[i] = out[j]
               PROVE  i = j
    BY DEF NoDuplicates
  <2>0. \A k \in 1..Len(list), l \in 1..Len(more) : list[k] # more[l]
    BY <1>6 DEF Elements
  <2>1. CASE i \in 1..Len(list) /\ j \in 1..Len(list)
    BY <1>1, <1>6, <2>1 DEF NoDuplicates
  <2>2. CASE i \notin 1..Len(list) /\ j \notin 1..Len(list)
    <3>1. i - Len(list) = j - Len(list)
      BY <1>2, <1>6, <2>2 DEF NoDuplicates
    <3> QED BY <3>1
  <2>3. CASE i \in 1..Len(list) /\ j \notin 1..Len(list)
    BY <1>1, <1>2, <2>0, <2>3
  <2>4. CASE i \notin 1..Len(list) /\ j \in 1..Len(list)
    BY <1>1, <1>2, <2>0, <2>4
  <2> QED BY <2>1, <2>2, <2>3, <2>4
<1> QED BY <1>1, <1>3, <1>4, <1>5, <1>6 DEF out

(* The elements a filtered list keeps, each as often as before.             *)
LEMMA FilterKeeps ==
  ASSUME NEW S, NEW list \in Seq(S), NEW kept
  PROVE  /\ Filter(list, kept) \in Seq(S)
         /\ Elements(Filter(list, kept)) = Elements(list) \cap kept
         /\ NoDuplicates(list) => NoDuplicates(Filter(list, kept))
<1> DEFINE out == Filter(list, kept)
<1>1. out \in Seq(S) /\ FilteredPrefix(out, list, kept, Len(list))
  BY FilterFacts
<1> HIDE DEF out
<1>2. Elements(out) = Elements(list) \cap kept
  <2>1. Elements(out) \subseteq Elements(list) \cap kept
    BY <1>1 DEF FilteredPrefix, Elements
  <2>2. Elements(list) \cap kept \subseteq Elements(out)
    <3> SUFFICES ASSUME NEW k \in 1..Len(list), list[k] \in kept
                 PROVE  list[k] \in Elements(out)
      BY DEF Elements
    <3> QED BY <1>1 DEF FilteredPrefix, Elements
  <2> QED BY <2>1, <2>2
<1>3. ASSUME NoDuplicates(list) PROVE NoDuplicates(out)
  <2>1. ASSUME NEW i \in 1..Len(out), NEW j \in 1..Len(out), i < j
        PROVE  out[i] # out[j]
    <3>1. PICK p, q \in 1..Len(list) : p < q /\ out[i] = list[p] /\ out[j] = list[q]
      BY <1>1, <2>1 DEF FilteredPrefix
    <3> QED BY <1>3, <3>1 DEF NoDuplicates
  <2>2. ASSUME NEW i \in 1..Len(out), NEW j \in 1..Len(out), i # j
        PROVE  out[i] # out[j]
    <3>1. i < j \/ j < i
      BY <1>1, <2>2
    <3> QED BY <2>1, <3>1
  <2> QED BY <2>2 DEF NoDuplicates
<1> QED BY <1>1, <1>2, <1>3 DEF out
=============================================================================
