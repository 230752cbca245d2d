---------------------------- MODULE ShellProofs ----------------------------
(***************************************************************************)
(* What the shell of Shell.tla keeps true whatever lines are typed, however *)
(* many children the system allows and however long arg is.                 *)
(***************************************************************************)
EXTENDS Shell, WellFoundedInduction, TLAPS

----------------------------------------------------------------------------
(* Min and the first entry that ends the arguments.                         *)

(* A set of natural numbers has a least one, and Min is it.                 *)
LEMMA MinIsLeast ==
  ASSUME NEW S \in SUBSET Nat, S # {}
  PROVE  Min(S) \in S /\ \A y \in S : Min(S) =< y
<1>1. PICK x \in S : \A y \in S : ~ (<<y, x>> \in OpToRel(<, Nat))
  BY NatLessThanWellFounded, WFMin
<1>2. \A y \in S : x =< y
  <2> SUFFICES ASSUME NEW y \in S PROVE x =< y
    OBVIOUS
  <2>1. ~ (<<y, x>> \in OpToRel(<, Nat))
    BY <1>1
  <2>2. ~ (y < x)
    BY <2>1 DEF OpToRel
  <2> QED BY <2>2
<1> QED BY <1>2 DEF Min

(* End is the position of the first entry that ends the arguments.          *)
LEMMA EndIs ==
  ASSUME NEW a, NEW n \in 0..Top, a[n] \in {NULL, Garbage},
         \A l \in 0..(n - 1) : a[l] \notin {NULL, Garbage}
  PROVE  End(a) = n
<1> DEFINE Ends(k) == /\ a[k] \in {NULL, Garbage}
                      /\ \A l \in 0..(k - 1) : a[l] \notin {NULL, Garbage}
<1>1. Ends(n)
  OBVIOUS
<1>2. ASSUME NEW k \in 0..Top, Ends(k) PROVE k = n
  <2>1. ~ (k < n)
    BY <1>1, <1>2, ShellAssumption
  <2>2. ~ (n < k)
    BY <1>1, <1>2, ShellAssumption
  <2> QED BY <2>1, <2>2, ShellAssumption
<1>3. End(a) = CHOOSE k \in 0..Top : Ends(k)
  BY DEF End
<1> HIDE DEF Ends
<1> QED BY <1>1, <1>2, <1>3

(* It is there, since nothing reaches the last entry.                       *)
LEMMA EndExists ==
  ASSUME NEW a, a[Top] \in {NULL, Garbage}
  PROVE  End(a) \in 0..Top
<1> DEFINE S == {k \in 0..Top : a[k] \in {NULL, Garbage}}
<1>1. S \in SUBSET Nat /\ S # {}
  BY ShellAssumption
<1>2. Min(S) \in S /\ \A y \in S : Min(S) =< y
  <2> HIDE DEF S
  <2> QED BY <1>1, MinIsLeast
<1>3. \A l \in 0..(Min(S) - 1) : a[l] \notin {NULL, Garbage}
  <2> SUFFICES ASSUME NEW l \in 0..(Min(S) - 1), a[l] \in {NULL, Garbage} PROVE FALSE
    OBVIOUS
  <2>1. Min(S) \in 0..Top
    BY <1>2
  <2>2. l \in 0..Top /\ l < Min(S)
    <3> DEFINE m == Min(S)
    <3>1. m \in 0..Top /\ l \in 0..(m - 1)
      BY <2>1
    <3> HIDE DEF m
    <3>2. l \in 0..Top /\ l < m
      BY <3>1, ShellAssumption
    <3> QED BY <3>2 DEF m
  <2>3. l \in S
    BY <2>2
  <2>4. Min(S) =< l
    BY <2>3, <1>2
  <2> QED BY <2>1, <2>2, <2>4, ShellAssumption
<1>4. a[Min(S)] \in {NULL, Garbage} /\ Min(S) \in 0..Top
  BY <1>2
<1>5. End(a) = Min(S)
  <2> HIDE DEF S
  <2> QED BY <1>3, <1>4, EndIs
<1> QED BY <1>4, <1>5

(* A line is a sequence of tokens none of which is mistaken for a null      *)
(* pointer, and its NULL fits into arg.                                     *)
LEMMA LineTokens ==
  ASSUME TypeOK, line # <<>>
  PROVE  /\ line \in Command /\ line \in Seq(Token) /\ Len(line) \in 1..(Top - 1)
         /\ \A k \in 1..Len(line) : line[k] \in Token /\ line[k] \notin {NULL, Garbage}
<1>1. line \in Command
  BY DEF TypeOK
<1>2. line \in Seq(Token) /\ Len(line) < Top
  BY <1>1, ShellAssumption
<1>3. Len(line) \in Nat /\ Len(line) # 0
  BY <1>2
<1>4. ASSUME NEW k \in 1..Len(line)
      PROVE  line[k] \in Token /\ line[k] \notin {NULL, Garbage}
  <2>1. k \in DOMAIN line
    BY <1>2
  <2>2. line[k].word \notin {NULL.word, Garbage.word}
    BY <2>1, <1>1, ShellAssumption
  <2> QED BY <2>2, <2>1, <1>2
<1> QED BY <1>1, <1>2, <1>3, <1>4, ShellAssumption

----------------------------------------------------------------------------
(* The inductive invariant.                                                 *)

(* The line and its split: arg holds exactly the tokens.                    *)
Exact ==
  /\ inputnum = IF Len(line) = 1 THEN 2 ELSE Len(line)
  /\ \A k \in 0..(Len(line) - 1) : arg[k] = line[k + 1]
  /\ arg[Len(line)] = NULL

Bar(l) == \E k \in DOMAIN l : l[k].word = "|"

(* What the parser's output says of the line, although inputnum and the     *)
(* tail of arg may be an older line's: an ampersand if background, a bar if *)
(* the scan finds one, the tokens exactly if there is no ampersand.         *)
Parsed ==
  /\ pc \in {"typed", "parsed", "wait"} => line # <<>>
  /\ pc = "parsed" =>
       /\ background => Ampersand(line)
       /\ ~ ScanFails /\ Piped => Bar(line)
       /\ ~ Ampersand(line) => Exact

(* Who is alive while the shell waits for one child, and before any fork.   *)
Others ==
  /\ (pc = "wait" /\ pid # -1) =>
       \A p \in Pid : Alive(p) /\ p # pid => Ampersand(child[p].line)
  /\ pid = 0 => \A p \in Pid : ~ Alive(p)

IInv ==
  /\ TypeOK /\ Parsed /\ Others
  /\ PromptMeansDone /\ WaitsForItsOwn /\ RunsAsTyped

----------------------------------------------------------------------------
(* What one child of the line l with these arguments and files promises.    *)
AsTyped(c) ==
  (c.state \in {"forked", "running"} /\ ~ Ampersand(c.line) /\ Usual(c.line)) =>
    /\ c.argv = IF Signs(c.line) = {} THEN c.line
                ELSE SubSeq(c.line, 1, Min(Signs(c.line)) - 1)
    /\ c.in \in {After(c.line, "<"), "closed"}
    /\ c.out \in {After(c.line, ">"), "closed"}

LEMMA RunsAsTypedByChild == RunsAsTyped <=> \A p \in Pid : AsTyped(child[p])
  BY DEF RunsAsTyped, AsTyped

Argv(a) == [k \in 1..End(a) |-> a[k - 1]]

(* The child that fork makes.                                               *)
Born(a, in, out) ==
  [state |-> IF a[End(a)] = NULL THEN "forked" ELSE "faulty",
   line |-> line, argv |-> Argv(a), in |-> in, out |-> out]

(* fork fails, or makes one child where there was none.                     *)
LEMMA ForkEffect ==
  ASSUME TypeOK, line \in Command,
         NEW a \in [0..Top -> Token], a[Top] \in {NULL, Garbage},
         NEW in \in Text, NEW out \in Text,
         Fork(a, in, out)
  PROVE  /\ Born(a, in, out) \in Child
         /\ \/ pid' = -1 /\ child' = child
            \/ /\ pid' \in Pid /\ ~ Alive(pid')
               /\ child' = [child EXCEPT ![pid'] = Born(a, in, out)]
<1>1. End(a) \in 0..Top
  BY EndExists, ShellAssumption
<1> DEFINE free == {p \in Pid : child[p].state = "none"}
<1>2. \A k \in 1..End(a) : a[k - 1] \in Token
  BY <1>1, ShellAssumption
<1>3. Argv(a) \in Seq(Token)
  BY <1>1, <1>2, ShellAssumption DEF Argv
<1>4. Born(a, in, out) \in Child
  BY <1>3 DEF Born, Child
<1>5. CASE free = {}
  BY <1>4, <1>5 DEF Fork
<1>6. CASE free # {}
  <2>1. free \in SUBSET Nat
    BY ShellAssumption DEF Pid
  <2>2. Min(free) \in free
    <3> HIDE DEF free
    <3> QED BY <2>1, <1>6, MinIsLeast
  <2>3. pid' = Min(free) /\ child' = [child EXCEPT ![Min(free)] = Born(a, in, out)]
    BY <1>6 DEF Fork, Born, Argv
  <2> QED BY <1>4, <2>2, <2>3 DEF Alive
<1> QED BY <1>5, <1>6

(* A fork of a line keeps the invariant: every older child was typed with   *)
(* an ampersand, and the new one is the shell's own.                        *)
LEMMA ForkKeeps ==
  ASSUME IInv, pc = "parsed", pc' \in {"wait", "prompt"},
         pc' = "wait" => line' = line,
         pc' = "prompt" => Ampersand(line),
         NEW a \in [0..Top -> Token], a[Top] \in {NULL, Garbage},
         NEW in \in Text, NEW out \in Text,
         Fork(a, in, out), AsTyped(Born(a, in, out))
  PROVE  /\ child' \in [Pid -> Child] /\ pid' \in Pid \cup {-1, 0}
         /\ Others' /\ PromptMeansDone' /\ WaitsForItsOwn' /\ RunsAsTyped'
<1> DEFINE b == Born(a, in, out)
<1>0. TypeOK /\ line # <<>> /\ line \in Command
  BY LineTokens DEF IInv, Parsed
<1>1. /\ b \in Child
      /\ \/ pid' = -1 /\ child' = child
         \/ /\ pid' \in Pid /\ ~ Alive(pid')
            /\ child' = [child EXCEPT ![pid'] = b]
  BY <1>0, ForkEffect
<1>2. b.line = line
  BY DEF Born
<1>3. \A p \in Pid : Alive(p) => Ampersand(child[p].line)
  BY DEF IInv, PromptMeansDone
<1>4. \A p \in Pid : AsTyped(child[p])
  BY RunsAsTypedByChild DEF IInv
<1>5. child \in [Pid -> Child]
  BY <1>0 DEF TypeOK
<1>6. AsTyped(b)
  OBVIOUS
<1> HIDE DEF b
<1>7. CASE pid' = -1 /\ child' = child
  <2>1. RunsAsTyped'
    BY <1>7 DEF RunsAsTyped, IInv
  <2> QED BY <2>1, <1>3, <1>5, <1>7
          DEF Others, PromptMeansDone, WaitsForItsOwn, Alive, Pid
<1>8. CASE /\ pid' \in Pid /\ ~ Alive(pid')
           /\ child' = [child EXCEPT ![pid'] = b]
  <2>1. pid' \in Nat \ {0}
    BY <1>8, ShellAssumption DEF Pid
  <2>2. child' \in [Pid -> Child]
    BY <1>1, <1>5, <1>8
  <2>3. child'[pid'] = b /\ \A p \in Pid : p # pid' => child'[p] = child[p]
    BY <1>5, <1>8
  <2>4. \A p \in Pid : AsTyped(child'[p])
    BY <1>4, <1>6, <2>3
  <2>5. RunsAsTyped'
    BY <2>4 DEF RunsAsTyped, AsTyped
  <2>6. Others'
    BY <1>3, <2>1, <2>3 DEF Others, Alive
  <2>7. PromptMeansDone'
    BY <1>2, <1>3, <2>1, <2>3 DEF PromptMeansDone, Alive
  <2>8. WaitsForItsOwn'
    BY <1>2, <2>1, <2>3, <1>8 DEF WaitsForItsOwn, Alive
  <2> QED BY <1>8, <2>2, <2>5, <2>6, <2>7, <2>8
<1> QED BY <1>1, <1>7, <1>8

----------------------------------------------------------------------------
(* The steps that make no child.                                            *)

LEMMA QuietKeeps ==
  ASSUME IInv, UNCHANGED <<child, pid>>, pc # "wait", pc' # "wait"
  PROVE  Others' /\ PromptMeansDone' /\ WaitsForItsOwn' /\ RunsAsTyped'
<1>1. Others' /\ PromptMeansDone' /\ WaitsForItsOwn'
  BY DEF IInv, Others, PromptMeansDone, WaitsForItsOwn, Alive
<1>2. RunsAsTyped'
  BY DEF IInv, RunsAsTyped
<1> QED BY <1>1, <1>2

LEMMA ReadLineKeeps == ASSUME IInv, ReadLine PROVE IInv'
<1>1. TypeOK'
  BY DEF IInv, TypeOK, ReadLine, split
<1>2. Parsed'
  BY DEF IInv, Parsed, ReadLine
<1>3. Others' /\ PromptMeansDone' /\ WaitsForItsOwn' /\ RunsAsTyped'
  BY QuietKeeps DEF ReadLine
<1> QED BY <1>1, <1>2, <1>3 DEF IInv

LEMMA LoggedKeeps == ASSUME IInv, Logged PROVE IInv'
<1>1. pc = "typed" /\ pc' \in {"crashed", "exited", "prompt"} /\ line' \in {line, <<>>}
  BY DEF Logged, To
<1>2. TypeOK'
  BY <1>1 DEF IInv, TypeOK, Logged, split
<1>3. Parsed'
  BY <1>1 DEF Parsed
<1>4. Others' /\ PromptMeansDone' /\ WaitsForItsOwn' /\ RunsAsTyped'
  BY <1>1, QuietKeeps DEF Logged
<1> QED BY <1>2, <1>3, <1>4 DEF IInv

LEMMA CopyKeeps == ASSUME IInv, Copy PROVE IInv'
<1>1. /\ pc = "typed" /\ pc' = "prompt" /\ line' = <<>>
      /\ UNCHANGED <<split, pid, child>>
  BY DEF Copy, To
<1>2. line # <<>>
  BY <1>1 DEF IInv, Parsed
<1>3. line \in Seq(Token) /\ Len(line) \in Nat
  BY <1>2, LineTokens DEF IInv
<1>4. fds \in 0..OPEN_MAX /\ exists \subseteq Text
  BY DEF IInv, TypeOK
<1>5. fds' \in 0..OPEN_MAX /\ exists' \subseteq Text
  <2>1. PICK empty \in BOOLEAN :
          LET source == Operand(2) /\ line[2].word \in exists /\ fds > 0
              left == IF source THEN fds - 1 ELSE fds
              target == Operand(3) /\ left > 0
          IN  /\ fds' = IF source /\ ~ target /\ ~ empty THEN fds ELSE left
              /\ exists' = IF target THEN exists \cup {line[3].word} ELSE exists
    BY DEF Copy
  <2> DEFINE source == Operand(2) /\ line[2].word \in exists /\ fds > 0
             left == IF source THEN fds - 1 ELSE fds
             target == Operand(3) /\ left > 0
  <2>2. left \in 0..OPEN_MAX
    BY <1>4, ShellAssumption
  <2>3. Operand(3) => line[3].word \in Text
    <3>1. Operand(3) => line[3] \in Token
      BY <1>3 DEF Operand
    <3> QED BY <3>1 DEF Token
  <2>4. fds' \in {fds, left}
    BY <2>1
  <2>5. exists' = exists \/ (Operand(3) /\ exists' = exists \cup {line[3].word})
    BY <2>1
  <2>6. fds' \in 0..OPEN_MAX
    <3> HIDE DEF left
    <3> QED BY <1>4, <2>2, <2>4
  <2>7. exists' \subseteq Text
    BY <1>4, <2>3, <2>5
  <2> QED BY <2>6, <2>7
<1>6. TypeOK'
  BY <1>1, <1>5 DEF IInv, TypeOK, split
<1>7. Parsed'
  BY <1>1 DEF Parsed
<1>8. Others' /\ PromptMeansDone' /\ WaitsForItsOwn' /\ RunsAsTyped'
  BY <1>1, QuietKeeps
<1> QED BY <1>6, <1>7, <1>8 DEF IInv

LEMMA CrashKeeps == ASSUME IInv, Crash PROVE IInv'
<1>1. pc = "parsed" /\ pc' = "crashed" /\ line' = line
  BY DEF Crash, To
<1>2. TypeOK'
  BY <1>1 DEF IInv, TypeOK, Crash, split
<1>3. Parsed'
  BY <1>1 DEF Parsed
<1>4. Others' /\ PromptMeansDone' /\ WaitsForItsOwn' /\ RunsAsTyped'
  BY <1>1, QuietKeeps DEF Crash
<1> QED BY <1>2, <1>3, <1>4 DEF IInv

(* The first token ends in an ampersand: inputnum is an older line's, but   *)
(* the scan stops at the NULL behind that token.                            *)
LEMMA ParseAmpFirst ==
  ASSUME IInv, Parse, line[1].amp
  PROVE  IInv'
<1>1. /\ pc = "typed" /\ pc' = "parsed" /\ line' = line
      /\ arg' = [arg EXCEPT ![0] = Plain(line[1]), ![1] = NULL]
      /\ background' = TRUE
      /\ UNCHANGED <<inputnum, pid, child, exists, fds>>
  BY DEF Parse, To
<1>2. line # <<>>
  BY <1>1 DEF IInv, Parsed
<1>3. /\ line \in Seq(Token) /\ Len(line) \in 1..(Top - 1) /\ line[1] \in Token
  BY <1>2, LineTokens, ShellAssumption DEF IInv
<1>4. Plain(line[1]) \in Token /\ NULL \in Token
  BY <1>3 DEF Plain, Word, Token, NULL, Text
<1>5. arg \in [0..Top -> Token] /\ arg[Top] \in {NULL, Garbage} /\ inputnum \in 0..Top
  BY DEF IInv, TypeOK
<1>6. /\ arg' \in [0..Top -> Token] /\ arg'[Top] = arg[Top]
      /\ arg'[0] = Plain(line[1]) /\ arg'[1] = NULL
  BY <1>1, <1>4, <1>5, ShellAssumption
<1>7. TypeOK'
  BY <1>1, <1>5, <1>6 DEF IInv, TypeOK
<1>8. 1 \in DOMAIN line
  BY <1>3
<1>9. Ampersand(line)
  BY <1>8 DEF Ampersand
<1>10. (~ ScanFails /\ Piped)' => line[1].word = "|"
  <2> SUFFICES ASSUME ScanFails' = FALSE, Piped' PROVE line[1].word = "|"
    BY DEF ScanFails
  <2>1. 1 \in Scanned'
    BY <1>1, <1>5 DEF Piped, Scanned
  <2>2. PICK l \in 0..1 : arg'[l] = Word("|")
    BY <1>6, <2>1 DEF ScanFails
  <2>3. NULL # Word("|")
    BY DEF NULL, Word
  <2>4. Plain(line[1]) = Word("|")
    BY <1>6, <2>2, <2>3
  <2> QED BY <2>4 DEF Plain, Word
<1>11. Parsed'
  BY <1>1, <1>2, <1>8, <1>9, <1>10 DEF Parsed, Bar, Ampersand
<1>12. Others' /\ PromptMeansDone' /\ WaitsForItsOwn' /\ RunsAsTyped'
  BY <1>1, QuietKeeps
<1> QED BY <1>7, <1>11, <1>12 DEF IInv

(* Otherwise the tokens before the first ampersand that counts are in arg,  *)
(* and the scan looks at no other.                                          *)
LEMMA ParseTokens ==
  ASSUME IInv, Parse, ~ line[1].amp
  PROVE  IInv'
<1> DEFINE amps == {k \in 3..Len(line) : line[k].amp}
           stop == IF amps = {} THEN Len(line) ELSE Min(amps)
<1>1. /\ pc = "typed" /\ pc' = "parsed" /\ line' = line
      /\ arg' = [k \in 0..Top |->
                   IF k < stop THEN (IF k + 1 \in amps THEN Plain(line[k + 1])
                                     ELSE line[k + 1])
                   ELSE IF k = stop /\ amps = {} THEN NULL ELSE arg[k]]
      /\ inputnum' = IF amps # {} THEN stop - 1
                     ELSE IF stop = 1 THEN 2 ELSE stop
      /\ background' = (amps # {})
      /\ UNCHANGED <<pid, child, exists, fds>>
  BY DEF Parse, To
<1>2. line # <<>>
  BY <1>1 DEF IInv, Parsed
<1>3. /\ line \in Seq(Token) /\ Len(line) \in 1..(Top - 1)
      /\ \A k \in 1..Len(line) : line[k] \in Token
  BY <1>2, LineTokens DEF IInv
<1>4. amps # {} => stop \in amps
  <2>1. amps \in SUBSET Nat
    OBVIOUS
  <2>2. amps # {} => Min(amps) \in amps
    <3> HIDE DEF amps
    <3> QED BY <2>1, MinIsLeast
  <2> QED BY <2>2
<1>5. stop \in 1..Len(line) /\ (amps # {} => stop >= 3)
  BY <1>3, <1>4
<1>6. amps # {} => Ampersand(line)
  <2> SUFFICES ASSUME amps # {} PROVE Ampersand(line)
    OBVIOUS
  <2>1. stop \in DOMAIN line
    BY <1>3, <1>5
  <2>2. line[stop].amp
    BY <1>4
  <2> HIDE DEF stop
  <2> QED BY <2>1, <2>2 DEF Ampersand
<1>7. arg \in [0..Top -> Token] /\ arg[Top] \in {NULL, Garbage}
  BY DEF IInv, TypeOK
<1> HIDE DEF amps, stop
<1>8. stop < Top /\ stop \in 1..Top
  BY <1>3, <1>5, ShellAssumption
<1>9. arg' \in [0..Top -> Token] /\ arg'[Top] = arg[Top]
  <2>1. ASSUME NEW k \in 0..Top, k < stop PROVE k + 1 \in 1..Len(line)
    BY <2>1, <1>3, <1>5
  <2>2. ASSUME NEW k \in 0..Top, k < stop
        PROVE  line[k + 1] \in Token /\ Plain(line[k + 1]) \in Token
    <3>1. line[k + 1] \in Token
      BY <2>1, <2>2, <1>3
    <3> QED BY <3>1 DEF Plain, Word, Token
  <2>3. NULL \in Token
    BY DEF NULL, Word, Token, Text
  <2>4. \A k \in 0..Top : arg'[k] \in Token
    BY <1>1, <1>7, <2>2, <2>3
  <2>5. arg'[Top] = arg[Top]
    BY <1>1, <1>8, ShellAssumption
  <2> QED BY <1>1, <2>4, <2>5
<1>10. inputnum' \in 0..Top
  BY <1>1, <1>8, ShellAssumption
<1>11. TypeOK'
  BY <1>1, <1>7, <1>9, <1>10 DEF IInv, TypeOK
<1>12. (Piped => Bar(line))'
  <2> SUFFICES ASSUME Piped' PROVE Bar(line)
    BY <1>1 DEF Bar
  <2>1. PICK k \in 0..(inputnum' - 2) : arg'[k] = Word("|")
    BY DEF Piped, Found, Scanned
  <2>2. inputnum' > 2
    BY DEF Piped
  <2>3. k < stop /\ k \in 0..Top
    BY <1>1, <1>8, <2>1, <2>2, ShellAssumption
  <2>4. k + 1 \in DOMAIN line
    BY <1>3, <1>5, <2>3
  <2>5. arg'[k] = line[k + 1] \/ arg'[k] = Plain(line[k + 1])
    BY <1>1, <2>3
  <2>6. line[k + 1].word = "|"
    BY <2>1, <2>5 DEF Plain, Word
  <2> QED BY <2>4, <2>6 DEF Bar
<1>13. (~ Ampersand(line) => Exact)'
  <2> SUFFICES ASSUME ~ Ampersand(line) PROVE Exact'
    BY <1>1 DEF Ampersand
  <2>1. amps = {}
    BY <1>6
  <2>2. stop = Len(line)
    BY <2>1 DEF stop
  <2>3. ASSUME NEW k \in 0..(Len(line) - 1) PROVE arg'[k] = line[k + 1]
    <3>1. k \in 0..Top /\ k < stop
      BY <1>8, <2>2, <1>3, ShellAssumption
    <3> QED BY <3>1, <1>1, <2>1
  <2>4. arg'[Len(line)] = NULL
    BY <1>1, <1>8, <2>1, <2>2
  <2> QED BY <1>1, <2>1, <2>2, <2>3, <2>4 DEF Exact
<1>14. Parsed'
  BY <1>1, <1>2, <1>6, <1>12, <1>13 DEF Parsed, Ampersand
<1>15. Others' /\ PromptMeansDone' /\ WaitsForItsOwn' /\ RunsAsTyped'
  BY <1>1, QuietKeeps
<1> QED BY <1>11, <1>14, <1>15 DEF IInv

LEMMA ParseKeeps == ASSUME IInv, Parse PROVE IInv'
  BY ParseAmpFirst, ParseTokens

----------------------------------------------------------------------------
(* The steps that fork, and what the child is given.                        *)

(* The arguments that reach execvp are the first m tokens of the line when  *)
(* arg holds these and a NULL.                                              *)
LEMMA ArgvIs ==
  ASSUME TypeOK, line # <<>>, NEW a, NEW m \in 0..Len(line),
         \A k \in 0..(m - 1) : a[k] = line[k + 1], a[m] = NULL
  PROVE  Argv(a) = SubSeq(line, 1, m)
<1>1. /\ line \in Seq(Token) /\ Len(line) \in 1..(Top - 1)
      /\ \A k \in 1..Len(line) : line[k] \notin {NULL, Garbage}
  BY LineTokens
<1>2. m \in 0..Top /\ m \in Nat
  BY <1>1, ShellAssumption
<1>3. ASSUME NEW l \in 0..(m - 1) PROVE a[l] \notin {NULL, Garbage}
  <2>1. l + 1 \in 1..Len(line)
    BY <1>1
  <2> QED BY <2>1, <1>1
<1>4. End(a) = m
  BY <1>2, <1>3, EndIs
<1>5. Argv(a) = [k \in 1..m |-> line[k]]
  <2>1. \A k \in 1..m : a[k - 1] = line[k]
    <3> SUFFICES ASSUME NEW k \in 1..m PROVE a[k - 1] = line[k]
      OBVIOUS
    <3>1. k - 1 \in 0..(m - 1) /\ (k - 1) + 1 = k
      BY <1>2
    <3> QED BY <3>1
  <2> QED BY <1>4, <2>1 DEF Argv
<1>6. SubSeq(line, 1, m) = [k \in 1..m |-> line[k]]
  BY <1>1, <1>2
<1> QED BY <1>5, <1>6

(* Cutting the arguments short leaves arg as it should be.                  *)
LEMMA CutFits ==
  ASSUME TypeOK, NEW n
  PROVE  Cut(n) \in [0..Top -> Token] /\ Cut(n)[Top] \in {NULL, Garbage}
<1>1. NULL \in Token
  BY DEF NULL, Word, Token, Text
<1>2. arg \in [0..Top -> Token] /\ arg[Top] \in {NULL, Garbage}
  BY DEF TypeOK
<1>3. Top \in 0..Top
  BY ShellAssumption
<1> HIDE DEF NULL, Garbage
<1> QED BY <1>1, <1>2, <1>3 DEF Cut

(* The branches of the redirection use tokens that are there.               *)
LEMMA RedirectionFits ==
  ASSUME TypeOK, NEW r \in Redirection
  PROVE  r.from \in {2, 4} /\ r.in \in Text /\ r.out \in Text
<1>1. inputnum \in 0..Top /\ arg \in [0..Top -> Token]
  BY DEF TypeOK
<1>2. "tty" \in Text
  BY DEF Text
<1>3. ASSUME NEW k \in {1, 3}, inputnum >= k PROVE File_(k) \in Text
  <2>1. inputnum - k \in 0..Top
    BY <1>1, <1>3, ShellAssumption
  <2>2. arg[inputnum - k] \in Token
    BY <1>1, <2>1
  <2> QED BY <2>2 DEF File_, Token
<1>4. \A w \in {"<", ">"} : /\ Sign(2) = Word(w) => inputnum >= 1
                            /\ Sign(4) = Word(w) => inputnum >= 3
  <2>1. NULL # Word("<") /\ NULL # Word(">")
    BY DEF NULL, Word
  <2> HIDE DEF NULL, Word
  <2> QED BY <1>1, <2>1, ShellAssumption DEF Sign
<1> QED BY <1>2, <1>3, <1>4 DEF Redirection

(* In a line of the usual form whose tokens are all in arg, the branch that *)
(* is taken finds the redirections where they are.                          *)
LEMMA RedirectionAsTyped ==
  ASSUME TypeOK, line # <<>>, Exact, Usual(line), Found({"<", ">"}),
         NEW r \in Redirection
  PROVE  /\ Signs(line) # {} /\ inputnum = Len(line)
         /\ Min(Signs(line)) = Len(line) - r.from + 1
         /\ r.from < Len(line)
         /\ r.in = After(line, "<") /\ r.out = After(line, ">")
<1> DEFINE n == Len(line)
<1>1. line \in Seq(Token) /\ n \in Nat \ {0} /\ DOMAIN line = 1..n
  BY LineTokens, ShellAssumption
<1>2. PICK k \in 0..(inputnum - 2) : arg[k] \in {Word("<"), Word(">")}
  BY DEF Found, Scanned
<1>3. inputnum = IF n = 1 THEN 2 ELSE n
  BY DEF Exact
<1>4. inputnum \in Nat /\ k \in Nat /\ k =< inputnum - 2
  BY ShellAssumption DEF TypeOK
<1>5. k + 1 \in Signs(line)
  <2>1. k \in 0..(n - 1) /\ k + 1 \in 1..n
    <3> HIDE DEF n
    <3>1. CASE n = 1
      BY <1>1, <1>4, <1>3, <3>1
    <3>2. CASE n # 1
      BY <1>1, <1>4, <1>3, <3>2
    <3> QED BY <3>1, <3>2
  <2>2. line[k + 1] = arg[k]
    BY <2>1 DEF Exact
  <2> QED BY <1>1, <1>2, <2>1, <2>2 DEF Signs, At
<1>6. k + 1 > 1
  BY <1>5 DEF Usual
<1>7. n >= 3 /\ inputnum = n
  <2> HIDE DEF n
  <2>1. inputnum # 2
    BY <1>4, <1>6
  <2> QED BY <1>4, <1>3, <1>6, <2>1
<1>8. Sign(2) = line[n - 1]
  <2>1. n - 2 \in 0..(n - 1) /\ (n - 2) + 1 = n - 1
    BY <1>1, <1>7
  <2> QED BY <1>7, <2>1 DEF Sign, Exact
<1>9. n >= 4 => Sign(4) = line[n - 3]
  <2>1. n >= 4 => n - 4 \in 0..(n - 1) /\ (n - 4) + 1 = n - 3
    BY <1>1
  <2> QED BY <1>7, <2>1 DEF Sign, Exact
<1>10. File_(1) = line[n].word
  <2>1. n - 1 \in 0..(n - 1) /\ (n - 1) + 1 = n
    BY <1>1
  <2> QED BY <1>7, <2>1 DEF File_, Exact
<1>11. File_(3) = line[n - 2].word
  <2>1. n - 3 \in 0..(n - 1) /\ (n - 3) + 1 = n - 2
    BY <1>1, <1>7
  <2> QED BY <1>7, <2>1 DEF File_, Exact
<1>12. \A j \in Signs(line) :
         /\ j \in 1..n /\ j > 1 /\ line[j] \in {Word("<"), Word(">")}
         /\ j = n - 1 \/ (j = n - 3 /\ line[j] = Word("<") /\ line[n - 1] = Word(">"))
  BY <1>1 DEF Usual, Signs, At
<1>13. \A j \in 1..n : line[j] \in {Word("<"), Word(">")} => j \in Signs(line)
  BY <1>1 DEF Signs, At
<1>14. Word("<") # Word(">") /\ NULL # Word("<") /\ NULL # Word(">")
  BY DEF Word, NULL
<1>15. n - 1 \in 1..n /\ (n >= 4 => n - 3 \in 1..n)
  BY <1>1, <1>7
<1>16. Signs(line) = {n - 1} => Min(Signs(line)) = n - 1
  <2>1. Signs(line) = {n - 1} => Signs(line) \in SUBSET Nat
    BY <1>15
  <2> HIDE DEF n
  <2> QED BY <2>1, MinIsLeast
<1>17. CASE Sign(2) = Word(">") /\ Alone("<")
  <2>1. r = [from |-> 2, in |-> "tty", out |-> File_(1)]
    BY <1>17 DEF Redirection
  <2>2. line[n - 1] = Word(">")
    BY <1>8, <1>17
  <2>3. \A j \in Signs(line) : j # n - 3
    <3> SUFFICES ASSUME NEW j \in Signs(line), j = n - 3 PROVE FALSE
      OBVIOUS
    <3>1. n > 4
      BY <1>1, <1>12
    <3>2. Sign(4) = Word("<")
      BY <1>1, <1>9, <1>12, <3>1
    <3> QED BY <1>7, <1>17, <3>1, <3>2 DEF Alone
  <2>4. Signs(line) = {n - 1}
    BY <1>12, <1>13, <1>15, <2>2, <2>3
  <2>5. At(line, ">") = {n - 1} /\ At(line, "<") = {}
    BY <1>1, <1>14, <1>15, <2>2, <2>4 DEF Signs, At
  <2>6. After(line, "<") = "tty" /\ After(line, ">") = line[n].word
    <3>1. Min({n - 1}) = n - 1 /\ (n - 1) + 1 = n
      BY <1>1, <1>16, <2>4
    <3> QED BY <2>5, <3>1 DEF After
  <2> QED BY <1>1, <1>7, <1>10, <1>16, <2>1, <2>4, <2>6
<1>18. CASE Sign(2) = Word(">") /\ Sign(4) = Word("<") /\ ~ Alone("<")
  <2>1. r = [from |-> 4, in |-> File_(3), out |-> File_(1)]
    BY <1>18 DEF Redirection
  <2>2. n >= 4
    BY <1>1, <1>7, <1>14, <1>18 DEF Sign
  <2>3. line[n - 1] = Word(">") /\ line[n - 3] = Word("<")
    BY <1>8, <1>9, <1>18, <2>2
  <2>4. n - 1 \in Signs(line) /\ n - 3 \in Signs(line)
    BY <1>13, <1>15, <2>2, <2>3
  <2>5. Signs(line) = {n - 1, n - 3}
    BY <1>12, <2>4
  <2>6. n - 3 > 1
    BY <1>12, <2>4
  <2>7. Min(Signs(line)) = n - 3
    <3>1. Signs(line) \in SUBSET Nat /\ Signs(line) # {}
      BY <1>15, <2>2, <2>5
    <3>2. Min(Signs(line)) \in Signs(line) /\ \A y \in Signs(line) : Min(Signs(line)) =< y
      BY <3>1, MinIsLeast
    <3>3. Min(Signs(line)) \in {n - 1, n - 3} /\ Min(Signs(line)) =< n - 3
      BY <2>4, <2>5, <3>2
    <3> QED BY <1>1, <3>3
  <2>8. At(line, ">") = {n - 1} /\ At(line, "<") = {n - 3}
    BY <1>1, <1>14, <1>15, <2>2, <2>3, <2>5 DEF Signs, At
  <2>9. Min({n - 1}) = n - 1 /\ Min({n - 3}) = n - 3
    <3>1. {n - 1} \in SUBSET Nat /\ {n - 3} \in SUBSET Nat
      BY <1>15, <2>2
    <3> HIDE DEF n
    <3> QED BY <3>1, MinIsLeast
  <2>10. After(line, "<") = line[n - 2].word /\ After(line, ">") = line[n].word
    <3>1. (n - 1) + 1 = n /\ (n - 3) + 1 = n - 2
      BY <1>1
    <3> QED BY <2>8, <2>9, <3>1 DEF After
  <2> QED BY <1>1, <1>7, <1>10, <1>11, <2>1, <2>5, <2>6, <2>7, <2>10
<1>19. CASE Sign(2) = Word("<") /\ Alone(">")
  <2>1. r = [from |-> 2, in |-> File_(1), out |-> "tty"]
    BY <1>14, <1>19 DEF Redirection
  <2>2. line[n - 1] = Word("<")
    BY <1>8, <1>19
  <2>3. Signs(line) = {n - 1}
    BY <1>12, <1>13, <1>14, <1>15, <2>2
  <2>4. At(line, "<") = {n - 1} /\ At(line, ">") = {}
    BY <1>1, <1>14, <1>15, <2>2, <2>3 DEF Signs, At
  <2>5. After(line, ">") = "tty" /\ After(line, "<") = line[n].word
    <3>1. Min({n - 1}) = n - 1 /\ (n - 1) + 1 = n
      BY <1>1, <1>16, <2>3
    <3> QED BY <2>4, <3>1 DEF After
  <2> QED BY <1>1, <1>7, <1>10, <1>16, <2>1, <2>3, <2>5
<1>20. CASE Sign(2) = Word("<") /\ Sign(4) = Word(">")
  <2>1. n >= 4
    BY <1>1, <1>7, <1>14, <1>20 DEF Sign
  <2>2. line[n - 3] = Word(">") /\ n - 3 \in 1..n
    BY <1>9, <1>15, <1>20, <2>1
  <2>3. n - 3 \in Signs(line)
    BY <1>13, <2>2
  <2> QED BY <1>1, <1>12, <1>14, <2>2, <2>3
<1> QED BY <1>17, <1>18, <1>19, <1>20 DEF Redirection

LEMMA RedirectedChild ==
  ASSUME IInv, pc = "parsed", Found({"<", ">"}), NEW r \in Redirection
  PROVE  AsTyped(Born(Cut(inputnum - r.from), r.in, r.out))
<1> DEFINE m == Len(line) - r.from
           a == Cut(inputnum - r.from)
<1>1. TypeOK /\ line # <<>> /\ r.from \in {2, 4}
  BY RedirectionFits DEF IInv, Parsed
<1>2. Born(a, r.in, r.out).line = line
  BY DEF Born
<1>3. SUFFICES ASSUME ~ Ampersand(line), Usual(line)
      PROVE  /\ Signs(line) # {} /\ Argv(a) = SubSeq(line, 1, Min(Signs(line)) - 1)
             /\ r.in = After(line, "<") /\ r.out = After(line, ">")
  BY <1>2 DEF AsTyped, Born
<1>4. Exact
  BY <1>3 DEF IInv, Parsed
<1>5. /\ Signs(line) # {} /\ inputnum = Len(line)
      /\ Min(Signs(line)) = Len(line) - r.from + 1
      /\ r.from < Len(line)
      /\ r.in = After(line, "<") /\ r.out = After(line, ">")
  BY <1>1, <1>3, <1>4, RedirectionAsTyped
<1>6. Len(line) \in 1..(Top - 1) /\ Len(line) \in Nat
  BY <1>1, LineTokens, ShellAssumption
<1>7. m \in 0..Len(line) /\ m = Min(Signs(line)) - 1 /\ m < Len(line)
  BY <1>1, <1>5, <1>6
<1>8. a[m] = NULL
  BY <1>5, <1>6, <1>7, ShellAssumption DEF Cut
<1>9. ASSUME NEW k \in 0..(m - 1) PROVE a[k] = line[k + 1]
  <2>1. k \in 0..(Len(line) - 1) /\ k \in 0..Top /\ k < m
    BY <1>6, <1>7, ShellAssumption
  <2>2. a[k] = arg[k]
    BY <1>5, <1>6, <1>7, <2>1 DEF Cut
  <2> QED BY <1>4, <2>1, <2>2 DEF Exact
<1> HIDE DEF a, m
<1>10. Argv(a) = SubSeq(line, 1, m)
  BY <1>1, <1>7, <1>8, <1>9, ArgvIs
<1> QED BY <1>5, <1>7, <1>10

LEMMA SimpleChild ==
  ASSUME IInv, pc = "parsed", ~ Found({"<", ">"})
  PROVE  AsTyped(Born(arg, "tty", "tty"))
<1>1. TypeOK /\ line # <<>>
  BY DEF IInv, Parsed
<1>2. SUFFICES ASSUME ~ Ampersand(line), Usual(line)
      PROVE  /\ Signs(line) = {} /\ Argv(arg) = line
             /\ After(line, "<") = "tty" /\ After(line, ">") = "tty"
  BY DEF AsTyped, Born
<1>3. Exact
  BY <1>2 DEF IInv, Parsed
<1> DEFINE n == Len(line)
<1>4. line \in Seq(Token) /\ n \in Nat \ {0} /\ DOMAIN line = 1..n
  BY <1>1, LineTokens, ShellAssumption
<1>5. /\ inputnum = IF n = 1 THEN 2 ELSE n
      /\ \A k \in 0..(n - 1) : arg[k] = line[k + 1]
      /\ arg[n] = NULL
  BY <1>3 DEF Exact
<1>6. \A j \in Signs(line) : j > 1 /\ (j = n - 1 \/ j = n - 3)
  BY <1>2 DEF Usual
<1>7. Signs(line) = {}
  <2> SUFFICES ASSUME NEW j \in Signs(line) PROVE FALSE
    OBVIOUS
  <2>1. j \in 1..n /\ line[j] \in {Word("<"), Word(">")}
    BY <1>4 DEF Signs, At
  <2> HIDE DEF n
  <2>2. j > 1 /\ j =< n - 1
    BY <1>4, <1>6, <2>1
  <2>3. inputnum = n
    BY <1>4, <1>5, <2>1, <2>2
  <2>4. j - 1 \in 0..(inputnum - 2) /\ j - 1 \in 0..(n - 1) /\ (j - 1) + 1 = j
    BY <1>4, <2>1, <2>2, <2>3
  <2>5. arg[j - 1] = line[j]
    BY <1>5, <2>4
  <2> QED BY <2>1, <2>4, <2>5 DEF Found, Scanned
<1>8. After(line, "<") = "tty" /\ After(line, ">") = "tty"
  BY <1>7 DEF Signs, After
<1>9. n \in 0..n
  <2> HIDE DEF n
  <2> QED BY <1>4
<1>10. Argv(arg) = SubSeq(line, 1, n)
  BY <1>1, <1>5, <1>9, ArgvIs
<1>11. SubSeq(line, 1, n) = line
  BY <1>4
<1> QED BY <1>7, <1>8, <1>10, <1>11

LEMMA RedirectedKeeps == ASSUME IInv, Redirected PROVE IInv'
<1>1. /\ pc = "parsed" /\ Found({"<", ">"}) /\ UNCHANGED <<split, exists, fds>>
      /\ line' \in {line, <<>>}
  BY DEF Redirected, To
<1>2. TypeOK /\ line # <<>>
  BY <1>1 DEF IInv, Parsed
<1>3. /\ pc' \in {"wait", "prompt"} /\ (pc' = "wait" => line' = line)
      /\ child' \in [Pid -> Child] /\ pid' \in Pid \cup {-1, 0}
      /\ Others' /\ PromptMeansDone' /\ WaitsForItsOwn' /\ RunsAsTyped'
  <2>1. CASE pc' = "prompt" /\ UNCHANGED <<pid, child>>
    BY <1>1, <1>2, <2>1, QuietKeeps DEF TypeOK
  <2>2. CASE \E r \in Redirection :
                /\ Fork(Cut(inputnum - r.from), r.in, r.out)
                /\ To("wait")
    <3>1. PICK r \in Redirection :
            Fork(Cut(inputnum - r.from), r.in, r.out) /\ To("wait")
      BY <2>2
    <3> DEFINE a == Cut(inputnum - r.from)
    <3>2. a \in [0..Top -> Token] /\ a[Top] \in {NULL, Garbage}
      BY <1>2, CutFits
    <3>3. r.in \in Text /\ r.out \in Text
      BY <1>2, RedirectionFits
    <3>4. AsTyped(Born(a, r.in, r.out))
      BY <1>1, RedirectedChild
    <3>5. Fork(a, r.in, r.out) /\ pc' = "wait" /\ line' = line
      BY <3>1 DEF To
    <3> HIDE DEF a
    <3> QED BY <1>1, <3>2, <3>3, <3>4, <3>5, ForkKeeps
  <2> QED BY <2>1, <2>2 DEF Redirected, To
<1>4. TypeOK'
  BY <1>1, <1>2, <1>3 DEF TypeOK, split
<1>5. Parsed'
  BY <1>2, <1>3 DEF Parsed
<1> QED BY <1>3, <1>4, <1>5 DEF IInv

LEMMA SimpleKeeps == ASSUME IInv, Simple PROVE IInv'
<1>1. /\ pc = "parsed" /\ ~ Found({"<", ">"}) /\ Fork(arg, "tty", "tty")
      /\ pc' = IF background THEN "prompt" ELSE "wait"
      /\ line' = IF background THEN <<>> ELSE line
      /\ background' = FALSE
      /\ UNCHANGED <<arg, inputnum, exists, fds>>
  BY DEF Simple, To
<1>2. TypeOK /\ line # <<>> /\ background \in BOOLEAN
  BY <1>1 DEF IInv, Parsed, TypeOK
<1>3. background => Ampersand(line)
  BY <1>1 DEF IInv, Parsed
<1>4. /\ pc' \in {"wait", "prompt"} /\ (pc' = "wait" => line' = line)
      /\ (pc' = "prompt" => Ampersand(line))
  BY <1>1, <1>2, <1>3
<1>5. AsTyped(Born(arg, "tty", "tty"))
  BY <1>1, SimpleChild
<1>6. arg \in [0..Top -> Token] /\ arg[Top] \in {NULL, Garbage} /\ "tty" \in Text
  BY <1>2 DEF TypeOK, Text
<1>7. /\ child' \in [Pid -> Child] /\ pid' \in Pid \cup {-1, 0}
      /\ Others' /\ PromptMeansDone' /\ WaitsForItsOwn' /\ RunsAsTyped'
  BY <1>1, <1>4, <1>5, <1>6, ForkKeeps
<1>8. TypeOK'
  BY <1>1, <1>2, <1>7 DEF TypeOK
<1>9. Parsed'
  BY <1>1, <1>2, <1>4 DEF Parsed
<1> QED BY <1>7, <1>8, <1>9 DEF IInv

(* A pipeline waits with an older line's pid, and all that is alive then    *)
(* was typed with an ampersand.                                             *)
LEMMA PipelineKeeps == ASSUME IInv, Pipeline PROVE IInv'
<1>1. /\ pc = "parsed" /\ ~ ScanFails /\ Piped
      /\ pc' \in {"wait", "crashed"} /\ line' = line
      /\ UNCHANGED <<split, pid, child, exists, fds>>
  BY DEF Pipeline, To
<1>2. TypeOK /\ line # <<>> /\ Bar(line)
  BY <1>1 DEF IInv, Parsed
<1>3. TypeOK'
  BY <1>1, <1>2 DEF TypeOK, split
<1>4. Parsed'
  BY <1>1, <1>2 DEF Parsed
<1>5. \A p \in Pid : Alive(p) => Ampersand(child[p].line)
  BY <1>1 DEF IInv, PromptMeansDone
<1>6. Others' /\ PromptMeansDone'
  BY <1>1, <1>5 DEF IInv, Others, PromptMeansDone, Alive
<1>7. pid > 0 => pid \in Pid
  BY <1>2, ShellAssumption DEF TypeOK, Pid
<1>8. WaitsForItsOwn'
  BY <1>1, <1>2, <1>5, <1>7 DEF WaitsForItsOwn, Alive, Bar
<1>9. RunsAsTyped'
  BY <1>1 DEF IInv, RunsAsTyped
<1> QED BY <1>3, <1>4, <1>6, <1>8, <1>9 DEF IInv

----------------------------------------------------------------------------
(* Children that end or are reaped.                                         *)

(* No child changes its line, comes to life or is given other arguments.    *)
LEMMA ChildrenKeep ==
  ASSUME TypeOK, RunsAsTyped, NEW q \in Pid, NEW c \in Child,
         child' = [child EXCEPT ![q] = c],
         c.state # "none" => Alive(q) /\ c.line = child[q].line,
         c.state \in {"forked", "running"} =>
           /\ child[q].state = "forked" /\ c.argv = child[q].argv
           /\ c.in \in {child[q].in, "closed"} /\ c.out \in {child[q].out, "closed"}
  PROVE  /\ child' \in [Pid -> Child] /\ RunsAsTyped'
         /\ \A p \in Pid : (Alive(p))' => Alive(p) /\ child'[p].line = child[p].line
<1>1. child \in [Pid -> Child]
  BY DEF TypeOK
<1>2. \A p \in Pid : child'[p] = IF p = q THEN c ELSE child[p]
  BY <1>1
<1>3. child' \in [Pid -> Child]
  BY <1>1
<1>4. \A p \in Pid : AsTyped(child[p])
  BY RunsAsTypedByChild
<1>5. AsTyped(c)
  BY <1>4 DEF AsTyped
<1>6. \A p \in Pid : AsTyped(child'[p])
  BY <1>2, <1>4, <1>5
<1>7. RunsAsTyped'
  BY <1>6 DEF RunsAsTyped, AsTyped
<1> QED BY <1>2, <1>3, <1>7 DEF Alive

LEMMA NoChildIsChild == NoChild \in Child
  BY DEF NoChild, Child, Text

LEMMA EndedIsChild ==
  ASSUME NEW c \in Child
  PROVE  Ended(c) \in Child /\ Ended(c).state = "zombie" /\ Ended(c).line = c.line
<1>1. c.line \in Command \cup {<<>>}
  BY DEF Child
<1>2. Ended(c) \in Child
  BY <1>1, NoChildIsChild DEF Ended, Child
<1>3. Ended(c).state = "zombie" /\ Ended(c).line = c.line
  BY NoChildIsChild DEF Ended, Child
<1> QED BY <1>2, <1>3

LEMMA ChildExecKeeps ==
  ASSUME IInv, NEW q \in Pid, ChildExec(q)
  PROVE  IInv'
<1> DEFINE c == child[q]
           inp == IF c.in = "tty" \/ (c.in \in exists /\ fds > 0) THEN c.in ELSE "closed"
           opens == c.out # "tty" /\ (fds > 0 \/ c.in # "tty")
           outp == IF opens \/ c.out = "tty" THEN c.out ELSE "closed"
           d == IF c.state = "faulty" \/ AfterExec(c) = "zombie" THEN Ended(c)
                ELSE [c EXCEPT !.state = AfterExec(c), !.in = inp, !.out = outp]
<1>1. /\ c.state \in {"forked", "faulty"}
      /\ child' = [child EXCEPT ![q] = d]
      /\ exists' = IF opens THEN exists \cup {c.out} ELSE exists
      /\ UNCHANGED <<pc, line, split, pid, fds>>
  BY DEF ChildExec
<1>2. c \in Child /\ child \in [Pid -> Child] /\ exists \subseteq Text
  BY DEF IInv, TypeOK
<1>3. c.out \in Text /\ c.in \in Text /\ "closed" \in Text
  BY <1>2 DEF Child, Text
<1>4. inp \in Text /\ outp \in Text /\ inp \in {c.in, "closed"} /\ outp \in {c.out, "closed"}
  BY <1>3
<1>5. /\ d \in Child /\ d.state # "none" /\ d.line = c.line
      /\ d.state \in {"forked", "running"} =>
           /\ c.state = "forked" /\ d.argv = c.argv
           /\ d.in \in {c.in, "closed"} /\ d.out \in {c.out, "closed"}
  <2> HIDE DEF c, inp, outp
  <2>1. CASE c.state = "faulty" \/ AfterExec(c) = "zombie"
    <3>1. d = Ended(c)
      BY <2>1
    <3> HIDE DEF d
    <3> QED BY <3>1, <1>2, EndedIsChild
  <2>2. CASE ~ (c.state = "faulty" \/ AfterExec(c) = "zombie")
    <3>1. AfterExec(c) = "running" /\ c.state = "forked"
      BY <1>1, <2>2 DEF AfterExec, c
    <3>2. d = [c EXCEPT !.state = "running", !.in = inp, !.out = outp]
      BY <2>2, <3>1
    <3> HIDE DEF d
    <3>3. d \in Child
      BY <1>2, <1>4, <3>2 DEF Child
    <3>4. /\ d.line = c.line /\ d.argv = c.argv /\ d.state = "running"
          /\ d.in = inp /\ d.out = outp
      BY <1>2, <3>2 DEF Child
    <3> QED BY <1>4, <3>1, <3>3, <3>4
  <2> QED BY <2>1, <2>2
<1>6. exists' \subseteq Text
  BY <1>1, <1>2, <1>3
<1> HIDE DEF d, inp, opens, outp
<1>7. /\ child' \in [Pid -> Child] /\ RunsAsTyped'
      /\ \A p \in Pid : (Alive(p))' => Alive(p) /\ child'[p].line = child[p].line
  <2>1. Alive(q)
    BY <1>1 DEF Alive
  <2>2. TypeOK /\ RunsAsTyped
    BY DEF IInv
  <2> QED BY <1>1, <1>5, <2>1, <2>2, ChildrenKeep
<1>8. TypeOK'
  BY <1>1, <1>6, <1>7 DEF IInv, TypeOK, split
<1>9. Parsed'
  BY <1>1 DEF IInv, Parsed, split, Exact, ScanFails, Piped, Found, Scanned
<1>10. Others' /\ PromptMeansDone'
  BY <1>1, <1>7 DEF IInv, Others, PromptMeansDone
<1>11. WaitsForItsOwn'
  <2>1. pid > 0 => pid \in Pid
    BY ShellAssumption DEF IInv, TypeOK, Pid
  <2> QED BY <1>1, <1>7, <2>1 DEF IInv, WaitsForItsOwn
<1> QED BY <1>7, <1>8, <1>9, <1>10, <1>11 DEF IInv

LEMMA ChildEndsKeeps ==
  ASSUME IInv, NEW q \in Pid, ChildEnds(q)
  PROVE  IInv'
<1>1. /\ child[q].state = "running"
      /\ child' = [child EXCEPT ![q] = Ended(child[q])]
      /\ UNCHANGED <<pc, line, split, pid, exists, fds>>
  BY DEF ChildEnds
<1>2. TypeOK /\ RunsAsTyped /\ child[q] \in Child /\ Alive(q)
  BY <1>1 DEF IInv, TypeOK, Alive
<1>3. /\ Ended(child[q]) \in Child /\ Ended(child[q]).state = "zombie"
      /\ Ended(child[q]).line = child[q].line
  BY <1>2, EndedIsChild
<1>4. /\ child' \in [Pid -> Child] /\ RunsAsTyped'
      /\ \A p \in Pid : (Alive(p))' => Alive(p) /\ child'[p].line = child[p].line
  BY <1>1, <1>2, <1>3, ChildrenKeep
<1>5. TypeOK'
  BY <1>1, <1>4 DEF IInv, TypeOK, split
<1>6. Parsed'
  BY <1>1 DEF IInv, Parsed, split, Exact, ScanFails, Piped, Found, Scanned
<1>7. Others' /\ PromptMeansDone'
  BY <1>1, <1>4 DEF IInv, Others, PromptMeansDone
<1>8. WaitsForItsOwn'
  <2>1. pid > 0 => pid \in Pid
    BY ShellAssumption DEF IInv, TypeOK, Pid
  <2> QED BY <1>1, <1>4, <2>1 DEF IInv, WaitsForItsOwn
<1> QED BY <1>4, <1>5, <1>6, <1>7, <1>8 DEF IInv

(* Whoever the shell waits for is reaped, or is not there; the others were  *)
(* typed with an ampersand.                                                 *)
LEMMA WaitKeeps == ASSUME IInv, Wait PROVE IInv'
<1>1. /\ pc = "wait" /\ pc' = "prompt" /\ line' = <<>>
      /\ UNCHANGED <<split, pid, exists, fds>>
  BY DEF Wait, To
<1>2. TypeOK /\ RunsAsTyped /\ pid \in Pid \cup {-1, 0}
  BY DEF IInv, TypeOK
<1>3. /\ child' \in [Pid -> Child] /\ RunsAsTyped'
      /\ \A p \in Pid : (Alive(p))' => Alive(p) /\ child'[p].line = child[p].line
  <2>1. CASE UNCHANGED child
    BY <1>2, <2>1 DEF TypeOK, RunsAsTyped, Alive
  <2>2. CASE \E q \in Pid : child' = [child EXCEPT ![q] = NoChild]
    <3>1. PICK q \in Pid : child' = [child EXCEPT ![q] = NoChild]
      BY <2>2
    <3>2. NoChild.state = "none"
      BY DEF NoChild
    <3> QED BY <1>2, <3>1, <3>2, NoChildIsChild, ChildrenKeep
  <2>3. (UNCHANGED child) \/ \E q \in Pid : child' = [child EXCEPT ![q] = NoChild]
    BY DEF Wait
  <2> QED BY <2>1, <2>2, <2>3
<1>4. (pid \in Pid) => ~ Alive(pid)'
  <2> SUFFICES ASSUME pid \in Pid PROVE child'[pid].state = "none"
    BY <1>1 DEF Alive
  <2>1. ~ (pid < 1)
    BY ShellAssumption DEF Pid
  <2>2. CASE \E p \in Pid : p = pid /\ child' = [child EXCEPT ![p] = NoChild]
    <3>1. NoChild.state = "none"
      BY DEF NoChild
    <3>2. child' = [child EXCEPT ![pid] = NoChild] /\ child \in [Pid -> Child]
      BY <1>2, <2>2 DEF TypeOK
    <3> QED BY <3>1, <3>2
  <2>3. CASE child[pid].state = "none" /\ UNCHANGED child
    BY <2>3
  <2> QED BY <2>1, <2>2, <2>3 DEF Wait
<1>5. \A p \in Pid : (Alive(p))' => Ampersand(child'[p].line)
  <2> SUFFICES ASSUME NEW p \in Pid, (Alive(p))' PROVE Ampersand(child'[p].line)
    OBVIOUS
  <2>1. Alive(p) /\ child'[p].line = child[p].line
    BY <1>3
  <2>2. p # pid
    BY <1>1, <1>4 DEF Alive
  <2>3. CASE pid = -1
    BY <2>1, <2>3 DEF IInv, PromptMeansDone
  <2>4. CASE pid # -1
    BY <1>1, <2>1, <2>2, <2>4 DEF IInv, Others
  <2> QED BY <2>3, <2>4
<1>6. TypeOK'
  BY <1>1, <1>2, <1>3 DEF TypeOK, split
<1>7. Parsed'
  BY <1>1 DEF Parsed
<1>8. Others' /\ PromptMeansDone' /\ WaitsForItsOwn'
  BY <1>1, <1>3, <1>5 DEF IInv, Others, PromptMeansDone, WaitsForItsOwn
<1> QED BY <1>3, <1>6, <1>7, <1>8 DEF IInv

----------------------------------------------------------------------------
LEMMA InitIInv == Init => IInv
<1> SUFFICES ASSUME Init PROVE IInv
  OBVIOUS
<1>1. NULL \in Token /\ Garbage \in Token
  BY DEF NULL, Garbage, Word, Token, Text
<1>2. arg \in [0..Top -> Token] /\ arg[Top] \in {NULL, Garbage}
  <2> HIDE DEF NULL, Garbage
  <2> QED BY <1>1, ShellAssumption DEF Init
<1>3. inputnum \in 0..Top /\ fds \in 0..OPEN_MAX /\ exists \subseteq Text
  BY ShellAssumption DEF Init
<1>4. child \in [Pid -> Child] /\ \A p \in Pid : child[p].state = "none"
  <2>1. NoChild.state = "none"
    BY DEF NoChild
  <2> QED BY <2>1, NoChildIsChild DEF Init
<1>5. TypeOK
  BY <1>2, <1>3, <1>4 DEF Init, TypeOK
<1>6. Parsed /\ Others /\ PromptMeansDone /\ WaitsForItsOwn
  BY <1>4 DEF Init, Parsed, Others, PromptMeansDone, WaitsForItsOwn, Alive
<1>7. RunsAsTyped
  BY <1>4 DEF RunsAsTyped
<1> QED BY <1>5, <1>6, <1>7 DEF IInv

LEMMA StutterKeeps == ASSUME IInv, UNCHANGED vars PROVE IInv'
<1>1. UNCHANGED <<pc, line, arg, inputnum, background, pid, child, exists, fds>>
  BY DEF vars, split
<1>2. TypeOK' /\ Others' /\ PromptMeansDone' /\ WaitsForItsOwn' /\ RunsAsTyped'
  BY <1>1 DEF IInv, TypeOK, Others, PromptMeansDone, WaitsForItsOwn, RunsAsTyped, Alive
<1>3. Parsed'
  BY <1>1 DEF IInv, Parsed, Exact, ScanFails, Piped, Found, Scanned
<1> QED BY <1>2, <1>3 DEF IInv

LEMMA StepKeepsIInv == IInv /\ [Next]_vars => IInv'
<1> SUFFICES ASSUME IInv, [Next]_vars PROVE IInv'
  OBVIOUS
<1>1. CASE ReadLine
  BY <1>1, ReadLineKeeps
<1>2. CASE Logged
  BY <1>2, LoggedKeeps
<1>3. CASE Copy
  BY <1>3, CopyKeeps
<1>4. CASE Parse
  BY <1>4, ParseKeeps
<1>5. CASE Crash
  BY <1>5, CrashKeeps
<1>6. CASE Pipeline
  BY <1>6, PipelineKeeps
<1>7. CASE Redirected
  BY <1>7, RedirectedKeeps
<1>8. CASE Simple
  BY <1>8, SimpleKeeps
<1>9. CASE Wait
  BY <1>9, WaitKeeps
<1>10. ASSUME NEW p \in Pid, ChildExec(p) \/ ChildEnds(p) PROVE IInv'
  BY <1>10, ChildExecKeeps, ChildEndsKeeps
<1>11. CASE UNCHANGED vars
  BY <1>11, StutterKeeps
<1> QED BY <1>1, <1>2, <1>3, <1>4, <1>5, <1>6, <1>7, <1>8, <1>9, <1>10, <1>11
        DEF Next, ShellStep

LEMMA Invariance == Spec => []IInv
  BY InitIInv, StepKeepsIInv, PTL DEF Spec

(* The variables hold what the code keeps in them: inputnum stays in arg's  *)
(* range, and the last entry of arg that lines can reach ends every vector. *)
THEOREM TypeCorrect == Spec => []TypeOK
<1>1. IInv => TypeOK
  BY DEF IInv
<1> QED BY <1>1, Invariance, PTL

(* Whatever is typed, in any order, only lines with an ampersand leave a    *)
(* child at the prompt, although a pipeline waits with an old pid and a     *)
(* redirection waits whatever background says.                              *)
THEOREM DoneAtPrompt == Spec => []PromptMeansDone
<1>1. IInv => PromptMeansDone
  BY DEF IInv
<1> QED BY <1>1, Invariance, PTL

(* The pid that waitpid is given is the child of the line, or the line has  *)
(* a bar and the child was typed with an ampersand.                         *)
THEOREM RightWait == Spec => []WaitsForItsOwn
<1>1. IInv => WaitsForItsOwn
  BY DEF IInv
<1> QED BY <1>1, Invariance, PTL

(* A line of the usual form runs as it was typed, whatever older lines left *)
(* on the stack.                                                            *)
THEOREM AsTypedAlways == Spec => []RunsAsTyped
<1>1. IInv => RunsAsTyped
  BY DEF IInv
<1> QED BY <1>1, Invariance, PTL
=============================================================================
