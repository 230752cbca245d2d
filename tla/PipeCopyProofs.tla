--------------------------- MODULE PipeCopyProofs ---------------------------
(* Proofs about the copy for every size of the buffer and of the source,    *)
(* and every combination of faults.                                         *)
EXTENDS PipeCopy, TLAPS

(* Bytes a + 1 to b of the source.                                          *)
Bytes(a, b) == [k \in 1..(b - a) |-> a + k]

(* The bytes of s stand in the order of the source and are among its first n*)
InOrder(s, n) ==
  /\ s \in Seq(Nat)
  /\ \A i \in 1..Len(s) : s[i] <= n
  /\ \A i, j \in 1..Len(s) : i < j => s[i] < s[j]

(* The copy has the first n bytes, or, if a write has failed, some of them. *)
Copied(n) == InOrder(copy, n) /\ (~ short => copy = Bytes(0, n))

Before == pos - Len(blockP)

(* The parent's buffer holds the last block read, which is only short at    *)
(* the end of the source.                                                   *)
BlockRead ==
  /\ size \in Nat /\ pos \in 0..size
  /\ Before \in 0..pos
  /\ blockP = Bytes(Before, pos)
  /\ Len(blockP) <= BUF_SIZE
  /\ pos > 0 => Before < pos
  /\ Before < pos /\ Len(blockP) < BUF_SIZE => pos = size
  /\ pcP \in {"write", "ack"} => pos > 0

(* Who holds which ends of the pipes.                                       *)
EndsHeld ==
  /\ pcP \in {"fork", "close", "read", "write", "ack"} \cup Ended
  /\ pcC \in {"none", "close", "read", "write", "ack"} \cup Ended
  /\ endsP = IF pcP \in {"fork", "close"} THEN End
             ELSE IF pcP \in Ended THEN {} ELSE {"w1", "r2"}
  /\ endsC = IF pcC = "close" THEN End
             ELSE IF pcC \in Ended \cup {"none"} THEN {} ELSE {"r1", "w2"}
  /\ pcP = "fork" => pcC = "none"

(* The round that a block makes while the child lives: nothing under way,   *)
(* the block in the pipe, with the child, written, acknowledged.            *)
NothingSent ==
  /\ pipe1 = <<>> /\ pipe2 = 0
  /\ pcC \in {"none", "close", "read"} /\ pcP # "ack"
  /\ pcP \notin {"write", "killed"} => Copied(pos)
  /\ pcP = "write" => Copied(Before)
  /\ pcP = "killed" => Copied(pos) \/ Copied(Before)

Sent ==
  /\ pipe1 = blockP /\ pipe2 = 0
  /\ pcC \in {"close", "read"} /\ pcP \in {"ack", "killed"}
  /\ Before < pos /\ Copied(Before)

Received ==
  /\ pipe1 = <<>> /\ pipe2 = 0 /\ blockC = blockP
  /\ pcC = "write" /\ pcP \in {"ack", "killed"}
  /\ Before < pos /\ Copied(Before)

Written ==
  /\ pipe1 = <<>> /\ pipe2 = 0 /\ blockC = blockP
  /\ pcC = "ack" /\ pcP \in {"ack", "killed"}
  /\ Before < pos /\ Copied(pos)

Acknowledged ==
  /\ pipe1 = <<>> /\ pipe2 = 1
  /\ pcC = "read" /\ pcP \in {"ack", "killed"}
  /\ Copied(pos)

(* Once the child has ended the copy stays as it is.                        *)
ChildGone ==
  /\ pcC \in {"done", "killed"}
  /\ \E n \in 0..pos : Copied(n)
  /\ pcC = "done" => pcP \in Ended

Round ==
  NothingSent \/ Sent \/ Received \/ Written \/ Acknowledged \/ ChildGone

IInv ==
  /\ BlockRead
  /\ EndsHeld
  /\ Round
  /\ AckMeansWritten
  /\ MessageMeansCopied

----------------------------------------------------------------------------
(* Facts about the bytes of the source.                                     *)
LEMMA BytesFacts ==
  ASSUME NEW a \in Nat, NEW b \in Nat, a <= b
  PROVE  /\ Bytes(a, b) \in Seq(Nat)
         /\ Len(Bytes(a, b)) = b - a
         /\ \A k \in 1..(b - a) : Bytes(a, b)[k] = a + k
BY DEF Bytes

LEMMA ConcatFacts ==
  ASSUME NEW S, NEW s \in Seq(S), NEW t \in Seq(S)
  PROVE  /\ s \o t \in Seq(S) /\ Len(s \o t) = Len(s) + Len(t)
         /\ \A k \in 1..Len(s) : (s \o t)[k] = s[k]
         /\ \A k \in 1..Len(t) : (s \o t)[k + Len(s)] = t[k]
OBVIOUS

LEMMA FrontFacts ==
  ASSUME NEW S, NEW s \in Seq(S), NEW n \in 0..Len(s)
  PROVE  /\ SubSeq(s, 1, n) \in Seq(S) /\ Len(SubSeq(s, 1, n)) = n
         /\ \A k \in 1..n : SubSeq(s, 1, n)[k] = s[k]
OBVIOUS

LEMMA BytesConcat ==
  ASSUME NEW a \in Nat, NEW b \in Nat, a <= b
  PROVE  Bytes(0, a) \o Bytes(a, b) = Bytes(0, b)
<1> DEFINE s == Bytes(0, a)
           t == Bytes(a, b)
           u == Bytes(0, b)
<1>1. s \in Seq(Nat) /\ Len(s) = a /\ \A k \in 1..a : s[k] = k
  BY BytesFacts
<1>2. t \in Seq(Nat) /\ Len(t) = b - a /\ \A k \in 1..(b - a) : t[k] = a + k
  BY BytesFacts
<1>3. u \in Seq(Nat) /\ Len(u) = b /\ \A k \in 1..b : u[k] = k
  BY BytesFacts
<1> HIDE DEF s, t, u
<1>4. s \o t \in Seq(Nat) /\ Len(s \o t) = b
  <2>1. s \o t \in Seq(Nat) /\ Len(s \o t) = Len(s) + Len(t)
    BY <1>1, <1>2, ConcatFacts
  <2>2. Len(s) + Len(t) = b
    BY <1>1, <1>2
  <2> QED BY <2>1, <2>2
<1>5. \A k \in 1..b : (s \o t)[k] = u[k]
  <2> SUFFICES ASSUME NEW k \in 1..b PROVE (s \o t)[k] = u[k]
    OBVIOUS
  <2>1. u[k] = k
    BY <1>3
  <2>2. CASE k <= a
    <3>1. k \in 1..Len(s)
      BY <1>1, <2>2
    <3>2. (s \o t)[k] = s[k]
      BY <1>1, <1>2, <3>1, ConcatFacts
    <3> QED BY <1>1, <2>1, <2>2, <3>2
  <2>3. CASE k > a
    <3> DEFINE j == k - a
    <3>1. j \in 1..Len(t) /\ j \in 1..(b - a) /\ j + Len(s) = k /\ a + j = k
      BY <1>1, <1>2, <2>3
    <3> HIDE DEF j
    <3>2. (s \o t)[j + Len(s)] = t[j]
      BY <1>1, <1>2, <3>1, ConcatFacts
    <3> QED BY <1>2, <2>1, <3>1, <3>2
  <2>4. k <= a \/ k > a
    OBVIOUS
  <2> QED BY <2>2, <2>3, <2>4
<1>6. s \o t = u
  BY <1>3, <1>4, <1>5
<1> QED BY <1>6 DEF s, t, u

(* The block read whole, or the pipe emptied by one read.                   *)
LEMMA WholeSeq ==
  ASSUME NEW S, NEW s \in Seq(S)
  PROVE  /\ SubSeq(s, 1, Len(s)) = s
         /\ SubSeq(s, Len(s) + 1, Len(s)) = <<>>
         /\ <<>> \o s = s
  OBVIOUS

(* The beginning of the next bytes appended to some of the first a.         *)
LEMMA AppendInOrder ==
  ASSUME NEW a \in Nat, NEW b \in Nat, a <= b, NEW s, InOrder(s, a),
         NEW n \in 0..(b - a)
  PROVE  InOrder(s \o SubSeq(Bytes(a, b), 1, n), b)
<1> DEFINE t == SubSeq(Bytes(a, b), 1, n)
           u == s \o t
<1>1. s \in Seq(Nat) /\ Len(s) \in Nat
  BY DEF InOrder
<1>2. t \in Seq(Nat) /\ Len(t) = n /\ \A k \in 1..n : t[k] = a + k
  <2> DEFINE v == Bytes(a, b)
  <2>1. v \in Seq(Nat) /\ Len(v) = b - a /\ \A k \in 1..(b - a) : v[k] = a + k
    BY BytesFacts
  <2> HIDE DEF v
  <2>2. /\ SubSeq(v, 1, n) \in Seq(Nat) /\ Len(SubSeq(v, 1, n)) = n
        /\ \A k \in 1..n : SubSeq(v, 1, n)[k] = v[k]
    BY <2>1, FrontFacts
  <2>3. \A k \in 1..n : k \in 1..(b - a)
    OBVIOUS
  <2> QED BY <2>1, <2>2, <2>3 DEF v
<1> HIDE DEF t
<1>3. /\ u \in Seq(Nat) /\ Len(u) = Len(s) + n
      /\ \A k \in 1..Len(s) : u[k] = s[k]
      /\ \A k \in 1..n : u[k + Len(s)] = t[k]
  <2>1. /\ s \o t \in Seq(Nat) /\ Len(s \o t) = Len(s) + Len(t)
        /\ \A k \in 1..Len(s) : (s \o t)[k] = s[k]
        /\ \A k \in 1..Len(t) : (s \o t)[k + Len(s)] = t[k]
    <3>1. s \in Seq(Nat) /\ t \in Seq(Nat)
      BY <1>1, <1>2
    <3> HIDE DEF u
    <3> QED BY <3>1, ConcatFacts
  <2> QED BY <1>2, <2>1
<1> HIDE DEF u
<1>4. \A k \in 1..Len(u) : k > Len(s) => u[k] = a + (k - Len(s))
  <2> SUFFICES ASSUME NEW k \in 1..Len(u), k > Len(s)
               PROVE  u[k] = a + (k - Len(s))
    OBVIOUS
  <2> DEFINE j == k - Len(s)
  <2>1. j \in 1..n /\ j + Len(s) = k
    BY <1>1, <1>3
  <2> HIDE DEF j
  <2>2. u[k] = t[j] /\ t[j] = a + j
    BY <1>2, <1>3, <2>1
  <2> QED BY <2>2 DEF j
<1>5. \A k \in 1..Len(u) : k <= Len(s) => u[k] = s[k] /\ u[k] \in Nat /\ u[k] <= a
  BY <1>1, <1>3 DEF InOrder
<1>6. \A k \in 1..Len(u) : u[k] <= b
  <2> SUFFICES ASSUME NEW k \in 1..Len(u) PROVE u[k] <= b
    OBVIOUS
  <2>1. CASE k <= Len(s)
    BY <1>5, <2>1
  <2>2. CASE k > Len(s)
    <3>1. u[k] = a + (k - Len(s)) /\ k - Len(s) <= n
      BY <1>1, <1>3, <1>4, <2>2
    <3> QED BY <1>1, <3>1
  <2> QED BY <1>1, <2>1, <2>2
<1>7. \A i, j \in 1..Len(u) : i < j => u[i] < u[j]
  <2> SUFFICES ASSUME NEW i \in 1..Len(u), NEW j \in 1..Len(u), i < j
               PROVE  u[i] < u[j]
    OBVIOUS
  <2>1. CASE j <= Len(s)
    BY <1>1, <1>3, <1>5, <2>1 DEF InOrder
  <2>2. CASE j > Len(s) /\ i <= Len(s)
    BY <1>1, <1>3, <1>4, <1>5, <2>2
  <2>3. CASE i > Len(s)
    <3>1. u[i] = a + (i - Len(s)) /\ u[j] = a + (j - Len(s))
      BY <1>1, <1>3, <1>4, <2>3
    <3> QED BY <1>1, <3>1
  <2> QED BY <1>1, <1>3, <2>1, <2>2, <2>3
<1>8. InOrder(u, b)
  BY <1>3, <1>6, <1>7 DEF InOrder
<1> QED BY <1>8 DEF u, t

LEMMA BlockSeq ==
  ASSUME BlockRead
  PROVE  /\ blockP \in Seq(Nat) /\ Len(blockP) = pos - Before
         /\ Before < pos => blockP # <<>>
<1>1. Before \in Nat /\ pos \in Nat /\ Before <= pos
  BY DEF BlockRead
<1>2. blockP \in Seq(Nat) /\ Len(blockP) = pos - Before
  BY <1>1, BytesFacts DEF BlockRead
<1> QED BY <1>1, <1>2

LEMMA InitIInv == Init => IInv
<1> SUFFICES ASSUME Init PROVE IInv
  OBVIOUS
<1>1. size \in Nat
  BY CopyAssumption DEF Init
<1>2. Before = 0
  <2>1. pos = 0 /\ Len(blockP) = 0
    BY DEF Init
  <2> QED BY <2>1 DEF Before
<1>3. Bytes(0, 0) = <<>>
  BY DEF Bytes
<1>4. BlockRead
  BY <1>1, <1>2, <1>3, CopyAssumption DEF Init, BlockRead
<1>5. EndsHeld /\ AckMeansWritten /\ MessageMeansCopied
  BY DEF Init, EndsHeld, AckMeansWritten, MessageMeansCopied, Ended
<1>6. NothingSent
  <2>1. InOrder(copy, 0)
    BY DEF Init, InOrder
  <2> QED BY <1>2, <1>3, <2>1 DEF Init, NothingSent, Copied
<1> QED BY <1>4, <1>5, <1>6 DEF IInv, Round

(* What a step leaves alone, or disturbs only by ending the parent.         *)
LEMMA BlockKept ==
  ASSUME BlockRead, UNCHANGED <<size, pos, blockP>>,
         pcP' \in {"write", "ack"} => pcP \in {"write", "ack"}
  PROVE  BlockRead' /\ Before' = Before
BY DEF BlockRead, Before

(* The steps of the parent.                                                 *)
LEMMA ForkKeepsIInv == ASSUME IInv, Fork PROVE IInv'
<1> USE DEF IInv
<1>1. BlockRead' /\ Before' = Before
  BY BlockKept DEF Fork
<1>2. EndsHeld'
  BY DEF Fork, EndsHeld, Ended
<1>3. NothingSent
  BY DEF Fork, EndsHeld, Round, Sent, Received, Written, Acknowledged, ChildGone,
         NothingSent, Ended
<1>4. NothingSent'
  BY <1>1, <1>3 DEF Fork, NothingSent, Copied
<1>5. AckMeansWritten' /\ MessageMeansCopied'
  BY DEF Fork, AckMeansWritten, MessageMeansCopied, Source
<1> QED BY <1>1, <1>2, <1>4, <1>5 DEF Round

LEMMA ParentClosesKeepsIInv == ASSUME IInv, ParentCloses PROVE IInv'
<1> USE DEF IInv
<1>1. /\ UNCHANGED <<size, pos, blockP, pcC, endsC, blockC, copy, printed, short,
                     pipe1, pipe2>>
      /\ pcP = "close" /\ pcP' = "read" /\ endsP' = {"w1", "r2"}
  BY DEF ParentCloses, child, EndsHeld, End
<1>2. BlockRead' /\ Before' = Before
  BY <1>1, BlockKept
<1>3. EndsHeld'
  BY <1>1 DEF EndsHeld, Ended
<1>4. CASE NothingSent
  <2>1. NothingSent' /\ Copied(pos)
    BY <1>1, <1>2, <1>4 DEF NothingSent, Copied
  <2>2. AckMeansWritten'
    <3>1. ~ short => Len(copy) = pos
      BY <2>1, BytesFacts DEF Copied, BlockRead
    <3> QED BY <1>1, <3>1 DEF AckMeansWritten
  <2> QED BY <1>1, <1>2, <1>3, <2>1, <2>2 DEF Round, MessageMeansCopied, Source
<1>5. CASE ChildGone
  <2>1. pcC = "killed"
    BY <1>1, <1>5 DEF ChildGone, Ended
  <2>2. ChildGone' /\ AckMeansWritten'
    BY <1>1, <1>5, <2>1 DEF ChildGone, Copied, AckMeansWritten
  <2> QED BY <1>1, <1>2, <1>3, <2>2 DEF Round, MessageMeansCopied, Source
<1> QED BY <1>1, <1>4, <1>5 DEF Round, Sent, Received, Written, Acknowledged

LEMMA ParentReadKeepsIInv == ASSUME IInv, ParentRead PROVE IInv'
<1> USE DEF IInv
<1>1. /\ pcP = "read" /\ endsP = {"w1", "r2"}
      /\ UNCHANGED <<size, pcC, endsC, blockC, copy, printed, short, pipe1, pipe2>>
  BY DEF ParentRead, child, EndsHeld, Ended
<1>2. NothingSent \/ (ChildGone /\ pcC = "killed")
  BY <1>1 DEF Round, NothingSent, Sent, Received, Written, Acknowledged, ChildGone, Ended
<1>3. size \in Nat /\ pos \in Nat /\ pos <= size
  BY DEF BlockRead
<1> DEFINE n == IF size - pos < BUF_SIZE THEN size - pos ELSE BUF_SIZE
<1>4. CASE n > 0 /\ blockP' = [k \in 1..n |-> pos + k] /\ pos' = pos + n
           /\ pcP' = "write" /\ UNCHANGED endsP
  <2>1. n \in 1..BUF_SIZE /\ pos + n <= size /\ (n < BUF_SIZE => pos + n = size)
    BY <1>3, <1>4, CopyAssumption
  <2> HIDE DEF n
  <2>2. pos' \in Nat /\ pos' - pos = n /\ pos' <= size
    BY <1>3, <1>4, <2>1, CopyAssumption
  <2>3. blockP' = Bytes(pos, pos')
    BY <1>4, <2>2 DEF Bytes
  <2>4. Len(blockP') = n
    <3>1. pos <= pos'
      <4>1. n > 0
        BY <2>1, CopyAssumption
      <4> QED BY <1>3, <2>2, <4>1
    <3>2. Len(Bytes(pos, pos')) = pos' - pos
      BY <1>3, <2>2, <3>1, BytesFacts
    <3> QED BY <2>2, <2>3, <3>2
  <2>5. Before' = pos
    BY <1>3, <2>2, <2>4 DEF Before
  <2>6. BlockRead'
    BY <1>1, <1>3, <1>4, <2>1, <2>2, <2>3, <2>4, <2>5, CopyAssumption DEF BlockRead
  <2>7. EndsHeld'
    BY <1>1, <1>4 DEF EndsHeld, Ended
  <2>8. Round'
    <3>1. CASE NothingSent
      <4>1. NothingSent'
        BY <1>1, <1>4, <2>5, <3>1 DEF NothingSent, Copied
      <4> QED BY <4>1 DEF Round
    <3>2. CASE ChildGone /\ pcC = "killed"
      <4>1. PICK m \in 0..pos : Copied(m)
        BY <3>2 DEF ChildGone
      <4>2. m \in 0..pos' /\ Copied(m)'
        BY <1>1, <1>3, <1>4, <2>1, <4>1, CopyAssumption DEF Copied
      <4>3. ChildGone'
        BY <1>1, <3>2, <4>2 DEF ChildGone
      <4> QED BY <4>3 DEF Round
    <3> QED BY <1>2, <3>1, <3>2
  <2>9. AckMeansWritten'
    BY <1>4 DEF AckMeansWritten
  <2>10. MessageMeansCopied'
    <3>1. pos # size
      BY <1>3, <1>4, <2>1, CopyAssumption
    <3> QED BY <1>1, <3>1 DEF MessageMeansCopied
  <2> QED BY <2>6, <2>7, <2>8, <2>9, <2>10
<1>5. CASE /\ ParentEnds(IF n = 0 THEN "done" ELSE "failed")
           /\ UNCHANGED <<blockP, pos>>
  <2>1. pcP' \in {"done", "failed"} /\ endsP' = {}
    BY <1>5 DEF ParentEnds
  <2>2. BlockRead' /\ Before' = Before
    BY <1>1, <1>5, <2>1, BlockKept
  <2>3. EndsHeld'
    BY <1>1, <2>1 DEF EndsHeld, Ended
  <2>4. Round'
    <3>1. CASE NothingSent
      <4>1. NothingSent'
        BY <1>1, <1>5, <2>1, <3>1 DEF NothingSent, Copied
      <4> QED BY <4>1 DEF Round
    <3>2. CASE ChildGone /\ pcC = "killed"
      <4>1. ChildGone'
        BY <1>1, <1>5, <3>2 DEF ChildGone, Copied
      <4> QED BY <4>1 DEF Round
    <3> QED BY <1>2, <3>1, <3>2
  <2>5. AckMeansWritten'
    BY <1>1, <1>5, <2>1 DEF AckMeansWritten
  <2>6. MessageMeansCopied'
    BY <1>1, <1>5 DEF MessageMeansCopied, Source
  <2> QED BY <2>2, <2>3, <2>4, <2>5, <2>6
<1> QED BY <1>4, <1>5 DEF ParentRead

LEMMA ParentWriteKeepsIInv == ASSUME IInv, ParentWrite PROVE IInv'
<1> USE DEF IInv
<1>1. /\ pcP = "write" /\ endsP = {"w1", "r2"}
      /\ UNCHANGED <<size, pos, blockP, pcC, endsC, blockC, copy, printed, short, pipe2>>
  BY DEF ParentWrite, child, EndsHeld, Ended
<1>2. BlockRead' /\ Before' = Before
  BY <1>1, BlockKept
<1>3. NothingSent \/ (ChildGone /\ pcC = "killed")
  BY <1>1 DEF Round, NothingSent, Sent, Received, Written, Acknowledged, ChildGone, Ended
<1>4. MessageMeansCopied'
  BY <1>1 DEF MessageMeansCopied, Source
<1>5. CASE "r1" \in Held /\ pipe1' = pipe1 \o blockP /\ pcP' = "ack" /\ UNCHANGED endsP
  <2>1. pcC \in {"close", "read"} /\ NothingSent
    BY <1>1, <1>3, <1>5 DEF Held, EndsHeld, Ended, NothingSent, ChildGone
  <2>2. pipe1' = blockP
    BY <1>5, <2>1, BlockSeq, WholeSeq DEF NothingSent
  <2>3. Before < pos
    BY <1>1 DEF BlockRead
  <2>4. Sent'
    BY <1>1, <1>2, <1>5, <2>1, <2>2, <2>3 DEF Sent, NothingSent, Copied
  <2>5. EndsHeld' /\ AckMeansWritten'
    BY <1>1, <1>5 DEF EndsHeld, Ended, AckMeansWritten
  <2> QED BY <1>2, <1>4, <2>4, <2>5 DEF Round
<1>6. CASE "r1" \notin Held /\ ParentEnds("killed") /\ UNCHANGED pipe1
  <2>1. pcP' = "killed" /\ endsP' = {}
    BY <1>6 DEF ParentEnds
  <2>2. EndsHeld' /\ AckMeansWritten'
    BY <1>1, <2>1 DEF EndsHeld, Ended, AckMeansWritten
  <2>3. Round'
    <3>1. CASE NothingSent
      <4>1. NothingSent'
        BY <1>1, <1>2, <1>6, <2>1, <3>1 DEF NothingSent, Copied
      <4> QED BY <4>1 DEF Round
    <3>2. CASE ChildGone /\ pcC = "killed"
      <4>1. ChildGone'
        BY <1>1, <3>2 DEF ChildGone, Copied
      <4> QED BY <4>1 DEF Round
    <3> QED BY <1>3, <3>1, <3>2
  <2> QED BY <1>2, <1>4, <2>2, <2>3
<1> QED BY <1>5, <1>6 DEF ParentWrite

LEMMA ParentAckKeepsIInv == ASSUME IInv, ParentAck PROVE IInv'
<1> USE DEF IInv
<1>1. /\ pcP = "ack" /\ pcP' = "read" /\ endsP = {"w1", "r2"}
      /\ UNCHANGED <<size, pos, blockP, endsP, pcC, endsC, blockC, copy, printed, short, pipe1>>
  BY DEF ParentAck, child, EndsHeld, Ended
<1>2. BlockRead' /\ Before' = Before
  BY <1>1, BlockKept
<1>3. MessageMeansCopied' /\ EndsHeld'
  BY <1>1 DEF MessageMeansCopied, Source, EndsHeld, Ended
<1>4. Acknowledged \/ (ChildGone /\ pcC = "killed")
  <2>1. pcC \in {"close", "read", "write", "ack"} => "w2" \in Held
    BY DEF EndsHeld, Held, End, Ended
  <2>2. pipe2 = 0 => "w2" \notin Held
    BY DEF ParentAck
  <2> QED BY <1>1, <2>1, <2>2
          DEF Round, NothingSent, Sent, Received, Written, Acknowledged, ChildGone, Ended
<1>5. CASE Acknowledged
  <2>1. pipe2' = 0
    BY <1>1, <1>5 DEF ParentAck, Acknowledged
  <2>2. NothingSent' /\ Copied(pos)
    BY <1>1, <1>5, <2>1 DEF Acknowledged, NothingSent, Copied
  <2>3. AckMeansWritten'
    <3>1. ~ short => Len(copy) = pos
      BY <2>2, BytesFacts DEF Copied, BlockRead
    <3> QED BY <1>1, <3>1 DEF AckMeansWritten
  <2> QED BY <1>2, <1>3, <2>2, <2>3 DEF Round
<1>6. CASE ChildGone /\ pcC = "killed"
  <2>1. ChildGone' /\ AckMeansWritten'
    BY <1>1, <1>6 DEF ChildGone, Copied, AckMeansWritten
  <2> QED BY <1>2, <1>3, <2>1 DEF Round
<1> QED BY <1>4, <1>5, <1>6

(* The steps of the child.                                                  *)
LEMMA ChildClosesKeepsIInv == ASSUME IInv, ChildCloses PROVE IInv'
<1> USE DEF IInv
<1>1. /\ pcC = "close" /\ pcC' = "read" /\ endsC' = {"r1", "w2"}
      /\ UNCHANGED <<size, pcP, endsP, blockP, pos, blockC, copy, printed, short, pipe1, pipe2>>
  BY DEF ChildCloses, parent, EndsHeld, End
<1>2. BlockRead' /\ Before' = Before
  BY <1>1, BlockKept
<1>3. EndsHeld' /\ AckMeansWritten' /\ MessageMeansCopied'
  BY <1>1 DEF EndsHeld, Ended, AckMeansWritten, MessageMeansCopied, Source
<1>4. CASE NothingSent
  <2>1. NothingSent'
    BY <1>1, <1>2, <1>4 DEF NothingSent, Copied
  <2> QED BY <1>2, <1>3, <2>1 DEF Round
<1>5. CASE Sent
  <2>1. Sent'
    BY <1>1, <1>2, <1>5 DEF Sent, Copied
  <2> QED BY <1>2, <1>3, <2>1 DEF Round
<1> QED BY <1>1, <1>4, <1>5 DEF Round, Received, Written, Acknowledged, ChildGone

LEMMA ChildReadKeepsIInv == ASSUME IInv, ChildRead PROVE IInv'
<1> USE DEF IInv
<1>1. /\ pcC = "read" /\ endsC = {"r1", "w2"}
      /\ UNCHANGED <<size, pcP, endsP, blockP, pos, copy, printed, short, pipe2>>
  BY DEF ChildRead, parent, EndsHeld, Ended
<1>2. BlockRead' /\ Before' = Before
  BY <1>1, BlockKept
<1>3. MessageMeansCopied'
  BY <1>1 DEF MessageMeansCopied, Source
<1>4. NothingSent \/ Sent \/ Acknowledged
  BY <1>1 DEF Round, Received, Written, ChildGone
<1> DEFINE n == IF Len(pipe1) < BUF_SIZE THEN Len(pipe1) ELSE BUF_SIZE
<1>5. CASE /\ pipe1 # <<>>
           /\ blockC' = SubSeq(pipe1, 1, n)
           /\ pipe1' = SubSeq(pipe1, n + 1, Len(pipe1))
           /\ pcC' = "write" /\ UNCHANGED endsC
  <2>1. Sent
    BY <1>4, <1>5 DEF NothingSent, Acknowledged
  <2>2. n = Len(pipe1) /\ pipe1 \in Seq(Nat)
    <3>1. pipe1 = blockP /\ blockP \in Seq(Nat) /\ Len(blockP) <= BUF_SIZE
      BY <2>1, BlockSeq DEF Sent, BlockRead
    <3>2. Len(blockP) \in Nat
      BY <3>1
    <3> QED BY <3>1, <3>2, CopyAssumption
  <2> HIDE DEF n
  <2>3. blockC' = pipe1 /\ pipe1' = <<>>
    BY <1>5, <2>2, WholeSeq
  <2>4. Received'
    BY <1>1, <1>2, <1>5, <2>1, <2>3 DEF Sent, Received, Copied
  <2>5. EndsHeld' /\ AckMeansWritten'
    BY <1>1, <1>5 DEF EndsHeld, Ended, AckMeansWritten
  <2> QED BY <1>2, <1>3, <2>4, <2>5 DEF Round
<1>6. CASE /\ pipe1 = <<>> /\ "w1" \notin Held
           /\ ChildEnds("done") /\ UNCHANGED <<blockC, pipe1>>
  <2>1. pcC' = "done" /\ endsC' = {}
    BY <1>6 DEF ChildEnds
  <2>2. pcP \in Ended
    BY <1>6 DEF Held, EndsHeld, End
  <2>3. NothingSent \/ Acknowledged
    <3>1. ~ Sent
      BY <1>6, BlockSeq DEF Sent
    <3> QED BY <1>4, <3>1
  <2>4. /\ pcP # "write" /\ pcP # "ack"
        /\ \E m \in 0..pos : Copied(m)
    <3>1. pos \in 0..pos /\ Before \in 0..pos
      BY DEF BlockRead
    <3> QED BY <2>2, <2>3, <3>1 DEF NothingSent, Acknowledged, Ended
  <2>5. ChildGone'
    BY <1>1, <2>1, <2>2, <2>4 DEF ChildGone, Copied
  <2>6. AckMeansWritten'
    BY <1>1, <2>1, <1>6 DEF AckMeansWritten
  <2>7. EndsHeld'
    BY <1>1, <2>1 DEF EndsHeld, Ended
  <2> QED BY <1>2, <1>3, <2>5, <2>6, <2>7 DEF Round
<1> QED BY <1>5, <1>6 DEF ChildRead

LEMMA ChildWriteKeepsIInv == ASSUME IInv, ChildWrite PROVE IInv'
<1> USE DEF IInv
<1>1. PICK n \in 0..Len(blockC) :
        /\ n = Len(blockC) \/ "write" \in Fault
        /\ copy' = copy \o SubSeq(blockC, 1, n)
        /\ short' = (short \/ n < Len(blockC))
  BY DEF ChildWrite
<1>2. /\ pcC = "write" /\ pcC' = "ack"
      /\ UNCHANGED <<size, pcP, endsP, blockP, pos, endsC, blockC, printed, pipe1, pipe2>>
  BY DEF ChildWrite, parent
<1>3. BlockRead' /\ Before' = Before
  BY <1>2, BlockKept
<1>4. EndsHeld'
  BY <1>2 DEF EndsHeld, Ended
<1>5. Received
  BY <1>2 DEF Round, NothingSent, Sent, Written, Acknowledged, ChildGone
<1>6. blockC = blockP /\ blockP \in Seq(Nat) /\ Len(blockP) \in Nat
  BY <1>5, BlockSeq DEF Received
<1>7. ~ short' => copy' = Bytes(0, pos)
  <2> SUFFICES ASSUME ~ short' PROVE copy' = Bytes(0, pos)
    OBVIOUS
  <2>1. ~ short /\ n = Len(blockC)
    <3>1. ~ (short \/ n < Len(blockC))
      BY <1>1, Zenon
    <3>2. n = Len(blockC) \/ n < Len(blockC)
      BY <1>6
    <3> QED BY <3>1, <3>2
  <2>2. copy' = copy \o blockP
    BY <1>1, <1>6, <2>1, WholeSeq
  <2>3. copy = Bytes(0, Before) /\ blockP = Bytes(Before, pos)
    BY <1>5, <2>1 DEF Received, Copied, BlockRead
  <2>4. Before \in Nat /\ pos \in Nat /\ Before <= pos
    BY DEF BlockRead
  <2>5. Bytes(0, Before) \o Bytes(Before, pos) = Bytes(0, pos)
    BY <2>4, BytesConcat
  <2> QED BY <2>2, <2>3, <2>5
<1>8. Written'
  <2>1. Before \in Nat /\ pos \in Nat /\ Before <= pos /\ blockC = Bytes(Before, pos)
    BY <1>6 DEF BlockRead
  <2>2. n \in 0..(pos - Before)
    BY <2>1, BytesFacts
  <2>3. InOrder(copy, Before)
    BY <1>5 DEF Received, Copied
  <2>4. InOrder(copy', pos)
    BY <1>1, <2>1, <2>2, <2>3, AppendInOrder
  <2> QED BY <1>2, <1>3, <1>5, <1>7, <2>4 DEF Received, Written, Copied
<1>9. AckMeansWritten'
  BY <1>2, <1>5 DEF AckMeansWritten, Received
<1>10. MessageMeansCopied'
  <2> SUFFICES ASSUME "copied" \in printed PROVE pos = size /\ short'
    BY <1>2 DEF MessageMeansCopied
  <2>1. pos = size /\ (short \/ copy = Source)
    BY DEF MessageMeansCopied
  <2>2. CASE ~ short /\ copy = Source
    <3>1. Len(copy) = Before
      BY <1>5, <2>2, BytesFacts DEF Received, Copied, BlockRead
    <3>2. Len(copy) = size
      BY <2>2 DEF Source, BlockRead
    <3> QED BY <1>5, <2>1, <3>1, <3>2 DEF Received, BlockRead
  <2> QED BY <1>1, <2>1, <2>2
<1> QED BY <1>3, <1>4, <1>8, <1>9, <1>10 DEF Round

LEMMA ChildAckKeepsIInv == ASSUME IInv, ChildAck PROVE IInv'
<1> USE DEF IInv
<1>1. /\ pcC = "ack"
      /\ UNCHANGED <<size, pcP, endsP, blockP, pos, blockC, copy, short, pipe1>>
  BY DEF ChildAck, parent
<1>2. BlockRead' /\ Before' = Before
  BY <1>1, BlockKept
<1>3. Written
  BY <1>1 DEF Round, NothingSent, Sent, Received, Acknowledged, ChildGone
<1>4. pcP \in {"ack", "killed"}
  BY <1>3 DEF Written
<1>5. AckMeansWritten'
  BY <1>1, <1>4 DEF AckMeansWritten
<1>6. CASE /\ pipe2' = pipe2 + 1 /\ pcC' = "read" /\ UNCHANGED endsC
           /\ printed' = IF LastBlock(Len(blockC)) THEN printed \cup {"copied"}
                         ELSE printed
  <2>1. Acknowledged'
    BY <1>1, <1>2, <1>3, <1>6 DEF Written, Acknowledged, Copied
  <2>2. EndsHeld'
    BY <1>1, <1>6 DEF EndsHeld, Ended
  <2>3. LastBlock(Len(blockC)) => pos = size /\ (short \/ copy = Source)
    <3>1. LastBlock(Len(blockC)) => pos = size
      BY <1>3 DEF LastBlock, Written, BlockRead
    <3>2. ~ short => copy = Bytes(0, pos)
      BY <1>3 DEF Written, Copied
    <3>3. Bytes(0, size) = Source
      BY DEF Bytes, Source, BlockRead
    <3> QED BY <3>1, <3>2, <3>3
  <2>4. MessageMeansCopied'
    BY <1>1, <1>6, <2>3 DEF MessageMeansCopied, Source
  <2> QED BY <1>2, <1>5, <2>1, <2>2, <2>4 DEF Round
<1>7. CASE ChildEnds("killed") /\ UNCHANGED <<pipe2, printed>>
  <2>1. pcC' = "killed" /\ endsC' = {}
    BY <1>7 DEF ChildEnds
  <2>2. EndsHeld' /\ MessageMeansCopied'
    BY <1>1, <1>7, <2>1 DEF EndsHeld, Ended, MessageMeansCopied, Source
  <2>3. ChildGone'
    <3>1. pos \in 0..pos /\ Copied(pos)
      BY <1>3 DEF Written, BlockRead
    <3> QED BY <1>1, <2>1, <3>1 DEF ChildGone, Copied
  <2> QED BY <1>2, <1>5, <2>2, <2>3 DEF Round
<1> QED BY <1>6, <1>7 DEF ChildAck

LEMMA KilledKeepsIInv == ASSUME IInv, Killed PROVE IInv'
<1> USE DEF IInv
<1>1. UNCHANGED <<size, pos, blockP, blockC, copy, printed, short, pipe1, pipe2>>
  BY DEF Killed
<1>2. MessageMeansCopied'
  BY <1>1 DEF MessageMeansCopied, Source
<1>3. \E n \in 0..pos : Copied(n)
  <2>1. pos \in 0..pos /\ Before \in 0..pos
    BY DEF BlockRead
  <2>2. NothingSent => Copied(pos) \/ Copied(Before)
    BY DEF NothingSent
  <2> QED BY <2>1, <2>2 DEF Round, Sent, Received, Written, Acknowledged, ChildGone
<1>4. CASE pcP \notin Ended /\ ParentEnds("killed") /\ UNCHANGED <<pcC, endsC>>
  <2>1. pcP' = "killed" /\ endsP' = {}
    BY <1>4 DEF ParentEnds
  <2>2. BlockRead' /\ Before' = Before
    BY <1>1, <2>1, BlockKept
  <2>3. EndsHeld' /\ AckMeansWritten'
    BY <1>1, <1>4, <2>1 DEF EndsHeld, Ended, AckMeansWritten
  <2>4. CASE NothingSent
    <3>1. NothingSent'
      BY <1>1, <1>4, <2>1, <2>2, <2>4 DEF NothingSent, Copied
    <3> QED BY <1>2, <2>2, <2>3, <3>1 DEF Round
  <2>5. CASE Sent \/ Received \/ Written \/ Acknowledged
    <3>1. Sent' \/ Received' \/ Written' \/ Acknowledged'
      BY <1>1, <1>4, <2>1, <2>2, <2>5 DEF Sent, Received, Written, Acknowledged, Copied
    <3> QED BY <1>2, <2>2, <2>3, <3>1 DEF Round
  <2>6. CASE ChildGone
    <3>1. ChildGone'
      BY <1>1, <1>4, <2>1, <2>6 DEF ChildGone, Copied, Ended
    <3> QED BY <1>2, <2>2, <2>3, <3>1 DEF Round
  <2> QED BY <2>4, <2>5, <2>6 DEF Round
<1>5. CASE pcC # "none" /\ ChildEnds("killed") /\ UNCHANGED <<pcP, endsP>>
  <2>1. pcC' = "killed" /\ endsC' = {}
    BY <1>5 DEF ChildEnds
  <2>2. BlockRead' /\ Before' = Before
    BY <1>1, <1>5, BlockKept
  <2>3. EndsHeld' /\ AckMeansWritten'
    BY <1>1, <1>5, <2>1 DEF EndsHeld, Ended, AckMeansWritten
  <2>4. ChildGone'
    BY <1>1, <1>3, <2>1 DEF ChildGone, Copied
  <2> QED BY <1>2, <2>2, <2>3, <2>4 DEF Round
<1> QED BY <1>4, <1>5 DEF Killed

LEMMA StepKeepsIInv == IInv /\ [Next]_vars => IInv'
<1> SUFFICES ASSUME IInv, [Next]_vars PROVE IInv'
  OBVIOUS
<1>1. CASE ParentStep
  BY <1>1, ForkKeepsIInv, ParentClosesKeepsIInv, ParentReadKeepsIInv,
     ParentWriteKeepsIInv, ParentAckKeepsIInv DEF ParentStep
<1>2. CASE ChildStep
  BY <1>2, ChildClosesKeepsIInv, ChildReadKeepsIInv, ChildWriteKeepsIInv,
     ChildAckKeepsIInv DEF ChildStep
<1>3. CASE Killed
  BY <1>3, KilledKeepsIInv
<1>4. CASE UNCHANGED vars
  BY <1>4 DEF vars, parent, child, IInv, BlockRead, Before, EndsHeld, Round, NothingSent,
              Sent, Received, Written, Acknowledged, ChildGone, Copied,
              AckMeansWritten, MessageMeansCopied, Source
<1> QED BY <1>1, <1>2, <1>3, <1>4 DEF Next

LEMMA Invariance == Spec => []IInv
BY InitIInv, StepKeepsIInv, PTL DEF Spec

----------------------------------------------------------------------------
(* Whatever is killed and whatever fails, the copy is the beginning of the  *)
(* source as long as no write to it has failed, and has its bytes in the    *)
(* order of the source afterwards.                                          *)
THEOREM CopyAlwaysPrefix == Spec => []CopyIsPrefix
<1>1. IInv => \A i, j \in 1..Len(copy) : i < j => copy[i] < copy[j]
  <2> SUFFICES ASSUME IInv PROVE \E n : InOrder(copy, n)
    BY DEF InOrder
  <2> QED BY DEF IInv, Round, NothingSent, Sent, Received, Written, Acknowledged,
                 ChildGone, Copied
<1>2. IInv => (~ short => IsPrefix(copy, Source))
  <2> SUFFICES ASSUME IInv, ~ short PROVE IsPrefix(copy, Source)
    OBVIOUS
  <2>1. size \in Nat /\ pos \in 0..size
    BY DEF IInv, BlockRead
  <2>2. PICK n \in 0..size : copy = Bytes(0, n)
    <3>1. pos \in 0..size /\ Before \in 0..size
      BY DEF IInv, BlockRead
    <3>2. NothingSent => Copied(pos) \/ Copied(Before)
      BY DEF NothingSent
    <3>3. ChildGone => \E m \in 0..size : Copied(m)
      BY <2>1 DEF ChildGone
    <3> QED BY <3>1, <3>2, <3>3
            DEF IInv, Round, Sent, Received, Written, Acknowledged, Copied
  <2>3. Source \in Seq(Nat) /\ Len(Source) = size /\ \A k \in 1..size : Source[k] = k
    BY <2>1 DEF Source
  <2>4. copy \in Seq(Nat) /\ Len(copy) = n /\ \A k \in 1..n : copy[k] = k
    <3>1. n \in Nat /\ 0 <= n
      BY <2>1
    <3>2. /\ Bytes(0, n) \in Seq(Nat) /\ Len(Bytes(0, n)) = n - 0
          /\ \A k \in 1..(n - 0) : Bytes(0, n)[k] = 0 + k
      BY <3>1, BytesFacts
    <3>3. n - 0 = n /\ \A k \in 1..n : 0 + k = k
      BY <3>1
    <3> QED BY <2>2, <3>2, <3>3
  <2>5. SubSeq(copy, 1, Len(copy)) = SubSeq(Source, 1, Len(copy))
    BY <2>1, <2>3, <2>4
  <2> QED BY <2>1, <2>3, <2>4, <2>5 DEF IsPrefix
<1>3. IInv => CopyIsPrefix
  BY <1>1, <1>2 DEF CopyIsPrefix
<1> QED BY <1>3, Invariance, PTL

(* The parent goes on only when its block has been written, or its child is *)
(* not there, or did not write it whole.                                    *)
THEOREM AcknowledgedIsWritten == Spec => []AckMeansWritten
<1>1. IInv => AckMeansWritten
  BY DEF IInv
<1> QED BY <1>1, Invariance, PTL

(* The message is printed when the source has been read to its end, and the *)
(* copy is whole, unless a write to it has failed: the child ignores that   *)
(* and prints the message all the same.                                     *)
THEOREM MessageIsTrue == Spec => []MessageMeansCopied
<1>1. IInv => MessageMeansCopied
  BY DEF IInv
<1> QED BY <1>1, Invariance, PTL
=============================================================================
