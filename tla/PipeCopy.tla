------------------------------ MODULE PipeCopy ------------------------------
(***************************************************************************)
(* Copy_using _pipes/fcopy.c: the parent reads the source block by block   *)
(* and sends the blocks through one pipe, the child appends them to the    *)
(* copy and acknowledges them through another.  A byte is its position in  *)
(* the source.  The ends of the pipes are "r1", "w1", "r2" and "w2"; a     *)
(* read ends when nobody holds the write end, a write kills the writer     *)
(* when nobody holds the read end, and a process that ends closes all.     *)
(* The zero stored behind what a read returned is left out: nothing reads  *)
(* it.  Behind a full block it lies one byte past the buffer, where the    *)
(* compiler's layout decides what it overwrites.                           *)
(***************************************************************************)
EXTENDS Integers, Sequences, FiniteSets, SequencesExt

CONSTANTS
  BUF_SIZE,    (* bytes read at once: 100                                   *)
  MaxSize,     (* bound of the model: length of the source                  *)
  Fault        (* what may go wrong: "fork", "read" (of the source),        *)
               (* "write" (of the copy), "kill"                             *)

ASSUME CopyAssumption ==
  /\ BUF_SIZE \in Nat \ {0} /\ MaxSize \in Nat
  /\ Fault \subseteq {"fork", "read", "write", "kill"}

End == {"r1", "w1", "r2", "w2"}

VARIABLES
  size, pos,        (* the source: its length, and what has been read       *)
  copy,             (* the bytes in the destination                         *)
  pipe1, pipe2,     (* what is in the pipes: bytes, and acknowledgements    *)
  pcP, pcC,         (* where the parent and the child stand                 *)
  endsP, endsC,     (* the ends of the pipes that each holds                *)
  blockP, blockC,   (* their buffers, as far as the last read filled them   *)
  printed,          (* the messages the child has printed                   *)
  short             (* history: a write to the copy has failed, in part     *)
                    (* or whole                                             *)

parent == <<pcP, endsP, blockP, pos>>
child == <<pcC, endsC, blockC, copy, printed, short>>
vars == <<size, parent, child, pipe1, pipe2>>

Init ==
  /\ size \in 0..MaxSize /\ pos = 0
  /\ copy = <<>>
  /\ pipe1 = <<>> /\ pipe2 = 0
  /\ pcP = "fork" /\ pcC = "none"
  /\ endsP = End /\ endsC = {}
  /\ blockP = <<>> /\ blockC = <<>>
  /\ printed = {} /\ short = FALSE

Held == endsP \cup endsC

ParentEnds(how) == pcP' = how /\ endsP' = {}
ChildEnds(how) == pcC' = how /\ endsC' = {}

----------------------------------------------------------------------------
(* The definitions named Wrong... are mistakes that the runs must notice:   *)
(* PROJECT.json puts each in the place of the definition that follows it.   *)

(* A failed fork is not noticed: the parent goes on without a child.        *)
Fork ==
  /\ pcP = "fork" /\ pcP' = "close"
  /\ \/ pcC' = "close" /\ endsC' = endsP
     \/ "fork" \in Fault /\ UNCHANGED <<pcC, endsC>>
  /\ UNCHANGED <<size, pos, endsP, blockP, blockC, copy, printed, short,
                 pipe1, pipe2>>

(* The parent without its two closes.                                       *)
WrongParentCloses ==
  /\ pcP = "close" /\ pcP' = "read"
  /\ UNCHANGED <<size, pos, endsP, blockP, child, pipe1, pipe2>>

ParentCloses ==
  /\ pcP = "close" /\ pcP' = "read"
  /\ endsP' = endsP \ {"r1", "w2"}
  /\ UNCHANGED <<size, pos, blockP, child, pipe1, pipe2>>

(* read() of the source, 0 at its end and -1 on an error: both leave the    *)
(* loop, and with it the program.  The source is a regular file, of which   *)
(* only the last block may be short.                                        *)
ParentRead ==
  /\ pcP = "read"
  /\ LET n == IF size - pos < BUF_SIZE THEN size - pos ELSE BUF_SIZE
     IN  \/ /\ n > 0
            /\ blockP' = [k \in 1..n |-> pos + k]
            /\ pos' = pos + n
            /\ pcP' = "write"
            /\ UNCHANGED endsP
         \/ /\ n = 0 \/ "read" \in Fault
            /\ ParentEnds(IF n = 0 THEN "done" ELSE "failed")
            /\ UNCHANGED <<blockP, pos>>
  /\ UNCHANGED <<size, child, pipe1, pipe2>>

(* SIGPIPE if the child is gone.                                            *)
ParentWrite ==
  /\ pcP = "write"
  /\ \/ /\ "r1" \in Held
        /\ pipe1' = pipe1 \o blockP
        /\ pcP' = "ack"
        /\ UNCHANGED endsP
     \/ /\ "r1" \notin Held
        /\ ParentEnds("killed")
        /\ UNCHANGED pipe1
  /\ UNCHANGED <<size, pos, blockP, child, pipe2>>

(* The parent does not wait for the acknowledgement.                        *)
WrongParentAck ==
  /\ pcP = "ack" /\ pcP' = "read"
  /\ pipe2' = IF pipe2 > 0 THEN pipe2 - 1 ELSE 0
  /\ UNCHANGED <<size, pos, endsP, blockP, child, pipe1>>

(* What is read makes no difference: buffer2 == "-1" compares addresses.    *)
ParentAck ==
  /\ pcP = "ack" /\ pcP' = "read"
  /\ \/ pipe2 > 0 /\ pipe2' = pipe2 - 1
     \/ pipe2 = 0 /\ "w2" \notin Held /\ UNCHANGED pipe2
  /\ UNCHANGED <<size, pos, endsP, blockP, child, pipe1>>

----------------------------------------------------------------------------
(* The child without the close of the write end it inherited.               *)
WrongChildCloses ==
  /\ pcC = "close" /\ pcC' = "read"
  /\ endsC' = endsC \ {"r2"}
  /\ UNCHANGED <<size, parent, blockC, copy, printed, short,
                 pipe1, pipe2>>

ChildCloses ==
  /\ pcC = "close" /\ pcC' = "read"
  /\ endsC' = endsC \ {"w1", "r2"}
  /\ UNCHANGED <<size, parent, blockC, copy, printed, short,
                 pipe1, pipe2>>

(* At the end of the pipe the child leaves its loop and the program.        *)
ChildRead ==
  /\ pcC = "read"
  /\ \/ /\ pipe1 # <<>>
        /\ LET n == IF Len(pipe1) < BUF_SIZE THEN Len(pipe1) ELSE BUF_SIZE
           IN  /\ blockC' = SubSeq(pipe1, 1, n)
               /\ pipe1' = SubSeq(pipe1, n + 1, Len(pipe1))
        /\ pcC' = "write"
        /\ UNCHANGED endsC
     \/ /\ pipe1 = <<>> /\ "w1" \notin Held
        /\ ChildEnds("done")
        /\ UNCHANGED <<blockC, pipe1>>
  /\ UNCHANGED <<size, parent, copy, printed, short, pipe2>>

(* The whole buffer is written, the bytes of an earlier block included.     *)
WrongChildWrite ==
  /\ pcC = "write" /\ pcC' = "ack"
  /\ copy' = copy \o blockC \o [k \in 1..(BUF_SIZE - Len(blockC)) |-> 1]
  /\ UNCHANGED <<size, parent, endsC, blockC, printed, short, pipe1, pipe2>>

(* write() to the copy, whole or, on an error, in part; the result is       *)
(* ignored.                                                                 *)
ChildWrite ==
  /\ pcC = "write" /\ pcC' = "ack"
  /\ \E n \in 0..Len(blockC) :
       /\ n = Len(blockC) \/ "write" \in Fault
       /\ copy' = copy \o SubSeq(blockC, 1, n)
       /\ short' = (short \/ n < Len(blockC))
  /\ UNCHANGED <<size, parent, endsC, blockC, printed, pipe1, pipe2>>

(* The message after every block.                                           *)
WrongLastBlock(n) == n <= BUF_SIZE

LastBlock(n) == n < BUF_SIZE

(* The acknowledgement, which kills the child if the parent is gone, and    *)
(* the message after a block that was not full.                             *)
ChildAck ==
  /\ pcC = "ack"
  /\ \/ /\ "r2" \in Held
        /\ pipe2' = pipe2 + 1
        /\ printed' = IF LastBlock(Len(blockC)) THEN printed \cup {"copied"}
                      ELSE printed
        /\ pcC' = "read"
        /\ UNCHANGED endsC
     \/ /\ "r2" \notin Held
        /\ ChildEnds("killed")
        /\ UNCHANGED <<pipe2, printed>>
  /\ UNCHANGED <<size, parent, blockC, copy, short, pipe1>>

----------------------------------------------------------------------------
Ended == {"done", "failed", "killed"}

Killed ==
  /\ "kill" \in Fault
  /\ \/ pcP \notin Ended /\ ParentEnds("killed") /\ UNCHANGED <<pcC, endsC>>
     \/ /\ pcC \notin Ended \cup {"none"}
        /\ ChildEnds("killed") /\ UNCHANGED <<pcP, endsP>>
  /\ UNCHANGED <<size, pos, blockP, blockC, copy, printed, short,
                 pipe1, pipe2>>

ParentStep ==
  Fork \/ ParentCloses \/ ParentRead \/ ParentWrite \/ ParentAck

ChildStep == ChildCloses \/ ChildRead \/ ChildWrite \/ ChildAck

Next == ParentStep \/ ChildStep \/ Killed

(* Both processes advance whenever they are not blocked.                    *)
Spec == Init /\ [][Next]_vars /\ WF_vars(ParentStep) /\ WF_vars(ChildStep)

----------------------------------------------------------------------------
TypeOK ==
  /\ size \in 0..MaxSize /\ pos \in 0..size
  /\ copy \in Seq(1..size)
  /\ pipe1 \in Seq(1..size) /\ Len(pipe1) <= BUF_SIZE
  /\ pipe2 \in 0..1
  /\ pcP \in {"fork", "close", "read", "write", "ack"} \cup Ended
  /\ pcC \in {"none", "close", "read", "write", "ack"} \cup Ended
  /\ endsP \subseteq End /\ endsC \subseteq End
  /\ Len(blockP) <= BUF_SIZE /\ Len(blockC) <= BUF_SIZE
  /\ printed \subseteq {"copied"} /\ short \in BOOLEAN

Source == [k \in 1..size |-> k]

(* Whoever is killed when, and whatever read fails, the copy is the         *)
(* beginning of the source.  After a write that failed, in part or whole,   *)
(* bytes are missing, but none is doubled or out of order.                  *)
CopyIsPrefix ==
  /\ ~ short => IsPrefix(copy, Source)
  /\ \A i, j \in 1..Len(copy) : i < j => copy[i] < copy[j]

(* When the parent goes on to the next block, or ends because there is      *)
(* none, the copy has all it has read, unless the child was killed, never   *)
(* started, or acknowledged a write that failed.                            *)
AckMeansWritten ==
  (pcP \in {"read", "done", "failed"} /\ pcC \notin {"none", "killed"}) =>
    short \/ Len(copy) = pos

(* When the message is printed, the source has been read to its end, and    *)
(* the copy is whole unless a write to it has failed, in part or whole: the *)
(* child ignores that and prints the message all the same.                  *)
MessageMeansCopied ==
  "copied" \in printed => pos = size /\ (short \/ copy = Source)

(* Neither process waits for ever for a peer that has ended, whichever is   *)
(* killed wherever.                                                         *)
BothEnd == <>(pcP \in Ended /\ pcC \in Ended \cup {"none"})
=============================================================================
