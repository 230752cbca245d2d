-------------------------- MODULE StudentDatabase --------------------------
(***************************************************************************)
(* Querying and updation: process X (X.c) loads the records of a file into *)
(* shared memory and writes them back when they have changed; processes Y  *)
(* (Y.c) look them up and change a grade.  The table ends in a record      *)
(* whose roll number is -1; an update marks the table by changing it to -2.*)
(*                                                                         *)
(* Record i of the file has roll number i + 1; names are left out.  X is   *)
(* started once, and finds the semaphore mute there if an earlier one left *)
(* it: clean.c removes the segment only.  A scan that passes the end of    *)
(* the table reads whatever follows: it ends somewhere or kills its Y.     *)
(***************************************************************************)
EXTENDS Integers, Sequences

CONSTANTS
  Grade,     (* the CGPAs                                                   *)
  Input,     (* those in the file at first, up to 100                       *)
  Querier    (* the processes Y                                             *)

ASSUME DatabaseAssumption == Input \in Seq(Grade) /\ Input # <<>>

Records == Len(Input)

None == "none"
X == "X"

ASSUME QuerierAssumption == None \notin Querier /\ X \notin Querier

VARIABLES
  file,       (* the grades in the file, as far as it has been written      *)
  newline,    (* whether its last line ended in a newline when X read it    *)
  segment,    (* whether the shared segment exists; it is zeroed at first   *)
  roll, CG,   (* the shared records, the one after the last included        *)
  made, mute, (* whether the semaphore exists, and its value                *)
  holder,     (* history: who was the last to pass P(mute), until its V     *)
  intruders,  (* history: the Ys that went to an update without the mutex   *)
  pcX, i, len,
  pcY, at,    (* a Y's place, and its scan's index                          *)
  goal, want, (* which of its loops scans, and the roll number looked for   *)
  length,     (* its length; Wild if its scan ran past the table            *)
  locks       (* whether its semget found the semaphore                     *)

queriers == <<pcY, at, goal, want, length, locks>>
mutex == <<mute, holder, intruders>>
vars == <<file, newline, segment, roll, CG, made, mutex, pcX, i, len, queriers>>

Index == 0..Records
Student == 1..Records
Wild == -1

Init ==
  /\ file = Input
  /\ newline \in BOOLEAN
  /\ segment = FALSE
  /\ roll = [k \in Index |-> 0]
  /\ CG = [k \in Index |-> CHOOSE g \in Grade : TRUE]
  /\ made \in BOOLEAN /\ mute \in {0, 1}
  /\ made \/ mute = 0
  /\ holder = None /\ intruders = {}
  /\ pcX = "shmget" /\ i = 0 /\ len = 0
  /\ pcY = [y \in Querier |-> "shmget"]
  /\ at = [y \in Querier |-> 0]
  /\ goal = [y \in Querier |-> "count"]
  /\ want = [y \in Querier |-> 0]
  /\ length = [y \in Querier |-> 0]
  /\ locks = [y \in Querier |-> FALSE]

----------------------------------------------------------------------------
(* P and V of a process whose semget found the semaphore, or did not: then  *)
(* semop fails, and nobody looks at its result.                             *)

P(p, found) ==
  \/ /\ found /\ mute > 0
     /\ mute' = mute - 1
     /\ holder' = p
     /\ UNCHANGED intruders
  \/ /\ ~found
     /\ intruders' = intruders \cup {p}
     /\ UNCHANGED <<mute, holder>>

V(found) ==
  /\ mute' = IF found THEN mute + 1 ELSE mute
  /\ holder' = IF found THEN None ELSE holder
  /\ UNCHANGED intruders

----------------------------------------------------------------------------
(* Process X.  The definitions named Wrong... are mistakes that the runs    *)
(* must notice: PROJECT.json puts each in the place of the definition that  *)
(* follows it.                                                              *)

GoX(here, there) == pcX = here /\ pcX' = there

CreateSegment ==
  /\ GoX("shmget", "semget")
  /\ segment' = TRUE
  /\ UNCHANGED <<file, newline, roll, CG, made, mutex, i, len, queriers>>

CreateMute ==
  /\ GoX("semget", "setval")
  /\ made' = TRUE
  /\ UNCHANGED <<file, newline, segment, roll, CG, mutex, i, len,
                 queriers>>

(* SETVAL, whatever value an earlier run has left, and whoever it let in.   *)
SetMute ==
  /\ GoX("setval", "open")
  /\ mute' = 1
  /\ holder' = None
  /\ intruders' =
       intruders \cup {y \in Querier : holder = y /\ pcY[y] # "ended"}
  /\ UNCHANGED <<file, newline, segment, roll, CG, made, i, len, queriers>>

(* A failed fopen ends X; the segment stays, without a table.               *)
Open ==
  /\ GoX("open", "load") \/ GoX("open", "ended")
  /\ UNCHANGED <<file, newline, segment, roll, CG, made, mutex, i, len,
                 queriers>>

(* The table closed after every record, not after the last.                 *)
WrongLoad ==
  /\ GoX("load", "load")
  /\ i < Records
  /\ roll' = [roll EXCEPT ![i] = i + 1, ![i + 1] = -1]
  /\ CG' = [CG EXCEPT ![i] = file[i + 1]]
  /\ i' = i + 1
  /\ UNCHANGED <<file, newline, segment, made, mutex, len, queriers>>

Load ==
  /\ GoX("load", "load")
  /\ i < Records
  /\ roll' = [roll EXCEPT ![i] = i + 1]
  /\ CG' = [CG EXCEPT ![i] = file[i + 1]]
  /\ i' = i + 1
  /\ UNCHANGED <<file, newline, segment, made, mutex, len, queriers>>

(* feof is true one fscanf after the last record, or, if no newline follows *)
(* that record, at once: len = i - 1 is then one short.                     *)
Length == IF newline THEN Records ELSE Records - 1

CloseTable ==
  /\ GoX("load", "sleep")
  /\ i = Records
  /\ len' = Length
  /\ roll' = [roll EXCEPT ![Length] = -1]
  /\ UNCHANGED <<file, newline, segment, CG, made, mutex, i, queriers>>

(* The mark is read without the mutex, and never taken back.                *)
FindMark ==
  /\ GoX("sleep", "P")
  /\ roll[len] = -2
  /\ UNCHANGED <<file, newline, segment, roll, CG, made, mutex, i, len,
                 queriers>>

(* Writing back without the mutex.                                          *)
WrongLockFile ==
  /\ GoX("P", "truncate")
  /\ UNCHANGED <<file, newline, segment, roll, CG, made, mutex, i, len,
                 queriers>>

LockFile ==
  /\ GoX("P", "truncate")
  /\ P(X, TRUE)
  /\ UNCHANGED <<file, newline, segment, roll, CG, made, i, len, queriers>>

Truncate ==
  /\ GoX("truncate", "write")
  /\ file' = <<>>
  /\ i' = 0
  /\ UNCHANGED <<newline, segment, roll, CG, made, mutex, len, queriers>>

Write ==
  /\ GoX("write", "write")
  /\ i < len
  /\ file' = Append(file, CG[i])
  /\ i' = i + 1
  /\ UNCHANGED <<newline, segment, roll, CG, made, mutex, len, queriers>>

UnlockFile ==
  /\ GoX("write", "sleep")
  /\ i = len
  /\ V(TRUE)
  /\ UNCHANGED <<file, newline, segment, roll, CG, made, i, len, queriers>>

(* ^C: X and Y handle no signal, and semop is not told to undo.             *)
XKilled ==
  /\ pcX # "ended" /\ pcX' = "ended"
  /\ UNCHANGED <<file, newline, segment, roll, CG, made, mutex, i, len,
                 queriers>>

----------------------------------------------------------------------------
(* A process Y.                                                             *)

GoY(y, here, there) == pcY[y] = here /\ pcY' = [pcY EXCEPT ![y] = there]

files == <<file, newline, segment, made, pcX, i, len>>

(* The loop around shmget.                                                  *)
FindSegment(y) ==
  /\ GoY(y, "shmget", "semget")
  /\ segment
  /\ UNCHANGED <<files, roll, CG, mutex, at, goal, want, length, locks>>

(* shmat and semget, whose result is not checked.                           *)
FindMute(y) ==
  /\ GoY(y, "semget", "scan")
  /\ locks' = [locks EXCEPT ![y] = made]
  /\ UNCHANGED <<files, roll, CG, mutex, at, goal, want, length>>

(* A search reads the same records whatever it looks for.                   *)
Search(y) ==
  /\ GoY(y, "menu", "scan")
  /\ goal' = [goal EXCEPT ![y] = "search"]
  /\ UNCHANGED <<files, roll, CG, mutex, at, want, length, locks>>

LockTable(y) ==
  /\ GoY(y, "menu", "ask")
  /\ P(y, locks[y])
  /\ UNCHANGED <<files, roll, CG, at, goal, want, length, locks>>

Ask(y, r) ==
  /\ GoY(y, "ask", "scan")
  /\ goal' = [goal EXCEPT ![y] = "update"]
  /\ want' = [want EXCEPT ![y] = r]
  /\ UNCHANGED <<files, roll, CG, mutex, at, length, locks>>

AfterScan == [count |-> "menu", search |-> "menu", update |-> "V"]

ToUpdate(y) == goal[y] = "update" /\ roll[at[y]] = want[y]

(* One turn of a loop that ends at -1; a search prints what it finds.  The  *)
(* next loop starts at 0; outside the loops goal says nothing.              *)
Scan(y) ==
  /\ at[y] \in Index
  /\ \/ /\ roll[at[y]] = -1
        /\ GoY(y, "scan", AfterScan[goal[y]])
        /\ length' = IF goal[y] = "count" THEN [length EXCEPT ![y] = at[y]]
                     ELSE length
        /\ at' = [at EXCEPT ![y] = 0]
        /\ goal' = [goal EXCEPT ![y] = "count"]
     \/ /\ roll[at[y]] # -1 /\ ~ToUpdate(y)
        /\ GoY(y, "scan", "scan")
        /\ at' = [at EXCEPT ![y] = @ + 1]
        /\ UNCHANGED <<length, goal>>
     \/ /\ ToUpdate(y)
        /\ GoY(y, "scan", "grade")
        /\ UNCHANGED <<at, length, goal>>
  /\ UNCHANGED <<files, roll, CG, mutex, want, locks>>

(* The same loop past the table: some word there may hold -1, or the        *)
(* segment ends first.                                                      *)
RunOn(y) ==
  /\ at[y] \notin Index
  /\ \/ /\ GoY(y, "scan", AfterScan[goal[y]])
        /\ length' = IF goal[y] = "count" THEN [length EXCEPT ![y] = Wild]
                     ELSE length
     \/ /\ GoY(y, "scan", "ended")
        /\ UNCHANGED length
  /\ at' = [at EXCEPT ![y] = 0]
  /\ goal' = [goal EXCEPT ![y] = "count"]
  /\ UNCHANGED <<files, roll, CG, mutex, want, locks>>

(* The grade without the mark.                                              *)
WrongUpdate(y, g) ==
  /\ GoY(y, "grade", "scan")
  /\ CG' = [CG EXCEPT ![at[y]] = g]
  /\ at' = [at EXCEPT ![y] = @ + 1]
  /\ UNCHANGED <<files, roll, mutex, goal, want, length, locks>>

(* The grade and the mark, at a wild length outside the table; the scan     *)
(* goes on.                                                                 *)
Update(y, g) ==
  /\ GoY(y, "grade", "scan")
  /\ CG' = [CG EXCEPT ![at[y]] = g]
  /\ roll' = IF length[y] = Wild THEN roll
             ELSE [roll EXCEPT ![length[y]] = -2]
  /\ at' = [at EXCEPT ![y] = @ + 1]
  /\ UNCHANGED <<files, mutex, goal, want, length, locks>>

UnlockTable(y) ==
  /\ GoY(y, "V", "menu")
  /\ V(locks[y])
  /\ want' = [want EXCEPT ![y] = 0]
  /\ UNCHANGED <<files, roll, CG, at, goal, length, locks>>

(* The user's choice to exit, or ^C.                                        *)
YEnds(y) ==
  /\ pcY[y] # "ended" /\ pcY' = [pcY EXCEPT ![y] = "ended"]
  /\ at' = [at EXCEPT ![y] = 0] /\ want' = [want EXCEPT ![y] = 0]
  /\ goal' = [goal EXCEPT ![y] = "count"]
  /\ UNCHANGED <<files, roll, CG, mutex, length, locks>>

----------------------------------------------------------------------------
XStep ==
  \/ CreateSegment \/ CreateMute \/ SetMute \/ Open \/ Load \/ CloseTable
  \/ FindMark \/ LockFile \/ Truncate \/ Write \/ UnlockFile

YStep(y) ==
  \/ FindSegment(y) \/ FindMute(y) \/ Search(y) \/ LockTable(y)
  \/ Scan(y) \/ RunOn(y) \/ UnlockTable(y)
  \/ \E r \in 1..(Records + 1) : Ask(y, r)
  \/ \E g \in Grade : Update(y, g)

Next == XStep \/ XKilled \/ \E y \in Querier : YStep(y) \/ YEnds(y)

Spec == Init /\ [][Next]_vars

(* X's loop goes on as long as X lives.  Nothing is assumed of a Y, which   *)
(* waits for its user, nor of the order in which P lets processes through.  *)
FairSpec == Spec /\ WF_vars(XStep)

----------------------------------------------------------------------------
TypeOK ==
  /\ file \in Seq(Grade) /\ newline \in BOOLEAN /\ segment \in BOOLEAN
  /\ roll \in [Index -> Student \cup {0, -1, -2}]
  /\ CG \in [Index -> Grade]
  /\ made \in BOOLEAN /\ mute \in Nat
  /\ holder \in Querier \cup {None, X}
  /\ intruders \in SUBSET Querier
  /\ pcX \in {"shmget", "semget", "setval", "open", "load", "sleep", "P",
              "truncate", "write", "ended"}
  /\ i \in Index /\ len \in Index
  /\ pcY \in [Querier -> {"shmget", "semget", "scan", "menu", "ask", "grade",
                         "V", "ended"}]
  /\ at \in [Querier -> 0..(Records + 1)]
  /\ goal \in [Querier -> {"count", "search", "update"}]
  /\ want \in [Querier -> 0..(Records + 1)]
  /\ length \in [Querier -> Index \cup {Wild}]
  /\ locks \in [Querier -> BOOLEAN]

(* The records that X keeps, as the shared memory has them.                 *)
Kept == [k \in 1..len |-> CG[k - 1]]

UpToDate == Len(file) >= len /\ Kept = SubSeq(file, 1, len)

Looping == {"sleep", "P", "truncate", "write"}

(* A length found while X was still loading, or while others were updating, *)
(* is the right one or wild, never a number of records that looks right.    *)
LengthRightOrWild ==
  \A y \in Querier :
    pcY[y] \in {"menu", "ask", "grade", "V"} =>
      length[y] = Wild \/ (length[y] = Length /\ pcX \in Looping \cup {"ended"})

(* X writes a snapshot: no grade changes between the first record it writes *)
(* back and the last, whoever updates and dies meanwhile.  This fails, and  *)
(* is not claimed, once a Y has gone to an update without the mutex: its    *)
(* semget had failed, or it held the mutex when X set its value.            *)
WritesSnapshot ==
  [][(UnlockFile /\ intruders = {}) => file = Kept]_vars

(* A Y whose length is wild updates, and nobody has marked the table: its   *)
(* own mark is elsewhere, and X does not see it.                            *)
Unmarked == roll[len] # -2 /\ \E y \in Querier : length[y] = Wild

(* As long as no Y keeps the mutex for ever, or takes it again and again,   *)
(* whatever was updated reaches the file, although X reads the mark outside *)
(* the mutex, unless X is killed, the only updates were marked outside the  *)
(* table, or a Y updates without the mutex.                                 *)
UpdatesReachFile ==
  <>[](holder \notin Querier) =>
    ((pcX \in Looping) ~>
       (UpToDate \/ pcX = "ended" \/ Unmarked \/ intruders # {}))
=============================================================================
