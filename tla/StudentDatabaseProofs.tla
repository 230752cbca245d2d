----------------------- MODULE StudentDatabaseProofs -----------------------
(* Proofs about the student database for every file, every set of grades    *)
(* and any number of processes Y, killed anywhere.                          *)
EXTENDS StudentDatabase, TLAPS

Start == {"shmget", "semget", "setval", "open", "load"}

LocationX == Start \cup Looping \cup {"ended"}

LocationY ==
  {"shmget", "semget", "scan", "menu", "ask", "grade", "V", "ended"}

Goal == {"count", "search", "update"}

Closed == roll[Length] < 0

(* Only the place after the last record ever holds a mark.                  *)
Table ==
  /\ \A k \in Index \ {Length} : roll[k] >= 0
  /\ pcX \in Start => ~Closed /\ Len(file) = Records
  /\ pcX \in Looping => Closed /\ len = Length

(* Where a Y has counted its records, and where it has not.                 *)
Counting(y) ==
  pcY[y] \in {"shmget", "semget"} \/ (pcY[y] = "scan" /\ goal[y] = "count")

Past(y) ==
  pcY[y] \in {"menu", "ask", "grade", "V"} \/ (pcY[y] = "scan" /\ goal[y] # "count")

Scans ==
  \A y \in Querier :
    /\ pcY[y] \in {"shmget", "semget"} => goal[y] = "count"
    /\ pcY[y] = "grade" => at[y] \in Index /\ goal[y] = "update"
    /\ Counting(y) => length[y] # Wild
    /\ Past(y) => length[y] = Wild \/ (length[y] = Length /\ Closed)

(* Where a Y holds the mutex.                                               *)
Busy(y) ==
  pcY[y] \in {"ask", "grade", "V"} \/ (pcY[y] = "scan" /\ goal[y] = "update")

(* No Y has gone to an update without the mutex.                            *)
Sound == intruders = {}

(* Before X sets its value the mutex may be free and 0, never more than 1.  *)
Mutex ==
  Sound =>
    /\ mute <= IF holder = None THEN 1 ELSE 0
    /\ \A y \in Querier : Busy(y) => holder = y /\ locks[y]
    /\ pcX \in {"truncate", "write"} => holder = X

(* What X has written so far is what the shared memory has.                 *)
Writing ==
  (Sound /\ pcX = "write") =>
    i <= len /\ Len(file) = i /\ \A k \in 1..i : file[k] = CG[k - 1]

IInv == TypeOK /\ Table /\ Scans /\ Mutex /\ Writing

(* The last place of the table is a place of it.                            *)
LEMMA LengthInIndex ==
  /\ Records \in Nat \ {0} /\ Length \in Index /\ Wild \notin Index
  /\ 0 \in Index /\ Records \in Index
<1>1. Records \in Nat \ {0}
  BY DatabaseAssumption DEF Records
<1> QED BY <1>1 DEF Length, Index, Wild

LEMMA InitIInv == Init => IInv
<1> SUFFICES ASSUME Init PROVE IInv
  OBVIOUS
<1>1. TypeOK
  <2>1. (CHOOSE g \in Grade : TRUE) \in Grade
    BY DatabaseAssumption
  <2>2. roll \in [Index -> Student \cup {0, -1, -2}] /\ CG \in [Index -> Grade]
    BY <2>1 DEF Init
  <2>3. /\ at \in [Querier -> 0..(Records + 1)] /\ want \in [Querier -> 0..(Records + 1)]
        /\ length \in [Querier -> Index \cup {Wild}] /\ i \in Index /\ len \in Index
    BY LengthInIndex DEF Init
  <2>4. /\ file \in Seq(Grade) /\ mute \in Nat
    BY DatabaseAssumption DEF Init
  <2>5. /\ goal \in [Querier -> {"count", "search", "update"}]
        /\ locks \in [Querier -> BOOLEAN]
        /\ pcY \in [Querier -> {"shmget", "semget", "scan", "menu", "ask", "grade",
                                "V", "ended"}]
    BY DEF Init
  <2>6. /\ newline \in BOOLEAN /\ segment \in BOOLEAN /\ made \in BOOLEAN
        /\ holder \in Querier \cup {None, X} /\ intruders \in SUBSET Querier
        /\ pcX \in {"shmget", "semget", "setval", "open", "load", "sleep", "P",
                    "truncate", "write", "ended"}
    BY DEF Init
  <2> QED BY <2>2, <2>3, <2>4, <2>5, <2>6 DEF TypeOK
<1>2. Table
  BY LengthInIndex DEF Init, Table, Closed, Start, Looping, Records
<1>3. Scans
  BY LengthInIndex DEF Init, Scans, Counting, Past
<1>4. Mutex /\ Writing
  BY DEF Init, Mutex, Writing, Busy
<1> QED BY <1>1, <1>2, <1>3, <1>4 DEF IInv

----------------------------------------------------------------------------
(* Steps of X.                                                              *)

LEMMA Typed ==
  ASSUME IInv
  PROVE  /\ file \in Seq(Grade) /\ newline \in BOOLEAN /\ segment \in BOOLEAN
         /\ roll \in [Index -> Student \cup {0, -1, -2}] /\ CG \in [Index -> Grade]
         /\ made \in BOOLEAN /\ mute \in Nat /\ holder \in Querier \cup {None, X}
         /\ intruders \in SUBSET Querier
         /\ pcX \in LocationX /\ i \in Index /\ len \in Index
         /\ pcY \in [Querier -> LocationY] /\ at \in [Querier -> 0..(Records + 1)]
         /\ goal \in [Querier -> Goal] /\ want \in [Querier -> 0..(Records + 1)]
         /\ length \in [Querier -> Index \cup {Wild}] /\ locks \in [Querier -> BOOLEAN]
         /\ \A k \in Index : roll[k] \in Int
<1>1. \A k \in Index : roll[k] \in Int
  <2> TAKE k \in Index
  <2>1. roll[k] \in Student \cup {0, -1, -2}
    BY DEF IInv, TypeOK
  <2> QED BY <2>1 DEF Student
<1>2. /\ pcX \in LocationX /\ pcY \in [Querier -> LocationY]
      /\ goal \in [Querier -> Goal]
  BY DEF IInv, TypeOK, LocationX, Start, Looping, LocationY, Goal
<1> QED BY <1>1, <1>2 DEF IInv, TypeOK

(* A step that leaves the Ys, the table and the grades alone.               *)
LEMMA QuietX ==
  ASSUME IInv, UNCHANGED <<newline, roll, CG, made, queriers>>,
         segment' \in BOOLEAN, file' \in Seq(Grade), mute' \in Nat,
         holder' \in {None, X, holder}, intruders' \in SUBSET Querier,
         intruders \subseteq intruders',
         pcX' \in LocationX, i' \in Index, len' = len,
         pcX' \in Start => pcX \in Start /\ file' = file, pcX' \in Looping => pcX \in Looping,
         Sound' => mute' <= IF holder' = None THEN 1 ELSE 0,
         Sound' => \A y \in Querier : Busy(y) => holder' = y,
         Sound' /\ pcX' \in {"truncate", "write"} => holder' = X,
         Sound' /\ pcX' = "write" =>
           i' <= len /\ Len(file') = i' /\ \A k \in 1..i' : file'[k] = CG[k - 1]
  PROVE  IInv'
<1>1. Length' = Length /\ Closed' = Closed
  BY DEF Length, Closed
<1>2. /\ UNCHANGED <<pcY, at, goal, want, length, locks>>
  BY DEF queriers
<1>3. (Sound' => Sound) /\ \A y \in Querier : Busy(y)' = Busy(y)
  BY <1>2 DEF Sound, Busy
<1>4. TypeOK'
  BY <1>2, Typed DEF TypeOK, LocationX, Start, Looping, LocationY, Goal
<1>5. Table'
  BY <1>1 DEF IInv, Table
<1>6. Scans'
  BY <1>1, <1>2 DEF IInv, Scans, Counting, Past
<1>7. Mutex'
  BY <1>2, <1>3 DEF IInv, Mutex
<1>8. Writing'
  BY <1>3 DEF IInv, Writing
<1> QED BY <1>4, <1>5, <1>6, <1>7, <1>8 DEF IInv

LEMMA StartsKeepIInv ==
  ASSUME IInv, CreateSegment \/ SetMute \/ Open PROVE IInv'
<1> USE DEF LocationX, Start, Looping, mutex
<1>1. Sound => /\ mute <= IF holder = None THEN 1 ELSE 0
               /\ \A y \in Querier : Busy(y) => holder = y
  BY DEF IInv, Mutex
<1>2. CASE CreateSegment
  <2>1. /\ UNCHANGED <<newline, roll, CG, made, queriers, file, mute, holder, intruders, i, len>>
        /\ pcX' = "semget" /\ segment' = TRUE /\ pcX = "shmget"
    BY <1>2 DEF CreateSegment, GoX
  <2>2. Sound' => Sound
    BY <2>1 DEF Sound
  <2> QED BY <1>1, <2>1, <2>2, Typed, QuietX
<1>3. CASE SetMute
  <2>1. /\ UNCHANGED <<newline, roll, CG, made, queriers, file, segment, i, len>>
        /\ pcX' = "open" /\ mute' = 1 /\ holder' = None /\ pcX = "setval"
        /\ intruders' = intruders \cup {y \in Querier : holder = y /\ pcY[y] # "ended"}
    BY <1>3 DEF SetMute, GoX
  <2>2. Sound' => \A y \in Querier : ~Busy(y)
    BY <1>1, <2>1 DEF Sound, Busy
  <2>3. intruders' \in SUBSET Querier /\ intruders \subseteq intruders'
    BY <2>1, Typed
  <2> QED BY <2>1, <2>2, <2>3, Typed, QuietX
<1>4. CASE Open
  <2>1. /\ UNCHANGED <<newline, roll, CG, made, queriers, file, segment, mute, holder,
                       intruders, i, len>>
        /\ pcX = "open" /\ pcX' \in {"load", "ended"}
    BY <1>4 DEF Open, GoX
  <2>2. Sound' => Sound
    BY <2>1 DEF Sound
  <2> QED BY <1>1, <2>1, <2>2, Typed, QuietX
<1> QED BY <1>2, <1>3, <1>4

(* made is read by Ys that are not at their scans yet.                      *)
LEMMA CreateMuteKeepsIInv == ASSUME IInv, CreateMute PROVE IInv'
<1>1. /\ UNCHANGED <<newline, roll, CG, pcY, at, goal, want, length, locks, file,
                     segment, mute, holder, intruders, i, len>>
      /\ pcX = "semget" /\ pcX' = "setval" /\ made' = TRUE
  BY DEF CreateMute, GoX, queriers, mutex
<1>2. Length' = Length /\ Closed' = Closed
  BY <1>1 DEF Length, Closed
<1>3. Sound' = Sound /\ \A y \in Querier : Busy(y)' = Busy(y)
  BY <1>1 DEF Sound, Busy
<1>4. TypeOK'
  BY <1>1 DEF IInv, TypeOK
<1>5. Table'
  BY <1>1, <1>2 DEF IInv, Table, Start, Looping
<1>6. Scans'
  BY <1>1, <1>2 DEF IInv, Scans, Counting, Past
<1>7. Mutex' /\ Writing'
  BY <1>1, <1>3 DEF IInv, Mutex, Writing
<1> QED BY <1>4, <1>5, <1>6, <1>7 DEF IInv

LEMMA LoadKeepsIInv == ASSUME IInv, Load PROVE IInv'
<1>1. /\ pcX = "load" /\ pcX' = "load" /\ i < Records /\ i' = i + 1
      /\ roll' = [roll EXCEPT ![i] = i + 1]
      /\ CG' = [CG EXCEPT ![i] = file[i + 1]]
      /\ UNCHANGED <<file, newline, segment, made, mute, holder, intruders, len, pcY,
                     at, goal, want, length, locks>>
  BY DEF Load, GoX, queriers, mutex
<1>2. ~Closed
  BY <1>1 DEF IInv, Table, Start
<1>3. i + 1 \in Student /\ i' \in Index /\ i + 1 \in Int /\ i \in Index
  BY <1>1, Typed, LengthInIndex DEF Student, Index
<1>4. Length' = Length /\ Length \in Index
  BY <1>1, LengthInIndex DEF Length
<1>5. \A k \in Index : roll'[k] = IF k = i THEN i + 1 ELSE roll[k]
  BY <1>1, Typed
<1>6. ~Closed' /\ i + 1 >= 0
  <2>1. i + 1 >= 0 /\ i + 1 \in Int
    BY <1>3 DEF Student
  <2>2. roll'[Length] = IF Length = i THEN i + 1 ELSE roll[Length]
    BY <1>4, <1>5
  <2>3. ~(roll'[Length] < 0)
    BY <1>2, <2>1, <2>2 DEF Closed
  <2> QED BY <1>4, <2>1, <2>3 DEF Closed
<1>7. file[i + 1] \in Grade
  <2>1. Len(file) = Records /\ file \in Seq(Grade)
    BY <1>1, Typed DEF IInv, Table, Start
  <2> QED BY <2>1, <1>1, <1>3, LengthInIndex DEF Student, Index
<1>8. TypeOK'
  <2>1. /\ roll' \in [Index -> Student \cup {0, -1, -2}]
        /\ CG' \in [Index -> Grade]
    BY <1>1, <1>3, <1>7, Typed
  <2> QED BY <1>1, <1>3, <2>1 DEF IInv, TypeOK
<1>9. Table'
  BY <1>1, <1>3, <1>4, <1>5, <1>6, LengthInIndex DEF IInv, Table, Start, Looping
<1>10. Scans'
  <2>1. \A y \in Querier : (Past(y)' <=> Past(y)) /\ (Counting(y)' <=> Counting(y))
    BY <1>1 DEF Past, Counting
  <2> QED BY <1>1, <1>2, <1>4, <2>1 DEF IInv, Scans
<1>11. Mutex' /\ Writing'
  <2>1. Sound' = Sound /\ \A y \in Querier : Busy(y)' = Busy(y)
    BY <1>1 DEF Sound, Busy
  <2> QED BY <1>1, <2>1 DEF IInv, Mutex, Writing
<1> QED BY <1>8, <1>9, <1>10, <1>11 DEF IInv

LEMMA CloseTableKeepsIInv == ASSUME IInv, CloseTable PROVE IInv'
<1>1. /\ pcX = "load" /\ pcX' = "sleep" /\ len' = Length
      /\ roll' = [roll EXCEPT ![Length] = -1]
      /\ UNCHANGED <<file, newline, segment, CG, made, mute, holder, intruders, i,
                     pcY, at, goal, want, length, locks>>
  BY DEF CloseTable, GoX, queriers, mutex
<1>2. ~Closed
  BY <1>1 DEF IInv, Table, Start
<1>3. Length' = Length /\ Length \in Index
  BY <1>1, LengthInIndex DEF Length
<1>4. \A k \in Index : roll'[k] = IF k = Length THEN -1 ELSE roll[k]
  BY <1>1, <1>3, Typed
<1>5. Closed'
  BY <1>3, <1>4 DEF Closed
<1>6. TypeOK'
  <2>1. roll' \in [Index -> Student \cup {0, -1, -2}]
    BY <1>1, Typed
  <2> QED BY <1>1, <1>3, <2>1 DEF IInv, TypeOK
<1>7. Table'
  BY <1>1, <1>3, <1>4, <1>5, LengthInIndex DEF IInv, Table, Start, Looping
<1>8. Scans'
  <2>1. \A y \in Querier : (Past(y)' <=> Past(y)) /\ (Counting(y)' <=> Counting(y))
    BY <1>1 DEF Past, Counting
  <2> QED BY <1>1, <1>2, <1>3, <2>1 DEF IInv, Scans
<1>9. Mutex' /\ Writing'
  <2>1. Sound' = Sound /\ \A y \in Querier : Busy(y)' = Busy(y)
    BY <1>1 DEF Sound, Busy
  <2> QED BY <1>1, <2>1 DEF IInv, Mutex, Writing
<1> QED BY <1>6, <1>7, <1>8, <1>9 DEF IInv

(* X writes back with the mutex, which then no Y holds.                     *)
LEMMA LoopKeepsIInv ==
  ASSUME IInv, FindMark \/ LockFile \/ Truncate \/ Write \/ UnlockFile \/ XKilled
  PROVE  IInv'
<1> USE DEF LocationX, Start, Looping, mutex
<1>1. /\ Sound => \A y \in Querier : Busy(y) => holder = y
      /\ Sound => mute <= IF holder = None THEN 1 ELSE 0
      /\ Sound /\ pcX \in {"truncate", "write"} => holder = X
      /\ intruders' = intruders => (Sound' <=> Sound)
  BY DEF IInv, Mutex, Sound
<1>2. X # None /\ X \notin Querier /\ None \notin Querier
  BY QuerierAssumption DEF X, None
<1>3. CASE FindMark
  <2>1. /\ UNCHANGED <<newline, roll, CG, made, queriers, file, segment, mute, holder, intruders,
                       i, len>>
        /\ pcX = "sleep" /\ pcX' = "P"
    BY <1>3 DEF FindMark, GoX
  <2> QED BY <1>1, <2>1, Typed, QuietX
<1>4. CASE LockFile
  <2>1. /\ UNCHANGED <<newline, roll, CG, made, queriers, file, segment, intruders, i, len>>
        /\ pcX = "P" /\ pcX' = "truncate" /\ mute > 0 /\ mute' = mute - 1 /\ holder' = X
    BY <1>4 DEF LockFile, GoX, P, V
  <2>2. mute' \in Nat
    BY <2>1, Typed
  <2>3. Sound => holder = None /\ mute' = 0
    BY <1>1, <2>1, Typed
  <2>4. Sound => \A y \in Querier : ~Busy(y)
    BY <1>1, <1>2, <2>3
  <2>5. Sound' => Sound
    BY <1>1, <2>1
  <2> QED BY <1>2, <2>1, <2>2, <2>3, <2>4, <2>5, Typed, QuietX
<1>5. CASE Truncate
  <2>1. /\ UNCHANGED <<newline, roll, CG, made, queriers, segment, mute, holder, intruders, len>>
        /\ pcX = "truncate" /\ pcX' = "write" /\ file' = <<>> /\ i' = 0
    BY <1>5 DEF Truncate, GoX
  <2>2. /\ file' \in Seq(Grade) /\ i' \in Index /\ i' <= len /\ Len(file') = i'
        /\ \A k \in 1..i' : file'[k] = CG[k - 1]
    BY <2>1, Typed, LengthInIndex DEF Index
  <2> QED BY <1>1, <2>1, <2>2, Typed, QuietX
<1>6. CASE Write
  <2>1. /\ UNCHANGED <<newline, roll, CG, made, queriers, segment, mute, holder, intruders, len>>
        /\ pcX = "write" /\ pcX' = "write" /\ i < len
        /\ file' = Append(file, CG[i]) /\ i' = i + 1
    BY <1>6 DEF Write, GoX
  <2>2. /\ file' \in Seq(Grade) /\ i' \in Index /\ i' <= len /\ i \in Nat
    BY <2>1, Typed, LengthInIndex DEF Index
  <2>3. Sound => Len(file') = i' /\ \A k \in 1..i' : file'[k] = CG[k - 1]
    <3> SUFFICES ASSUME Sound PROVE Len(file') = i' /\ \A k \in 1..i' : file'[k] = CG[k - 1]
      OBVIOUS
    <3>1. Len(file) = i /\ \A k \in 1..i : file[k] = CG[k - 1]
      BY <2>1 DEF IInv, Writing
    <3>2. Len(file') = i + 1
      BY <2>1, <3>1, Typed
    <3>3. \A k \in 1..i : file'[k] = file[k]
      BY <2>1, <3>1, Typed
    <3>4. file'[i + 1] = CG[i]
      BY <2>1, <3>1, Typed
    <3>5. \A k \in 1..(i + 1) : file'[k] = CG[k - 1]
      <4> TAKE k \in 1..(i + 1)
      <4>1. CASE k = i + 1
        BY <4>1, <3>4, <2>2
      <4>2. CASE k \in 1..i
        BY <4>2, <3>1, <3>3
      <4> QED BY <4>1, <4>2, <2>2
    <3> QED BY <3>2, <3>5, <2>1
  <2> QED BY <1>1, <2>1, <2>2, <2>3, Typed, QuietX
<1>7. CASE UnlockFile
  <2>1. /\ UNCHANGED <<newline, roll, CG, made, queriers, file, segment, intruders, i, len>>
        /\ pcX = "write" /\ pcX' = "sleep" /\ mute' = mute + 1 /\ holder' = None
    BY <1>7 DEF UnlockFile, GoX, V
  <2>2. mute' \in Nat
    BY <2>1, Typed
  <2>3. Sound => holder = X /\ mute' = 1
    BY <1>1, <1>2, <2>1, Typed
  <2>4. Sound => \A y \in Querier : ~Busy(y)
    BY <1>1, <1>2, <2>3
  <2>5. Sound' => Sound
    BY <1>1, <2>1
  <2> QED BY <2>1, <2>2, <2>3, <2>4, <2>5, Typed, QuietX
<1>8. CASE XKilled
  <2>1. /\ UNCHANGED <<newline, roll, CG, made, queriers, file, segment, mute, holder, intruders,
                       i, len>>
        /\ pcX' = "ended"
    BY <1>8 DEF XKilled
  <2> QED BY <1>1, <2>1, Typed, QuietX
<1> QED BY <1>3, <1>4, <1>5, <1>6, <1>7, <1>8

----------------------------------------------------------------------------
(* Steps of a Y.                                                            *)

(* What a step of y may do to the mutex while nobody does without it.       *)
Passes(y) ==
  \/ mute' = mute /\ holder' = holder /\ (Busy(y)' => Busy(y) /\ locks'[y] = locks[y])
  \/ mute > 0 /\ mute' = mute - 1 /\ holder' = y /\ locks'[y]
  \/ Busy(y) /\ mute' = mute + 1 /\ holder' = None /\ ~Busy(y)'

LEMMA StepY ==
  ASSUME IInv, NEW y \in Querier, UNCHANGED files,
         roll' \in [Index -> Student \cup {0, -1, -2}], CG' \in [Index -> Grade],
         \A k \in Index \ {Length} : roll'[k] = roll[k],
         roll'[Length] = roll[Length] \/ (Closed /\ roll'[Length] < 0),
         mute' \in Nat, holder' \in {None, y, holder},
         intruders' \in SUBSET Querier, intruders \subseteq intruders',
         pcY' \in [Querier -> LocationY], at' \in [Querier -> 0..(Records + 1)],
         goal' \in [Querier -> Goal], want' \in [Querier -> 0..(Records + 1)],
         length' \in [Querier -> Index \cup {Wild}], locks' \in [Querier -> BOOLEAN],
         \A q \in Querier \ {y} : /\ pcY'[q] = pcY[q] /\ at'[q] = at[q]
                                  /\ goal'[q] = goal[q] /\ length'[q] = length[q]
                                  /\ locks'[q] = locks[q],
         pcY'[y] \in {"shmget", "semget"} => goal'[y] = "count",
         pcY'[y] = "grade" => at'[y] \in Index /\ goal'[y] = "update",
         Counting(y)' => length'[y] # Wild,
         Past(y)' => length'[y] = Wild \/ (length'[y] = Length /\ Closed),
         Sound' => Passes(y) /\ (CG' = CG \/ Busy(y))
  PROVE  IInv'
<1>1. /\ UNCHANGED <<file, newline, segment, made, pcX, i, len>>
  BY DEF files
<1>2. Length' = Length /\ Length \in Index /\ (Closed' <=> Closed)
  BY <1>1, LengthInIndex DEF Length, Closed
<1>3. Sound' => Sound
  BY DEF Sound
<1>4. \A q \in Querier \ {y} :
        (Busy(q)' <=> Busy(q)) /\ (Past(q)' <=> Past(q)) /\ (Counting(q)' <=> Counting(q))
  BY DEF Busy, Past, Counting
<1>5. Sound' => Sound /\ Passes(y) /\ (CG' = CG \/ Busy(y))
  BY <1>3
<1>6. TypeOK'
  BY <1>1, Typed DEF TypeOK, LocationX, Start, Looping, LocationY, Goal
<1>7. Table'
  BY <1>1, <1>2 DEF IInv, Table
<1>8. Scans'
  <2> SUFFICES ASSUME NEW q \in Querier
               PROVE  /\ pcY'[q] \in {"shmget", "semget"} => goal'[q] = "count"
                      /\ pcY'[q] = "grade" => at'[q] \in Index /\ goal'[q] = "update"
                      /\ Counting(q)' => length'[q] # Wild
                      /\ Past(q)' => length'[q] = Wild \/ (length'[q] = Length' /\ Closed')
    BY DEF Scans, Index, Records
  <2>1. CASE q = y
    BY <2>1, <1>2
  <2>2. CASE q # y
    BY <2>2, <1>2, <1>4 DEF IInv, Scans
  <2> QED BY <2>1, <2>2
<1>9. ASSUME Sound' PROVE
        /\ mute' <= IF holder' = None THEN 1 ELSE 0
        /\ \A q \in Querier : Busy(q)' => holder' = q /\ locks'[q]
        /\ pcX \in {"truncate", "write"} => holder' = X
  <2>1. /\ mute \in Nat /\ mute <= IF holder = None THEN 1 ELSE 0
        /\ \A q \in Querier : Busy(q) => holder = q /\ locks[q]
        /\ pcX \in {"truncate", "write"} => holder = X
    BY <1>5, <1>9, Typed DEF IInv, Mutex
  <2>2. X # None /\ X # y /\ \A q \in Querier : q # None
    BY QuerierAssumption DEF X, None
  <2>3. CASE /\ mute' = mute /\ holder' = holder
             /\ Busy(y)' => Busy(y) /\ locks'[y] = locks[y]
    <3>1. \A q \in Querier : Busy(q)' => Busy(q) /\ locks'[q] = locks[q]
      BY <2>3, <1>4
    <3> QED BY <2>1, <2>3, <3>1
  <2>4. CASE mute > 0 /\ mute' = mute - 1 /\ holder' = y /\ locks'[y]
    <3>1. holder = None /\ mute = 1
      BY <2>1, <2>4
    <3>2. \A q \in Querier \ {y} : ~Busy(q)'
      BY <2>1, <2>2, <3>1, <1>4
    <3> QED BY <2>1, <2>2, <2>4, <3>1, <3>2
  <2>5. CASE Busy(y) /\ mute' = mute + 1 /\ holder' = None /\ ~Busy(y)'
    <3>1. holder = y
      BY <2>1, <2>5
    <3>2. \A q \in Querier : ~Busy(q)'
      BY <2>1, <2>5, <3>1, <1>4
    <3> QED BY <2>1, <2>2, <2>5, <3>1, <3>2
  <2> QED BY <1>5, <1>9, <2>3, <2>4, <2>5 DEF Passes
<1>10. Mutex'
  BY <1>1, <1>2, <1>9 DEF Mutex
<1>11. Writing'
  <2> SUFFICES ASSUME Sound', pcX = "write"
               PROVE  i <= len /\ Len(file) = i /\ \A k \in 1..i : file[k] = CG'[k - 1]
    BY <1>1 DEF Writing
  <2>1. i <= len /\ Len(file) = i /\ \A k \in 1..i : file[k] = CG[k - 1]
    BY <1>5 DEF IInv, Writing
  <2>2. holder = X /\ (Busy(y) => holder = y)
    BY <1>5 DEF IInv, Mutex
  <2>3. ~Busy(y)
    BY <2>2, QuerierAssumption DEF X
  <2> QED BY <1>5, <2>1, <2>3
<1> QED BY <1>6, <1>7, <1>8, <1>10, <1>11 DEF IInv

LEMMA ScanKeepsIInv == ASSUME IInv, NEW y \in Querier, Scan(y) PROVE IInv'
<1>1. /\ UNCHANGED files /\ UNCHANGED <<roll, CG, mute, holder, intruders, want, locks>>
      /\ at[y] \in Index /\ pcY[y] = "scan"
  BY DEF Scan, GoY, mutex
<1>2. /\ pcY \in [Querier -> LocationY] /\ at \in [Querier -> 0..(Records + 1)]
      /\ goal \in [Querier -> Goal] /\ length \in [Querier -> Index \cup {Wild}]
      /\ goal[y] \in Goal /\ length[y] \in Index \cup {Wild}
  BY Typed
<1>3. /\ goal[y] = "count" => length[y] # Wild
      /\ goal[y] # "count" => length[y] = Wild \/ (length[y] = Length /\ Closed)
  BY <1>1 DEF IInv, Scans, Counting, Past
<1>4. CASE /\ roll[at[y]] = -1
           /\ pcY' = [pcY EXCEPT ![y] = AfterScan[goal[y]]]
           /\ length' = IF goal[y] = "count" THEN [length EXCEPT ![y] = at[y]] ELSE length
           /\ at' = [at EXCEPT ![y] = 0]
           /\ goal' = [goal EXCEPT ![y] = "count"]
  <2>1. at[y] = Length /\ Closed
    <3>1. \A k \in Index \ {Length} : roll[k] >= 0
      BY DEF IInv, Table
    <3> QED BY <1>1, <1>4, <3>1 DEF Closed
  <2>2. AfterScan[goal[y]] = IF goal[y] = "update" THEN "V" ELSE "menu"
    BY <1>2 DEF AfterScan, Goal
  <2>3. pcY'[y] = IF goal[y] = "update" THEN "V" ELSE "menu"
    BY <1>4, <2>2, <1>2
  <2>4. /\ pcY' \in [Querier -> LocationY] /\ at' \in [Querier -> 0..(Records + 1)]
        /\ goal' \in [Querier -> Goal] /\ length' \in [Querier -> Index \cup {Wild}]
    BY <1>1, <1>2, <1>4, <2>2, LengthInIndex DEF LocationY, Goal, Index
  <2>5. length'[y] = IF goal[y] = "count" THEN Length ELSE length[y]
    BY <1>2, <1>4, <2>1
  <2>6. \A q \in Querier \ {y} : /\ pcY'[q] = pcY[q] /\ at'[q] = at[q]
                                 /\ goal'[q] = goal[q] /\ length'[q] = length[q]
                                 /\ locks'[q] = locks[q]
    BY <1>1, <1>2, <1>4
  <2>7. Past(y)' => length'[y] = Wild \/ (length'[y] = Length /\ Closed)
    BY <2>1, <2>5, <1>3
  <2>8. Busy(y)' => Busy(y)
    BY <2>3, <1>1 DEF Busy
  <2>9. ~Counting(y)'
    BY <2>3 DEF Counting
  <2> QED BY <1>1, <2>3, <2>4, <2>6, <2>7, <2>8, <2>9, Typed, StepY DEF Passes
<1>5. CASE /\ pcY' = [pcY EXCEPT ![y] = "scan"]
           /\ at' = [at EXCEPT ![y] = @ + 1]
           /\ UNCHANGED <<length, goal>>
  <2>1. /\ pcY' \in [Querier -> LocationY] /\ at' \in [Querier -> 0..(Records + 1)]
        /\ pcY'[y] = "scan"
    BY <1>1, <1>2, <1>5, LengthInIndex DEF LocationY, Index
  <2>2. \A q \in Querier \ {y} : pcY'[q] = pcY[q] /\ at'[q] = at[q]
    BY <1>2, <1>5
  <2>3. /\ (Past(y)' <=> Past(y)) /\ (Busy(y)' <=> Busy(y))
        /\ (Counting(y)' <=> Counting(y))
    BY <1>1, <1>5, <2>1 DEF Past, Busy, Counting
  <2>4. /\ Counting(y) => length[y] # Wild
        /\ Past(y) => length[y] = Wild \/ (length[y] = Length /\ Closed)
    BY DEF IInv, Scans
  <2> QED BY <1>1, <1>2, <1>5, <2>1, <2>2, <2>3, <2>4, Typed, StepY DEF Passes
<1>6. CASE /\ goal[y] = "update"
           /\ pcY' = [pcY EXCEPT ![y] = "grade"]
           /\ UNCHANGED <<at, length, goal>>
  <2>1. pcY' \in [Querier -> LocationY] /\ pcY'[y] = "grade"
    BY <1>2, <1>6 DEF LocationY
  <2>2. \A q \in Querier \ {y} : pcY'[q] = pcY[q]
    BY <1>2, <1>6
  <2>3. Past(y)' /\ Past(y) /\ Busy(y)' /\ Busy(y) /\ ~Counting(y)'
    BY <1>1, <1>6, <2>1 DEF Past, Busy, Counting
  <2> QED BY <1>1, <1>2, <1>3, <1>6, <2>1, <2>2, <2>3, Typed, StepY DEF Passes
<1> QED BY <1>4, <1>5, <1>6 DEF Scan, GoY, ToUpdate

(* Past the table the length that is found is wild.                         *)
LEMMA RunOnKeepsIInv == ASSUME IInv, NEW y \in Querier, RunOn(y) PROVE IInv'
<1>1. /\ UNCHANGED files /\ UNCHANGED <<roll, CG, mute, holder, intruders, want, locks>>
      /\ pcY[y] = "scan"
      /\ at' = [at EXCEPT ![y] = 0] /\ goal' = [goal EXCEPT ![y] = "count"]
  BY DEF RunOn, GoY, mutex
<1>2. /\ pcY \in [Querier -> LocationY] /\ at \in [Querier -> 0..(Records + 1)]
      /\ goal \in [Querier -> Goal] /\ length \in [Querier -> Index \cup {Wild}]
      /\ goal[y] \in Goal /\ length[y] \in Index \cup {Wild}
  BY Typed
<1>3. goal[y] # "count" => length[y] = Wild \/ (length[y] = Length /\ Closed)
  BY <1>1, <1>2 DEF IInv, Scans, Past
<1>4. /\ at' \in [Querier -> 0..(Records + 1)] /\ goal' \in [Querier -> Goal]
      /\ \A q \in Querier \ {y} : at'[q] = at[q] /\ goal'[q] = goal[q]
  BY <1>1, <1>2, LengthInIndex DEF Goal
<1>5. CASE /\ pcY' = [pcY EXCEPT ![y] = AfterScan[goal[y]]]
           /\ length' = IF goal[y] = "count" THEN [length EXCEPT ![y] = Wild] ELSE length
  <2>1. AfterScan[goal[y]] = IF goal[y] = "update" THEN "V" ELSE "menu"
    BY <1>2 DEF AfterScan, Goal
  <2>2. pcY'[y] = IF goal[y] = "update" THEN "V" ELSE "menu"
    BY <1>5, <2>1, <1>2
  <2>3. pcY' \in [Querier -> LocationY] /\ length' \in [Querier -> Index \cup {Wild}]
    BY <1>2, <1>5, <2>1 DEF LocationY
  <2>4. length'[y] = IF goal[y] = "count" THEN Wild ELSE length[y]
    BY <1>2, <1>5
  <2>5. \A q \in Querier \ {y} : pcY'[q] = pcY[q] /\ length'[q] = length[q]
    BY <1>2, <1>5
  <2>6. Past(y)' => length'[y] = Wild \/ (length'[y] = Length /\ Closed)
    BY <2>4, <1>3
  <2>7. (Busy(y)' => Busy(y)) /\ ~Counting(y)'
    BY <2>2, <1>1 DEF Busy, Counting
  <2> QED BY <1>1, <1>4, <2>2, <2>3, <2>5, <2>6, <2>7, Typed, StepY DEF Passes
<1>6. CASE pcY' = [pcY EXCEPT ![y] = "ended"] /\ UNCHANGED length
  <2>1. pcY' \in [Querier -> LocationY] /\ pcY'[y] = "ended"
    BY <1>2, <1>6 DEF LocationY
  <2>2. \A q \in Querier \ {y} : pcY'[q] = pcY[q]
    BY <1>2, <1>6
  <2>3. ~Past(y)' /\ ~Busy(y)' /\ ~Counting(y)'
    BY <1>1, <1>6, <2>1 DEF Past, Busy, Counting
  <2> QED BY <1>1, <1>2, <1>4, <1>6, <2>1, <2>2, <2>3, Typed, StepY DEF Passes
<1> QED BY <1>5, <1>6 DEF RunOn, GoY

LEMMA UpdateKeepsIInv ==
  ASSUME IInv, NEW y \in Querier, NEW g \in Grade, Update(y, g) PROVE IInv'
<1>1. /\ UNCHANGED files /\ UNCHANGED <<mute, holder, intruders, goal, want, length, locks>>
      /\ pcY[y] = "grade" /\ pcY' = [pcY EXCEPT ![y] = "scan"]
      /\ CG' = [CG EXCEPT ![at[y]] = g]
      /\ roll' = IF length[y] = Wild THEN roll ELSE [roll EXCEPT ![length[y]] = -2]
      /\ at' = [at EXCEPT ![y] = @ + 1]
  BY DEF Update, GoY, mutex
<1>2. /\ at[y] \in Index /\ goal[y] = "update"
      /\ length[y] = Wild \/ (length[y] = Length /\ Closed)
  BY <1>1 DEF IInv, Scans, Past
<1>3. /\ roll' \in [Index -> Student \cup {0, -1, -2}]
      /\ \A k \in Index \ {Length} : roll'[k] = roll[k]
      /\ roll'[Length] = roll[Length] \/ (Closed /\ roll'[Length] < 0)
  <2>1. CASE length[y] = Wild
    BY <1>1, <2>1, Typed
  <2>2. CASE length[y] = Length /\ Closed
    <3>1. roll' = [roll EXCEPT ![Length] = -2]
      BY <1>1, <2>2, LengthInIndex
    <3> QED BY <2>2, <3>1, Typed, LengthInIndex
  <2> QED BY <1>2, <2>1, <2>2
<1>4. CG' \in [Index -> Grade]
  BY <1>1, <1>2, Typed
<1>5. /\ pcY' \in [Querier -> LocationY] /\ at' \in [Querier -> 0..(Records + 1)]
      /\ pcY'[y] = "scan"
  BY <1>1, <1>2, LengthInIndex, Typed DEF LocationY, Index
<1>6. \A q \in Querier \ {y} : pcY'[q] = pcY[q] /\ at'[q] = at[q]
  BY <1>1, Typed
<1>7. Busy(y) /\ Busy(y)' /\ ~Counting(y)'
  BY <1>1, <1>2, <1>5 DEF Busy, Counting
<1> QED BY <1>1, <1>2, <1>3, <1>4, <1>5, <1>6, <1>7, Typed, StepY DEF Passes

(* Steps that leave the table alone.                                        *)
LEMMA MovesKeepIInv ==
  ASSUME IInv, NEW y \in Querier,
         \/ FindSegment(y) \/ FindMute(y) \/ Search(y) \/ LockTable(y)
         \/ (\E r \in 1..(Records + 1) : Ask(y, r)) \/ UnlockTable(y) \/ YEnds(y)
  PROVE  IInv'
<1>1. /\ pcY \in [Querier -> LocationY] /\ at \in [Querier -> 0..(Records + 1)]
      /\ goal \in [Querier -> Goal] /\ length \in [Querier -> Index \cup {Wild}]
      /\ want \in [Querier -> 0..(Records + 1)] /\ locks \in [Querier -> BOOLEAN]
      /\ roll \in [Index -> Student \cup {0, -1, -2}] /\ CG \in [Index -> Grade]
      /\ mute \in Nat /\ made \in BOOLEAN /\ intruders \in SUBSET Querier
  BY Typed
<1>2. /\ pcY[y] \in {"shmget", "semget"} => goal[y] = "count"
      /\ Counting(y) => length[y] # Wild
      /\ Past(y) => length[y] = Wild \/ (length[y] = Length /\ Closed)
  BY DEF IInv, Scans
<1>3. CASE FindSegment(y)
  <2>1. /\ UNCHANGED files
        /\ UNCHANGED <<roll, CG, mute, holder, intruders, at, goal, want, length, locks>>
        /\ pcY[y] = "shmget" /\ pcY' = [pcY EXCEPT ![y] = "semget"]
    BY <1>3 DEF FindSegment, GoY, mutex
  <2>2. pcY' \in [Querier -> LocationY] /\ pcY'[y] = "semget"
    BY <1>1, <2>1 DEF LocationY
  <2>3. \A q \in Querier \ {y} : pcY'[q] = pcY[q]
    BY <1>1, <2>1
  <2>4. ~Past(y)' /\ ~Busy(y)' /\ Counting(y)
    BY <2>1, <2>2 DEF Past, Busy, Counting
  <2> QED BY <1>1, <1>2, <2>1, <2>2, <2>3, <2>4, StepY DEF Passes
<1>4. CASE FindMute(y)
  <2>1. /\ UNCHANGED files
        /\ UNCHANGED <<roll, CG, mute, holder, intruders, at, goal, want, length>>
        /\ pcY[y] = "semget" /\ pcY' = [pcY EXCEPT ![y] = "scan"]
        /\ locks' = [locks EXCEPT ![y] = made]
    BY <1>4 DEF FindMute, GoY, mutex
  <2>2. /\ pcY' \in [Querier -> LocationY] /\ pcY'[y] = "scan"
        /\ locks' \in [Querier -> BOOLEAN]
    BY <1>1, <2>1 DEF LocationY
  <2>3. \A q \in Querier \ {y} : pcY'[q] = pcY[q] /\ locks'[q] = locks[q]
    BY <1>1, <2>1
  <2>4. ~Past(y)' /\ ~Busy(y)' /\ Counting(y)
    BY <1>2, <2>1, <2>2 DEF Past, Busy, Counting
  <2> QED BY <1>1, <1>2, <2>1, <2>2, <2>3, <2>4, StepY DEF Passes
<1>5. CASE Search(y)
  <2>1. /\ UNCHANGED files
        /\ UNCHANGED <<roll, CG, mute, holder, intruders, at, want, length, locks>>
        /\ pcY[y] = "menu" /\ pcY' = [pcY EXCEPT ![y] = "scan"]
        /\ goal' = [goal EXCEPT ![y] = "search"]
    BY <1>5 DEF Search, GoY, mutex
  <2>2. /\ pcY' \in [Querier -> LocationY] /\ pcY'[y] = "scan"
        /\ goal' \in [Querier -> Goal] /\ goal'[y] = "search"
    BY <1>1, <2>1 DEF LocationY, Goal
  <2>3. \A q \in Querier \ {y} : pcY'[q] = pcY[q] /\ goal'[q] = goal[q]
    BY <1>1, <2>1
  <2>4. Past(y) /\ ~Busy(y)' /\ ~Counting(y)'
    BY <2>1, <2>2 DEF Past, Busy, Counting
  <2> QED BY <1>1, <1>2, <2>1, <2>2, <2>3, <2>4, StepY DEF Passes
<1>6. CASE LockTable(y)
  <2>1. /\ UNCHANGED files /\ UNCHANGED <<roll, CG, at, goal, want, length, locks>>
        /\ pcY[y] = "menu" /\ pcY' = [pcY EXCEPT ![y] = "ask"]
        /\ P(y, locks[y])
    BY <1>6 DEF LockTable, GoY
  <2>2. pcY' \in [Querier -> LocationY] /\ pcY'[y] = "ask"
    BY <1>1, <2>1 DEF LocationY
  <2>3. \A q \in Querier \ {y} : pcY'[q] = pcY[q]
    BY <1>1, <2>1
  <2>4. /\ mute' \in Nat /\ holder' \in {holder, y}
        /\ intruders' \in SUBSET Querier /\ intruders \subseteq intruders'
    BY <1>1, <2>1, Typed DEF P
  <2>5. Past(y) /\ ~Counting(y)'
    BY <2>1, <2>2 DEF Past, Counting
  <2>6. Sound' => Passes(y)
    <3> SUFFICES ASSUME Sound' PROVE Passes(y)
      OBVIOUS
    <3> QED BY <2>1 DEF P, Sound, Passes
  <2> QED BY <1>1, <1>2, <2>1, <2>2, <2>3, <2>4, <2>5, <2>6, StepY
<1>7. ASSUME NEW r \in 1..(Records + 1), Ask(y, r) PROVE IInv'
  <2>1. /\ UNCHANGED files
        /\ UNCHANGED <<roll, CG, mute, holder, intruders, at, length, locks>>
        /\ pcY[y] = "ask" /\ pcY' = [pcY EXCEPT ![y] = "scan"]
        /\ goal' = [goal EXCEPT ![y] = "update"] /\ want' = [want EXCEPT ![y] = r]
    BY <1>7 DEF Ask, GoY, mutex
  <2>2. /\ pcY' \in [Querier -> LocationY] /\ pcY'[y] = "scan"
        /\ goal' \in [Querier -> Goal] /\ goal'[y] = "update"
        /\ want' \in [Querier -> 0..(Records + 1)]
    BY <1>1, <2>1, LengthInIndex DEF LocationY, Goal
  <2>3. \A q \in Querier \ {y} : pcY'[q] = pcY[q] /\ goal'[q] = goal[q]
    BY <1>1, <2>1
  <2>4. Past(y) /\ Busy(y) /\ ~Counting(y)'
    BY <2>1, <2>2 DEF Past, Busy, Counting
  <2> QED BY <1>1, <1>2, <2>1, <2>2, <2>3, <2>4, StepY DEF Passes
<1>8. CASE UnlockTable(y)
  <2>1. /\ UNCHANGED files /\ UNCHANGED <<roll, CG, at, goal, length, locks>>
        /\ pcY[y] = "V" /\ pcY' = [pcY EXCEPT ![y] = "menu"]
        /\ V(locks[y]) /\ want' = [want EXCEPT ![y] = 0]
    BY <1>8 DEF UnlockTable, GoY
  <2>2. /\ pcY' \in [Querier -> LocationY] /\ pcY'[y] = "menu"
        /\ want' \in [Querier -> 0..(Records + 1)]
    BY <1>1, <2>1, LengthInIndex DEF LocationY
  <2>3. \A q \in Querier \ {y} : pcY'[q] = pcY[q]
    BY <1>1, <2>1
  <2>4. mute' \in Nat /\ holder' \in {None, holder} /\ intruders' = intruders
    BY <1>1, <2>1 DEF V
  <2>5. Past(y) /\ Busy(y) /\ ~Busy(y)' /\ ~Counting(y)'
    BY <2>1, <2>2 DEF Past, Busy, Counting
  <2>6. Sound' => Passes(y)
    <3>1. Sound' => Sound /\ locks[y]
      BY <2>1, <2>5 DEF IInv, Mutex, Sound, V
    <3> QED BY <2>1, <2>5, <3>1 DEF V, Passes
  <2> QED BY <1>1, <1>2, <2>1, <2>2, <2>3, <2>4, <2>5, <2>6, StepY
<1>9. CASE YEnds(y)
  <2>1. /\ UNCHANGED files /\ UNCHANGED <<roll, CG, mute, holder, intruders, length, locks>>
        /\ pcY' = [pcY EXCEPT ![y] = "ended"] /\ at' = [at EXCEPT ![y] = 0]
        /\ want' = [want EXCEPT ![y] = 0] /\ goal' = [goal EXCEPT ![y] = "count"]
    BY <1>9 DEF YEnds, mutex
  <2>2. /\ pcY' \in [Querier -> LocationY] /\ pcY'[y] = "ended"
        /\ at' \in [Querier -> 0..(Records + 1)] /\ goal' \in [Querier -> Goal]
        /\ want' \in [Querier -> 0..(Records + 1)]
    BY <1>1, <2>1, LengthInIndex DEF LocationY, Goal
  <2>3. \A q \in Querier \ {y} : pcY'[q] = pcY[q] /\ at'[q] = at[q] /\ goal'[q] = goal[q]
    BY <1>1, <2>1
  <2>4. ~Past(y)' /\ ~Busy(y)' /\ ~Counting(y)'
    BY <2>1, <2>2 DEF Past, Busy, Counting
  <2> QED BY <1>1, <1>2, <2>1, <2>2, <2>3, <2>4, StepY DEF Passes
<1> QED BY <1>3, <1>4, <1>5, <1>6, <1>7, <1>8, <1>9

----------------------------------------------------------------------------
(* IInv is inductive.                                                       *)

LEMMA StepKeepsIInv == IInv /\ [Next]_vars => IInv'
<1> SUFFICES ASSUME IInv, [Next]_vars PROVE IInv'
  OBVIOUS
<1>1. CASE XStep
  BY <1>1, StartsKeepIInv, CreateMuteKeepsIInv, LoadKeepsIInv, CloseTableKeepsIInv,
     LoopKeepsIInv DEF XStep
<1>2. CASE XKilled
  BY <1>2, LoopKeepsIInv
<1>3. ASSUME NEW y \in Querier, YStep(y) \/ YEnds(y) PROVE IInv'
  BY <1>3, MovesKeepIInv, ScanKeepsIInv, RunOnKeepsIInv, UpdateKeepsIInv DEF YStep
<1>4. CASE UNCHANGED vars
  <2>1. /\ UNCHANGED <<file, newline, segment, roll, CG, made, mute, holder, intruders, pcX, i,
                       len, pcY, at, goal, want, length, locks>>
    BY <1>4 DEF vars, queriers, mutex
  <2>2. Length' = Length /\ Closed' = Closed /\ Sound' = Sound
    BY <2>1 DEF Length, Closed, Sound
  <2>3. TypeOK' /\ Table'
    BY <2>1, <2>2 DEF IInv, TypeOK, Table
  <2>4. Scans' /\ Mutex'
    BY <2>1, <2>2 DEF IInv, Scans, Counting, Past, Mutex, Busy
  <2>5. Writing'
    BY <2>1, <2>2 DEF IInv, Writing
  <2> QED BY <2>3, <2>4, <2>5 DEF IInv
<1> QED BY <1>1, <1>2, <1>3, <1>4 DEF Next

LEMMA Invariance == Spec => []IInv
BY InitIInv, StepKeepsIInv, PTL DEF Spec

(* Every variable keeps its type: no index of the table or of the file ever *)
(* leaves it, except where the code itself runs past the sentinel.          *)
THEOREM TypeCorrect == Spec => []TypeOK
<1>1. IInv => TypeOK
  BY DEF IInv
<1> QED BY <1>1, Invariance, PTL

(* A Y that counts the records, while X loads them or another Y updates     *)
(* them, finds the right number or runs past the table.                     *)
THEOREM LengthFound == Spec => []LengthRightOrWild
<1>1. IInv => LengthRightOrWild
  <2> SUFFICES ASSUME IInv, NEW y \in Querier, pcY[y] \in {"menu", "ask", "grade", "V"}
               PROVE  length[y] = Wild \/ (length[y] = Length /\ pcX \in Looping \cup {"ended"})
    BY DEF LengthRightOrWild
  <2>1. length[y] = Wild \/ (length[y] = Length /\ Closed)
    BY DEF IInv, Scans, Past
  <2>2. Closed => pcX \in Looping \cup {"ended"}
    BY Typed DEF IInv, Table, LocationX
  <2> QED BY <2>1, <2>2
<1> QED BY <1>1, Invariance, PTL

(* What X has written back when it gives up the mutex is the table at one   *)
(* moment, with the grades of every update before it and of none after, as  *)
(* long as no Y has gone to an update without the mutex.                    *)
THEOREM SnapshotWritten == Spec => WritesSnapshot
<1>1. IInv => [(UnlockFile /\ intruders = {}) => file = Kept]_vars
  <2> SUFFICES ASSUME IInv, UnlockFile, Sound PROVE file = Kept
    BY DEF Sound
  <2>1. pcX = "write" /\ i = len
    BY DEF UnlockFile, GoX
  <2>2. Len(file) = len /\ \A k \in 1..len : file[k] = CG[k - 1]
    BY <2>1 DEF IInv, Writing
  <2>3. file = [k \in 1..len |-> file[k]]
    BY <2>2, Typed
  <2> QED BY <2>2, <2>3 DEF Kept
<1> QED BY <1>1, Invariance, PTL DEF WritesSnapshot

=============================================================================
