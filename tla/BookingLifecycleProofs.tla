----------------------- MODULE BookingLifecycleProofs -----------------------
(* Proofs about the start and the end of the booking server for every size  *)
(* of the queue and every number of servers.                                *)
EXTENDS BookingLifecycle, TLAPS

Semaphore == {"PS", "CS"}

(* Before a semaphore's semget.                                             *)
NotMade(s) == pcB = "new_PS" \/ (s = "CS" /\ pcB = "new_CS")

Place == {"off"} \cup Booting \cup Serving \cup Handling

(* A running server has the id of every semaphore that it has made, and     *)
(* only of those: an object that carries its number is its own.             *)
Owned ==
  /\ server \in Nat
  /\ pcB \in Place
  /\ DOMAIN key = {"shm", "PS", "CS"} /\ DOMAIN own = {"PS", "CS"}
  /\ \A object \in {"shm", "PS", "CS"} : key[object] \in 0..server
  /\ \A s \in Semaphore :
       /\ own[s] \in {0, server}
       /\ pcB # "off" /\ key[s] = server => own[s] = server
       /\ pcB # "off" /\ NotMade(s) => key[s] # server
  /\ pcB # "off" => server # 0

(* What the handler has removed when it comes to a statement, or has ended. *)
Removed ==
  LET gone(objects) == \A object \in objects :
                         IF object = "shm" THEN key.shm = 0 ELSE key[object] # server
  IN  /\ pcB = "rm_PS" => gone({"shm"})
      /\ pcB = "rm_CS" => gone({"shm", "PS"})
      /\ pcB = "exit" => gone({"shm", "PS", "CS"})
      /\ pcB = "off" /\ stop = "handled" => gone({"shm", "PS", "CS"})

IInv == Owned /\ Removed

LEMMA InitIInv == Init => IInv
BY DEF Init, IInv, Owned, Removed, Place, Semaphore, NotMade

(* The steps that change neither the objects nor the server's place.        *)
LEMMA OthersKeepIInv ==
  ASSUME IInv, UNCHANGED <<key, server, pcB, own, stop>>
  PROVE  IInv'
BY DEF IInv, Owned, Removed, NotMade

LEMMA StartKeepsIInv == ASSUME IInv, Start PROVE IInv'
<1> USE DEF IInv
<1>1. /\ pcB = "off" /\ server' = server + 1 /\ server' \in Nat /\ server' # 0
      /\ own' = [PS |-> 0, CS |-> 0] /\ stop' = stop
  BY DEF Start, Owned
<1>2. CASE key.shm # 0 /\ UNCHANGED <<key, pcB>>
  <2>1. Owned'
    BY <1>1, <1>2 DEF Owned, Semaphore, NotMade
  <2>2. Removed'
    BY <1>1, <1>2 DEF Removed
  <2> QED BY <2>1, <2>2
<1>3. CASE key.shm = 0 /\ key' = [key EXCEPT !.shm = server'] /\ pcB' = "new_PS"
  <2>1. \A s \in Semaphore : key'[s] = key[s] /\ key[s] \in 0..server
    BY <1>3 DEF Owned, Semaphore
  <2>2. Owned'
    BY <1>1, <1>3, <2>1 DEF Owned, Semaphore, NotMade, Place, Booting
  <2>3. Removed'
    BY <1>3 DEF Removed
  <2> QED BY <2>2, <2>3
<1> QED BY <1>2, <1>3 DEF Start

LEMMA CreateKeepsIInv ==
  ASSUME IInv,
         \/ Create("PS", "new_PS")
         \/ Create("CS", "new_CS")
  PROVE  IInv'
<1> USE DEF IInv
<1>1. CASE Create("PS", "new_PS")
  <2>1. pcB = "new_PS" /\ pcB' = "new_CS" /\ UNCHANGED <<server, stop>>
    BY <1>1 DEF Create, At, After
  <2>2. Owned'
    BY <1>1, <2>1 DEF Create, Owned, Semaphore, NotMade, Place, Booting
  <2>3. Removed'
    BY <2>1 DEF Removed
  <2> QED BY <2>2, <2>3
<1>2. CASE Create("CS", "new_CS")
  <2>1. pcB = "new_CS" /\ pcB' = "set_CS" /\ UNCHANGED <<server, stop>>
    BY <1>2 DEF Create, At, After
  <2>2. Owned'
    BY <1>2, <2>1 DEF Create, Owned, Semaphore, NotMade, Place, Booting
  <2>3. Removed'
    BY <2>1 DEF Removed
  <2> QED BY <2>2, <2>3
<1> QED BY <1>1, <1>2

(* The steps of the start and of the loop that change no object.            *)
LEMMA LoopKeepsIInv ==
  ASSUME IInv, UNCHANGED <<key, server, own, stop>>,
         pcB \in Booting \cup Serving, pcB' \in Booting \cup Serving \cup {"rm_shm"},
         pcB' \notin {"new_PS", "new_CS"}
  PROVE  IInv'
<1>1. Owned'
  BY DEF IInv, Owned, NotMade, Place, Booting, Serving, Handling
<1>2. Removed'
  BY DEF IInv, Removed, Booting, Serving
<1> QED BY <1>1, <1>2 DEF IInv

LEMMA HandlerKeepsIInv ==
  ASSUME IInv,
         RemoveSegment \/ Remove("PS", "rm_PS") \/ Remove("CS", "rm_CS")
  PROVE  IInv'
<1> USE DEF IInv
<1>1. CASE RemoveSegment
  <2>1. /\ pcB = "rm_shm" /\ pcB' = "rm_PS" /\ key' = [key EXCEPT !.shm = 0]
        /\ UNCHANGED <<server, own, stop>>
    BY <1>1 DEF RemoveSegment, At, After
  <2>2. Owned'
    BY <2>1 DEF Owned, Semaphore, NotMade, Place, Handling
  <2>3. Removed'
    BY <2>1 DEF Removed, Owned
  <2> QED BY <2>2, <2>3
<1>2. CASE Remove("PS", "rm_PS")
  <2>1. /\ pcB = "rm_PS" /\ pcB' = "rm_CS" /\ UNCHANGED <<server, own, stop>>
        /\ key' = IF Valid("PS", own["PS"]) THEN [key EXCEPT !["PS"] = 0] ELSE key
    BY <1>2 DEF Remove, At, After
  <2>2. Owned'
    BY <2>1 DEF Owned, Semaphore, NotMade, Place, Handling
  <2>3. key'.shm = 0 /\ key'["PS"] # server
    BY <2>1 DEF Removed, Owned, Semaphore, Valid
  <2>4. Removed'
    BY <2>1, <2>3 DEF Removed
  <2> QED BY <2>2, <2>4
<1>3. CASE Remove("CS", "rm_CS")
  <2>1. /\ pcB = "rm_CS" /\ pcB' = "exit" /\ UNCHANGED <<server, own, stop>>
        /\ key' = IF Valid("CS", own["CS"]) THEN [key EXCEPT !["CS"] = 0] ELSE key
    BY <1>3 DEF Remove, At, After
  <2>2. Owned'
    BY <2>1 DEF Owned, Semaphore, NotMade, Place, Handling
  <2>3. key'.shm = 0 /\ key'["PS"] # server /\ key'["CS"] # server
    BY <2>1 DEF Removed, Owned, Semaphore, Valid
  <2>4. Removed'
    BY <2>1, <2>3 DEF Removed
  <2> QED BY <2>2, <2>4
<1> QED BY <1>1, <1>2, <1>3

LEMMA EndKeepsIInv == ASSUME IInv, HandlerExit \/ Die PROVE IInv'
<1> USE DEF IInv
<1>1. pcB' = "off" /\ UNCHANGED <<key, server, own>>
  BY DEF HandlerExit, Die
<1>2. Owned'
  BY <1>1 DEF Owned, NotMade, Place
<1>3. Removed'
  BY <1>1 DEF HandlerExit, Die, Removed
<1> QED BY <1>2, <1>3

LEMMA StepKeepsIInv == IInv /\ [Next]_vars => IInv'
<1> SUFFICES ASSUME IInv, [Next]_vars PROVE IInv'
  OBVIOUS
<1>1. CASE Start
  BY <1>1, StartKeepsIInv
<1>2. CASE Create("PS", "new_PS") \/ Create("CS", "new_CS")
  BY <1>2, CreateKeepsIInv
<1>3. CASE \/ SetValue("CS", "set_CS", 0) \/ SetValue("PS", "set_PS", QUEUE)
           \/ Attach \/ Register
           \/ ServerP \/ ServerRead \/ ServerV \/ Interrupt
  BY <1>3, LoopKeepsIInv
     DEF SetValue, Attach, Register, ServerP, ServerRead, ServerV, Interrupt, At, After,
         Booting, Serving
<1>4. CASE RemoveSegment \/ Remove("PS", "rm_PS") \/ Remove("CS", "rm_CS")
  BY <1>4, HandlerKeepsIInv
<1>5. CASE HandlerExit \/ Die
  BY <1>5, EndKeepsIInv
<1>6. CASE LookUpSegment \/ ClientStep
  BY <1>6, OthersKeepIInv
     DEF LookUpSegment, ClientStep, LookUp, ClientAttach, Check, ClientP, ClientWrite,
         ClientV
<1>7. CASE UNCHANGED vars
  BY <1>7, OthersKeepIInv DEF vars
<1> QED BY <1>1, <1>2, <1>3, <1>4, <1>5, <1>6, <1>7 DEF Next, ServerStep

LEMMA Invariance == Spec => []IInv
BY InitIInv, StepKeepsIInv, PTL DEF Spec

(* A server that ends in its handler leaves no object of its own behind.    *)
THEOREM HandlerAlwaysCleansUp == Spec => []HandlerCleansUp
<1>1. IInv => HandlerCleansUp
  BY DEF IInv, Removed, HandlerCleansUp
<1> QED BY <1>1, Invariance, PTL
----------------------------------------------------------------------------
(* The requests.  On top of the ownership of the objects comes what the     *)
(* client knows of them, and how many requests stand where.                 *)

Early == {"off", "get_PS", "get_CS"}
Late == {"attach", "check", "P", "write", "V", "exited"}

(* The ids that the client got are of servers started by then, and nothing  *)
(* has been written to the segments of later ones.                          *)
Found ==
  /\ server \in 0..MaxServers
  /\ DOMAIN sem = Semaphore /\ \A s \in Semaphore : sem[s] \in 0..(QUEUE + 1)
  /\ DOMAIN unread = Server /\ \A g \in Server : unread[g] \in Int
  /\ DOMAIN got = {"shm", "PS", "CS"}
  /\ \A object \in {"shm", "PS", "CS"} : got[object] \in 0..server
  /\ pcA \in Early \cup Late
  /\ \A g \in Server : g > server => unread[g] = 0

(* A semaphore that carries the server's number is the one it created.      *)
Linked ==
  \A s \in Semaphore :
    /\ pcB \in Booting \cup Serving /\ own[s] = server => key[s] = server
    /\ pcB # "off" /\ got[s] = server => own[s] = server
    /\ pcB # "off" /\ NotMade(s) => own[s] # server

(* The server created its semaphores, as far as it has come, and the client *)
(* has found, or may still find, all of its objects.                        *)
Tracked ==
  /\ pcB \in Booting \cup Serving
  /\ \A s \in Semaphore : own[s] = server \/ NotMade(s)
  /\ pcA \in Early \/ \A object \in {"shm", "PS", "CS"} : got[object] = server

Unset == {"new_PS", "new_CS", "set_CS", "set_PS"}

One(here, places) == IF here \in places THEN 1 ELSE 0

NothingYet ==
  /\ unread[server] = 0 /\ pcA \notin {"write", "V"}
  /\ \A s \in Semaphore : ~ NotMade(s) => sem[s] = 0

SlotsAccounted ==
  /\ unread[server] = sem["CS"] + One(pcB, {"read"}) + One(pcA, {"V"})
  /\ sem["PS"] + sem["CS"] + One(pcA, {"write", "V"}) + One(pcB, {"read", "V"})
       = QUEUE

Accounted == Tracked => IF pcB \in Unset THEN NothingYet ELSE SlotsAccounted

JInv == IInv /\ Found /\ Linked /\ Accounted

LEMMA InitJInv == Init => JInv
<1> SUFFICES ASSUME Init PROVE JInv
  OBVIOUS
<1>1. Found
  BY LifecycleAssumption DEF Init, Found, Semaphore, Server, Early
<1>2. Linked /\ Accounted
  BY DEF Init, Linked, Accounted, Tracked, Semaphore, Booting, Serving
<1> QED BY <1>1, <1>2, InitIInv DEF JInv

LEMMA StartKeepsJInv == ASSUME JInv, Start PROVE JInv'
<1> USE DEF JInv
<1>1. /\ pcB = "off" /\ server' = server + 1 /\ server' \in Server
      /\ own' = [PS |-> 0, CS |-> 0] /\ UNCHANGED <<sem, unread, got, pcA>>
      /\ server' # 0 /\ pcB' \in {"off", "new_PS"}
  BY LifecycleAssumption DEF Start, client, Found, Server
<1>2. Found'
  BY <1>1 DEF Found, Server
<1>3. Linked'
  BY <1>1 DEF Linked, Found, Semaphore
<1>4. ASSUME Tracked' PROVE NothingYet'
  <2>1. pcB' = "new_PS" /\ pcA \in Early
    BY <1>1, <1>4 DEF Tracked, Booting, Serving, Found
  <2>2. unread[server'] = 0
    BY <1>1 DEF Found
  <2> QED BY <1>1, <2>1, <2>2 DEF NothingYet, NotMade, Semaphore, Early
<1>5. Accounted'
  BY <1>1, <1>4 DEF Accounted, Tracked, Booting, Serving, Unset
<1>6. IInv'
  BY StartKeepsIInv
<1> QED BY <1>2, <1>3, <1>5, <1>6

LEMMA CreateKeepsJInv ==
  ASSUME JInv, NEW s \in Semaphore, NEW here, Create(s, here),
         <<s, here>> \in {<<"PS", "new_PS">>, <<"CS", "new_CS">>}
  PROVE  Found' /\ Linked' /\ Accounted'
<1> USE DEF JInv
<1>1. /\ pcB = here /\ pcB' = (IF s = "PS" THEN "new_CS" ELSE "set_CS")
      /\ UNCHANGED <<server, unread, got, pcA>>
  BY DEF Create, At, After, client
<1>2. CASE /\ key[s] = 0 /\ key' = [key EXCEPT ![s] = server]
           /\ sem' = [sem EXCEPT ![s] = 0] /\ own' = [own EXCEPT ![s] = server]
  <2>1. Found'
    BY <1>1, <1>2, LifecycleAssumption DEF Found
  <2>2. Linked'
    BY <1>1, <1>2 DEF Linked, IInv, Owned, Semaphore, Booting, NotMade
  <2>3. Tracked' => Tracked /\ NothingYet
    BY <1>1, <1>2 DEF Tracked, Accounted, Semaphore, NotMade, Booting, Unset
  <2>4. NothingYet => NothingYet'
    BY <1>1, <1>2 DEF NothingYet, Semaphore, NotMade, Found
  <2>5. Accounted'
    BY <1>1, <2>3, <2>4 DEF Accounted, Unset
  <2> QED BY <2>1, <2>2, <2>5
<1>3. CASE key[s] # 0 /\ UNCHANGED <<key, sem, own>>
  <2>1. Found'
    BY <1>1, <1>3 DEF Found
  <2>2. Linked'
    BY <1>1, <1>3 DEF Linked, Semaphore, Booting, NotMade
  <2>3. ~ Tracked'
    <3>1. pcB # "off" /\ NotMade(s) /\ own[s] # server
      BY <1>1 DEF Linked, NotMade
    <3>2. ~ NotMade(s)'
      BY <1>1 DEF NotMade
    <3> QED BY <1>1, <1>3, <3>1, <3>2 DEF Tracked
  <2> QED BY <2>1, <2>2, <2>3 DEF Accounted
<1> QED BY <1>2, <1>3 DEF Create

LEMMA SetValueKeepsJInv ==
  ASSUME JInv, NEW s \in Semaphore, NEW here, NEW value, SetValue(s, here, value),
         <<s, here, value>> \in {<<"CS", "set_CS", 0>>, <<"PS", "set_PS", QUEUE>>}
  PROVE  Found' /\ Linked' /\ Accounted'
<1> USE DEF JInv
<1>1. /\ pcB = here /\ pcB' = (IF s = "CS" THEN "set_PS" ELSE "attach")
      /\ UNCHANGED <<key, own, server, unread, got, pcA>>
      /\ sem' = IF Valid(s, own[s]) THEN [sem EXCEPT ![s] = value] ELSE sem
  BY DEF SetValue, At, After, client
<1>2. Found'
  BY <1>1, LifecycleAssumption DEF Found
<1>3. Linked'
  BY <1>1 DEF Linked, Semaphore, Booting, NotMade
<1>4. ASSUME Tracked' PROVE IF pcB' \in Unset THEN NothingYet' ELSE SlotsAccounted'
  <2>1. Tracked /\ NothingYet
    BY <1>1, <1>4 DEF Tracked, Accounted, NotMade, Booting, Unset
  <2>2. Valid(s, own[s])
    BY <1>1, <2>1 DEF Tracked, NotMade, Linked, Valid, IInv, Owned
  <2>3. CASE s = "CS"
    BY <1>1, <2>1, <2>2, <2>3 DEF NothingYet, Semaphore, NotMade, Found, Unset
  <2>4. CASE s = "PS"
    <3>1. sem' = [sem EXCEPT !["PS"] = QUEUE] /\ sem["CS"] = 0
      BY <1>1, <2>1, <2>2, <2>4 DEF NothingYet, NotMade, Semaphore
    <3>2. sem'["PS"] = QUEUE /\ sem'["CS"] = 0
      BY <3>1 DEF Found, Semaphore
    <3> QED BY <1>1, <2>1, <2>4, <3>2, LifecycleAssumption
            DEF NothingYet, SlotsAccounted, One, Unset
  <2> QED BY <2>3, <2>4 DEF Semaphore
<1> QED BY <1>2, <1>3, <1>4 DEF Accounted

(* The steps of the server from the store of its pid on.                    *)
LEMMA ServeKeepsJInv ==
  ASSUME JInv, Attach \/ Register \/ ServerP \/ ServerRead \/ ServerV
  PROVE  Found' /\ Linked' /\ Accounted'
<1> USE DEF JInv
<1>1. /\ UNCHANGED <<key, own, server, got, pcA>>
      /\ pcB \notin Unset \cup {"off"} /\ pcB' \notin Unset \cup {"off"}
      /\ pcB \in Booting \cup Serving /\ pcB' \in Booting \cup Serving
  BY DEF Attach, Register, ServerP, ServerRead, ServerV, At, After, client, Unset,
         Booting, Serving
<1>2. server \in Server /\ unread[server] \in Int
  BY <1>1 DEF Found, IInv, Owned, Server
<1>3. Linked'
  BY <1>1 DEF Linked, NotMade, Unset
<1>4. Tracked' => Tracked /\ SlotsAccounted
  BY <1>1 DEF Tracked, Accounted, NotMade, Unset
<1>5. Tracked => \A s \in Semaphore : own[s] # 0 /\ Valid(s, own[s])
  BY <1>1 DEF Tracked, Linked, Valid, IInv, Owned, NotMade, Unset
<1>6. CASE Attach \/ Register
  <2>1. UNCHANGED <<sem, unread>> /\ pcB \in {"attach", "register"}
        /\ pcB' \in {"register", "P"}
    BY <1>6 DEF Attach, Register, At, After
  <2>2. Found'
    BY <1>1, <2>1 DEF Found
  <2>3. SlotsAccounted => SlotsAccounted'
    BY <1>1, <2>1 DEF SlotsAccounted, One
  <2> QED BY <1>1, <1>3, <1>4, <2>2, <2>3 DEF Accounted
<1>7. CASE ServerP
  <2>1. pcB = "P" /\ pcB' = "read" /\ UNCHANGED unread /\ P("CS", own.CS)
    BY <1>7 DEF ServerP, At, After
  <2>2. \/ UNCHANGED sem /\ ~ Valid("CS", own.CS)
        \/ sem["CS"] > 0 /\ sem' = [sem EXCEPT !["CS"] = @ - 1]
    BY <2>1 DEF P
  <2>3. Found'
    BY <1>1, <2>1, <2>2, LifecycleAssumption DEF Found, Semaphore
  <2>4. ASSUME Tracked' PROVE SlotsAccounted'
    <3>1. sem'["CS"] = sem["CS"] - 1 /\ sem'["PS"] = sem["PS"]
      BY <1>4, <1>5, <2>2, <2>4 DEF Semaphore, Found
    <3>2. sem["CS"] \in Nat /\ sem["PS"] \in Nat
      BY DEF Found, Semaphore
    <3> QED BY <1>1, <1>4, <2>1, <2>4, <3>1, <3>2 DEF SlotsAccounted, One
  <2> QED BY <1>1, <1>3, <2>3, <2>4 DEF Accounted
<1>8. CASE ServerRead
  <2>1. /\ pcB = "read" /\ pcB' = "V" /\ UNCHANGED sem
        /\ unread' = [unread EXCEPT ![server] = Bounded(@ - 1)]
    BY <1>8 DEF ServerRead, At, After
  <2>2. unread'[server] = Bounded(unread[server] - 1)
        /\ \A g \in Server \ {server} : unread'[g] = unread[g]
        /\ DOMAIN unread' = Server
    BY <1>2, <2>1 DEF Found
  <2>3. Bounded(unread[server] - 1) \in Int
    BY <1>2, LifecycleAssumption DEF Bounded
  <2>4. Found'
    BY <1>1, <1>2, <2>1, <2>2, <2>3 DEF Found, Server
  <2>5. ASSUME Tracked' PROVE SlotsAccounted'
    <3>1. sem["CS"] \in Nat /\ sem["PS"] \in Nat
      BY DEF Found, Semaphore
    <3>2. /\ unread[server] = sem["CS"] + 1 + One(pcA, {"V"})
          /\ sem["PS"] + sem["CS"] + One(pcA, {"write", "V"}) + 1 = QUEUE
      BY <1>4, <2>1, <2>5 DEF SlotsAccounted, One
    <3>3. Bounded(unread[server] - 1) = unread[server] - 1
      BY <3>1, <3>2, LifecycleAssumption DEF Bounded, One
    <3> QED BY <1>1, <2>1, <2>2, <3>1, <3>2, <3>3 DEF SlotsAccounted, One
  <2> QED BY <1>1, <1>3, <2>4, <2>5 DEF Accounted
<1>9. CASE ServerV
  <2>1. pcB = "V" /\ pcB' = "P" /\ UNCHANGED unread /\ V("PS", own.PS)
    BY <1>9 DEF ServerV, At, After
  <2>2. sem' = IF Valid("PS", own.PS) THEN [sem EXCEPT !["PS"] = Bounded(@ + 1)] ELSE sem
    BY <2>1 DEF V
  <2>3. \A n \in 0..(QUEUE + 1) : Bounded(n + 1) \in 0..(QUEUE + 1)
    BY LifecycleAssumption DEF Bounded
  <2>4. Found'
    BY <1>1, <2>1, <2>2, <2>3 DEF Found, Semaphore
  <2>5. ASSUME Tracked' PROVE SlotsAccounted'
    <3>1. sem["CS"] \in Nat /\ sem["PS"] \in Nat
      BY DEF Found, Semaphore
    <3>2. sem'["PS"] = Bounded(sem["PS"] + 1) /\ sem'["CS"] = sem["CS"]
      BY <1>4, <1>5, <2>2, <2>5 DEF Semaphore, Found
    <3>3. sem["PS"] + sem["CS"] + One(pcA, {"write", "V"}) + 1 = QUEUE
      BY <1>4, <2>1, <2>5 DEF SlotsAccounted, One
    <3>4. Bounded(sem["PS"] + 1) = sem["PS"] + 1
      BY <3>1, <3>3, LifecycleAssumption DEF Bounded, One
    <3> QED BY <1>1, <1>4, <2>1, <2>5, <3>1, <3>2, <3>3, <3>4 DEF SlotsAccounted, One
  <2> QED BY <1>1, <1>3, <2>4, <2>5 DEF Accounted
<1> QED BY <1>6, <1>7, <1>8, <1>9

(* A server that has been stopped is not tracked.                           *)
LEMMA StopKeepsJInv ==
  ASSUME JInv,
         \/ Interrupt \/ RemoveSegment \/ Remove("PS", "rm_PS") \/ Remove("CS", "rm_CS")
         \/ HandlerExit \/ Die
  PROVE  Found' /\ Linked' /\ Accounted'
<1> USE DEF JInv
<1>1. /\ UNCHANGED <<own, server, unread, got, pcA, sem>>
      /\ pcB' \in {"rm_shm", "rm_PS", "rm_CS", "exit", "off"}
      /\ pcB = "off" => pcB' = "off"
  <2>1. CASE Interrupt \/ HandlerExit \/ Die
    BY <2>1 DEF Interrupt, HandlerExit, Die, client, Serving
  <2>2. CASE RemoveSegment
    BY <2>2 DEF RemoveSegment, At, After, client
  <2>3. CASE Remove("PS", "rm_PS") \/ Remove("CS", "rm_CS")
    BY <2>3 DEF Remove, At, After, client
  <2> QED BY <2>1, <2>2, <2>3
<1>2. Found'
  BY <1>1 DEF Found
<1>3. pcB' \notin Booting \cup Serving
  BY <1>1 DEF Booting, Serving
<1>4. Linked'
  BY <1>1, <1>3 DEF Linked, NotMade
<1>5. Accounted'
  BY <1>3 DEF Accounted, Tracked
<1> QED BY <1>2, <1>4, <1>5

(* The client's steps before it has all ids, and those that change no count.*)
LEMMA LookKeepsJInv ==
  ASSUME JInv,
         \/ LookUpSegment
         \/ LookUp("PS", "get_PS", "get_CS") \/ LookUp("CS", "get_CS", "attach")
         \/ ClientAttach \/ Check
  PROVE  Found' /\ Linked' /\ Accounted'
<1> USE DEF JInv
<1>1. /\ UNCHANGED <<key, sem, unread, server, pcB, own>>
      /\ pcA \in {"off", "get_PS", "get_CS", "attach", "check"}
      /\ pcA' \in {"get_PS", "get_CS", "attach", "check", "P", "exited"}
  BY DEF LookUpSegment, LookUp, ClientAttach, Check, ClientAt
<1>2. \A object \in {"shm", "PS", "CS"} : got'[object] \in {got[object], key[object]}
      /\ DOMAIN got' = {"shm", "PS", "CS"}
  BY DEF LookUpSegment, LookUp, ClientAttach, Check, Found
<1>3. Found'
  BY <1>1, <1>2 DEF Found, IInv, Owned, Early, Late
<1>4. Linked'
  BY <1>1, <1>2 DEF Linked, IInv, Owned, Semaphore, NotMade
<1>5. Tracked' => Tracked
  <2>1. CASE pcA \in Early
    BY <1>1, <2>1 DEF Tracked, NotMade
  <2>2. CASE pcA \notin Early
    BY <1>1, <2>2 DEF Tracked, NotMade, Early, ClientAttach, Check, LookUpSegment,
                      LookUp, ClientAt
  <2> QED BY <2>1, <2>2
<1>6. NothingYet => NothingYet'
  BY <1>1 DEF NothingYet, NotMade
<1>7. SlotsAccounted => SlotsAccounted'
  BY <1>1 DEF SlotsAccounted, One
<1> QED BY <1>1, <1>3, <1>4, <1>5, <1>6, <1>7 DEF Accounted

(* The client's loop.                                                       *)
LEMMA RequestKeepsJInv ==
  ASSUME JInv, ClientP \/ ClientWrite \/ ClientV
  PROVE  Found' /\ Linked' /\ Accounted'
<1> USE DEF JInv
<1>1. UNCHANGED <<key, server, pcB, own, got>> /\ pcA \in Late \ Early
      /\ pcA' \in {"write", "V", "check"}
  BY DEF ClientP, ClientWrite, ClientV, ClientAt, Late, Early
<1>2. Linked'
  BY <1>1 DEF Linked, NotMade
<1>3. Tracked' => Tracked /\ \A object \in {"shm", "PS", "CS"} : got[object] = server
  BY <1>1 DEF Tracked, NotMade, Early
<1>4. ASSUME Tracked', NEW s \in Semaphore
      PROVE  Valid(s, got[s]) /\ ~ NotMade(s)
  <2>1. pcB # "off" /\ pcB \in Booting \cup Serving /\ got[s] = server
    BY <1>3, <1>4 DEF Tracked, Booting, Serving, Semaphore
  <2>2. own[s] = server /\ key[s] = server
    BY <2>1 DEF Linked
  <2> QED BY <2>1, <2>2 DEF Linked, Valid, IInv, Owned
<1>5. sem["CS"] \in Nat /\ sem["PS"] \in Nat
  BY DEF Found, Semaphore
<1>6. CASE ClientP
  <2>1. pcA = "P" /\ pcA' = "write" /\ UNCHANGED unread /\ P("PS", got.PS)
    BY <1>6 DEF ClientP, ClientAt
  <2>2. \/ UNCHANGED sem /\ ~ Valid("PS", got.PS)
        \/ sem["PS"] > 0 /\ sem' = [sem EXCEPT !["PS"] = @ - 1]
    BY <2>1 DEF P
  <2>3. Found'
    BY <1>1, <2>1, <2>2, LifecycleAssumption DEF Found, Semaphore, Late
  <2>4. ASSUME Tracked' PROVE pcB \notin Unset /\ SlotsAccounted'
    <3>1. /\ sem["PS"] > 0 /\ sem'["PS"] = sem["PS"] - 1 /\ sem'["CS"] = sem["CS"]
      BY <1>4, <2>2, <2>4 DEF Semaphore, Found
    <3>2. pcB \notin Unset
      BY <1>3, <1>4, <2>4, <3>1 DEF Accounted, NothingYet, Semaphore
    <3>3. SlotsAccounted
      BY <1>3, <2>4, <3>2 DEF Accounted
    <3> QED BY <1>1, <1>5, <2>1, <3>1, <3>2, <3>3 DEF SlotsAccounted, One
  <2> QED BY <1>1, <1>2, <2>3, <2>4 DEF Accounted
<1>7. CASE ClientWrite
  <2>1. /\ pcA = "write" /\ pcA' = "V" /\ UNCHANGED sem
        /\ unread' = [unread EXCEPT ![got.shm] = Bounded(@ + 1)]
    BY <1>7 DEF ClientWrite, ClientAt
  <2>2. \A g \in Server : Bounded(unread[g] + 1) \in Int
    BY LifecycleAssumption DEF Bounded, Found
  <2>3. /\ DOMAIN unread' = Server
        /\ \A g \in Server : unread'[g] = IF g = got.shm THEN Bounded(unread[g] + 1)
                                         ELSE unread[g]
    BY <2>1 DEF Found
  <2>4. Found'
    BY <1>1, <2>1, <2>2, <2>3 DEF Found, Server, Late
  <2>5. ASSUME Tracked' PROVE pcB \notin Unset /\ SlotsAccounted'
    <3>1. pcB \notin Unset /\ SlotsAccounted
      BY <1>3, <2>1, <2>5 DEF Accounted, NothingYet
    <3>2. /\ unread[server] = sem["CS"] + One(pcB, {"read"})
          /\ sem["PS"] + sem["CS"] + 1 + One(pcB, {"read", "V"}) = QUEUE
      BY <1>5, <2>1, <3>1 DEF SlotsAccounted, One
    <3>3. Bounded(unread[server] + 1) = unread[server] + 1
      BY <1>5, <3>2, LifecycleAssumption DEF Bounded, One
    <3>4. unread'[server] = unread[server] + 1
      BY <1>3, <2>3, <2>5, <3>3 DEF Tracked, IInv, Owned, Found, Server, Booting, Serving
    <3> QED BY <1>1, <1>5, <2>1, <3>1, <3>2, <3>4 DEF SlotsAccounted, One
  <2> QED BY <1>1, <1>2, <2>4, <2>5 DEF Accounted
<1>8. CASE ClientV
  <2>1. pcA = "V" /\ pcA' = "check" /\ UNCHANGED unread /\ V("CS", got.CS)
    BY <1>8 DEF ClientV, ClientAt
  <2>2. sem' = IF Valid("CS", got.CS) THEN [sem EXCEPT !["CS"] = Bounded(@ + 1)] ELSE sem
    BY <2>1 DEF V
  <2>3. \A n \in 0..(QUEUE + 1) : Bounded(n + 1) \in 0..(QUEUE + 1)
    BY LifecycleAssumption DEF Bounded
  <2>4. Found'
    BY <1>1, <2>1, <2>2, <2>3 DEF Found, Semaphore, Late
  <2>5. ASSUME Tracked' PROVE pcB \notin Unset /\ SlotsAccounted'
    <3>1. pcB \notin Unset /\ SlotsAccounted
      BY <1>3, <2>1, <2>5 DEF Accounted, NothingYet
    <3>2. sem'["CS"] = Bounded(sem["CS"] + 1) /\ sem'["PS"] = sem["PS"]
      BY <1>4, <2>2, <2>5 DEF Semaphore, Found
    <3>3. /\ unread[server] = sem["CS"] + One(pcB, {"read"}) + 1
          /\ sem["PS"] + sem["CS"] + 1 + One(pcB, {"read", "V"}) = QUEUE
      BY <2>1, <3>1 DEF SlotsAccounted, One
    <3>4. Bounded(sem["CS"] + 1) = sem["CS"] + 1
      BY <1>5, <3>3, LifecycleAssumption DEF Bounded, One
    <3> QED BY <1>1, <1>5, <2>1, <3>1, <3>2, <3>3, <3>4 DEF SlotsAccounted, One
  <2> QED BY <1>1, <1>2, <2>4, <2>5 DEF Accounted
<1> QED BY <1>6, <1>7, <1>8

LEMMA StepKeepsJInv == JInv /\ [Next]_vars => JInv'
<1> SUFFICES ASSUME JInv, [Next]_vars PROVE JInv'
  OBVIOUS
<1>1. IInv'
  BY StepKeepsIInv DEF JInv
<1>2. CASE Start
  BY <1>2, StartKeepsJInv
<1>3. CASE Create("PS", "new_PS")
  BY <1>1, <1>3, CreateKeepsJInv DEF JInv, Semaphore
<1>4. CASE Create("CS", "new_CS")
  BY <1>1, <1>4, CreateKeepsJInv DEF JInv, Semaphore
<1>5. CASE SetValue("CS", "set_CS", 0)
  BY <1>1, <1>5, SetValueKeepsJInv DEF JInv, Semaphore
<1>6. CASE SetValue("PS", "set_PS", QUEUE)
  BY <1>1, <1>6, SetValueKeepsJInv DEF JInv, Semaphore
<1>7. CASE Attach \/ Register \/ ServerP \/ ServerRead \/ ServerV
  BY <1>1, <1>7, ServeKeepsJInv DEF JInv
<1>8. CASE \/ Interrupt \/ RemoveSegment \/ Remove("PS", "rm_PS")
           \/ Remove("CS", "rm_CS") \/ HandlerExit \/ Die
  BY <1>1, <1>8, StopKeepsJInv DEF JInv
<1>9. CASE \/ LookUpSegment
           \/ LookUp("PS", "get_PS", "get_CS") \/ LookUp("CS", "get_CS", "attach")
           \/ ClientAttach \/ Check
  BY <1>1, <1>9, LookKeepsJInv DEF JInv
<1>10. CASE ClientP \/ ClientWrite \/ ClientV
  BY <1>1, <1>10, RequestKeepsJInv DEF JInv
<1>11. CASE UNCHANGED vars
  BY <1>1, <1>11 DEF vars, client, JInv, Found, Linked, Accounted, Tracked, NotMade,
                     NothingYet, SlotsAccounted
<1> QED BY <1>2, <1>3, <1>4, <1>5, <1>6, <1>7, <1>8, <1>9, <1>10, <1>11
        DEF Next, ServerStep, ClientStep

(* A client that has found the server's three objects, at whatever point of *)
(* its start, loses no request, and the server reads none that was not made.*)
THEOREM RequestsAlwaysAccounted == Spec => []RequestsAccounted
<1>1. ASSUME JInv, Paired, pcB \in Booting \cup Serving
      PROVE  /\ unread[server] = sem.CS + (IF pcB = "read" THEN 1 ELSE 0)
                                       + (IF pcA = "V" THEN 1 ELSE 0)
             /\ unread[server] \in 0..QUEUE
  <2>1. Tracked /\ \A s \in Semaphore : ~ NotMade(s)
    BY <1>1 DEF Paired, Tracked, JInv, Linked, Semaphore
  <2>2. sem["CS"] \in Nat /\ sem["PS"] \in Nat
    BY <1>1 DEF JInv, Found, Semaphore
  <2>3. CASE pcB \in Unset
    BY <1>1, <2>1, <2>2, <2>3, LifecycleAssumption
       DEF JInv, Accounted, NothingYet, Unset, Semaphore
  <2>4. CASE pcB \notin Unset
    BY <1>1, <2>1, <2>2, <2>4, LifecycleAssumption DEF JInv, Accounted, SlotsAccounted, One
  <2> QED BY <2>3, <2>4
<1>2. JInv => RequestsAccounted
  BY <1>1 DEF RequestsAccounted
<1>3. Init => JInv
  BY InitJInv
<1> QED BY <1>2, <1>3, StepKeepsJInv, PTL DEF Spec
=============================================================================
