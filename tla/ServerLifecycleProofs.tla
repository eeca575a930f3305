------------------------ MODULE ServerLifecycleProofs ------------------------
(***************************************************************************)
(* Proofs about ServerLifecycle for any services, tasks and bounds: one    *)
(* start() at most creates consumer groups, so that no service gets a      *)
(* second pair of loops, and a stop within its grace periods leaves no     *)
(* loop at work, whatever overlaps it.                                     *)
(***************************************************************************)
EXTENDS ServerLifecycle, TLAPS

-----------------------------------------------------------------------------
(* The inductive invariant.                                                *)

At(where) == {c \in Caller : call[c].at = where}

\* registerService of the transport gives every service one place in the map.
PlaceInv ==
  \A i, j \in 1..Len(dispatchers) : dispatchers[i] = dispatchers[j] => i = j

\* Nobody has created a group.
Untouched == At("create") = {} /\ \A s \in Service : spawned[s] = 0

\* One task creates the groups, in the order of the map; what it has not come to
\* has no loops.
CreateInv ==
  /\ \A c, d \in At("create") : c = d
  /\ \A c \in At("create") :
       /\ call[c].step \in 1..Len(dispatchers)
       /\ \A j \in call[c].step..Len(dispatchers) : spawned[dispatchers[j]] = 0
  /\ \A s \in Service : spawned[s] > 0 => Contains(dispatchers, s)
  /\ \A l \in Loop : spawned[l[1]] = 0 => loop[l] = "none"

\* The transport is aborted before it waits for its loops, and never again started.
AbortInv ==
  /\ abort => transport # "idle"
  /\ \A c \in At("settle") \cup At("quit") : abort
  /\ transport # "started" /\ ~abort => Untouched

\* Whoever waited for the loops found them at rest, and they stay there.
RestInv == At("quit") # {} /\ ~expired => LoopsAtRest

Safe ==
  /\ PlaceInv /\ CreateInv /\ OneLoopPerService
  /\ AbortInv /\ RestInv /\ StopIsDrained

IInv == TypeOK /\ Safe

USE DEF coreVars, transportVars, loopVars, appVars, loopFrame

-----------------------------------------------------------------------------
(* Tasks and loops.                                                        *)

Where == {"none", "register", "create", "opened", "drain", "settle", "quit", "closed"}

\* A task moves to its next await, or returns; the other tasks stay where they are.
LEMMA CallMoves ==
  ASSUME TypeOK, NEW c \in Caller, NEW w \in Where, NEW i \in Nat,
         call' = [call EXCEPT ![c] = [at |-> w, step |-> i]]
  PROVE  /\ call' \in [Caller -> [at : Where, step : Nat]]
         /\ call'[c].at = w /\ call'[c].step = i
         /\ \A d \in Caller \ {c} : call'[d] = call[d]
BY DEF TypeOK, Where

\* A loop that is at the head of its while ends if the transport is aborted.
LEMMA IterateType ==
  ASSUME TypeOK, NEW S \in SUBSET Loop, \A l \in S : loop[l] # "sleep", Iterate(S)
  PROVE  /\ loop' \in [Loop -> {"none", "poll", "sleep", "handle", "ack", "exited"}]
         /\ \A l \in Loop \ S : loop'[l] = loop[l]
         /\ \A l \in S : loop'[l] \in {"poll", "sleep", "exited"}
         /\ abort => \A l \in S : loop'[l] = "exited"
         /\ wakers' \subseteq {l \in Loop : loop'[l] = "sleep"}
BY DEF TypeOK, Iterate

LEMMA OneIterates ==
  ASSUME TypeOK, NEW l \in Loop, loop[l] # "sleep", Iterate({l})
  PROVE  /\ loop' \in [Loop -> {"none", "poll", "sleep", "handle", "ack", "exited"}]
         /\ \A k \in Loop \ {l} : loop'[k] = loop[k]
         /\ loop'[l] \in {"poll", "sleep", "exited"}
         /\ wakers' \subseteq {k \in Loop : loop'[k] = "sleep"}
<1>1. {l} \in SUBSET Loop /\ \A k \in {l} : loop[k] # "sleep"
  OBVIOUS
<1>2. /\ loop' \in [Loop -> {"none", "poll", "sleep", "handle", "ack", "exited"}]
      /\ \A k \in Loop \ {l} : loop'[k] = loop[k]
      /\ \A k \in {l} : loop'[k] \in {"poll", "sleep", "exited"}
      /\ wakers' \subseteq {k \in Loop : loop'[k] = "sleep"}
  BY <1>1, IterateType
<1>3. QED
  BY <1>2

LEMMA InitInv == Init => IInv
<1> SUFFICES ASSUME Init PROVE IInv
  OBVIOUS
<1>1. TypeOK
  <2>1. <<>> \in Seq(Service)
    OBVIOUS
  <2>2. abort \in BOOLEAN /\ stopCalled \in BOOLEAN /\ expired \in BOOLEAN
    BY DEF Init
  <2>3. calls \in 0..MaxCalls /\ faults \in 0..MaxFaults /\ left \in [Loop -> 0..(BatchMax - 1)]
    BY LifecycleAssumption DEF Init
  <2>4. QED
    BY <2>1, <2>2, <2>3 DEF Init, TypeOK
<1>2. /\ \A w \in Where \ {"none"} : At(w) = {}
      /\ LoopsAtRest
  BY DEF Init, At, LoopsAtRest
<1>3. PlaceInv /\ CreateInv /\ OneLoopPerService
  BY <1>2 DEF Init, PlaceInv, CreateInv, OneLoopPerService, Where
<1>4. AbortInv /\ RestInv /\ StopIsDrained
  BY <1>2 DEF Init, AbortInv, RestInv, StopIsDrained, Untouched, Where
<1>5. QED
  BY <1>1, <1>3, <1>4 DEF IInv, Safe

-----------------------------------------------------------------------------
(* Type correctness.                                                       *)

\* A loop's step.
LoopMoves(l) ==
  \/ SleepElapses(l) \/ HandlerReturns(l) \/ EntryFails(l) \/ LoopStep(l)

LEMMA LoopMovesType ==
  ASSUME TypeOK, NEW l \in Loop, LoopMoves(l)
  PROVE  TypeOK'
<1> USE DEF TypeOK
<1>1. CASE SleepElapses(l) \/ SleepEnds(l) \/ HandlerReturns(l)
  BY <1>1 DEF SleepElapses, SleepEnds, HandlerReturns
<1>2. CASE Obtain(l)
  <2>1. PICK k \in 1..BatchMax : left' = [left EXCEPT ![l] = k - 1]
    BY <1>2 DEF Obtain
  <2>2. k - 1 \in 0..(BatchMax - 1)
    BY LifecycleAssumption
  <2>3. QED
    BY <1>2, <2>1, <2>2 DEF Obtain
<1>3. CASE ObtainNothing(l)
  <2>1. Iterate({l}) /\ left' = left /\ loop[l] = "poll"
    BY <1>3 DEF ObtainNothing
  <2>2. \A k \in Loop : left'[k] > 0 => loop'[k] \in {"handle", "ack"}
    BY <2>1, OneIterates
  <2>3. QED
    BY <1>3, <2>1, <2>2, OneIterates DEF ObtainNothing
<1>4. CASE EntryDone(l)
  <2>1. CASE left[l] > 0
    <3>1. left' = [left EXCEPT ![l] = @ - 1] /\ loop' = [loop EXCEPT ![l] = "handle"]
      BY <1>4, <2>1 DEF EntryDone
    <3>2. left' \in [Loop -> 0..(BatchMax - 1)]
      BY <2>1, <3>1, LifecycleAssumption
    <3>3. \A k \in Loop : left'[k] > 0 => loop'[k] \in {"handle", "ack"}
      BY <3>1
    <3>4. wakers' = wakers /\ loop[l] = "ack"
      BY <1>4, <2>1 DEF EntryDone
    <3>5. QED
      BY <1>4, <3>1, <3>2, <3>3, <3>4 DEF EntryDone
  <2>2. CASE ~(left[l] > 0)
    <3>1. Iterate({l}) /\ left' = left /\ loop[l] = "ack"
      BY <1>4, <2>2 DEF EntryDone
    <3>2. \A k \in Loop : left'[k] > 0 => loop'[k] \in {"handle", "ack"}
      BY <2>2, <3>1, OneIterates
    <3>3. QED
      BY <1>4, <3>1, <3>2, OneIterates DEF EntryDone
  <2>3. QED
    BY <2>1, <2>2
<1>5. CASE EntryFails(l)
  <2>1. left' = [left EXCEPT ![l] = 0] /\ Iterate({l}) /\ loop[l] = "ack"
    BY <1>5 DEF EntryFails
  <2>2. left' \in [Loop -> 0..(BatchMax - 1)]
    BY <2>1, LifecycleAssumption
  <2>3. faults' \in 0..MaxFaults
    BY <1>5, LifecycleAssumption DEF EntryFails, Fault
  <2>4. \A k \in Loop : left'[k] > 0 => loop'[k] \in {"handle", "ack"}
    <3>1. left'[l] = 0 /\ \A k \in Loop \ {l} : left'[k] = left[k]
      BY <2>1
    <3>2. \A k \in Loop \ {l} : loop'[k] = loop[k]
      BY <2>1, OneIterates
    <3>3. ASSUME NEW k \in Loop, left'[k] > 0 PROVE loop'[k] \in {"handle", "ack"}
      <4>1. k # l /\ left[k] > 0
        BY <3>1, <3>3
      <4>2. QED
        BY <3>2, <4>1
    <3>4. QED
      BY <3>3
  <2>5. QED
    BY <1>5, <2>1, <2>2, <2>3, <2>4, OneIterates DEF EntryFails
<1>6. QED
  BY <1>1, <1>2, <1>3, <1>4, <1>5 DEF LoopMoves, LoopStep

-----------------------------------------------------------------------------
(* The loops.                                                              *)

\* A loop that moves was not at rest, stays one that was spawned, and changes nothing
\* else.
LEMMA LoopMovesFrame ==
  ASSUME TypeOK, NEW l \in Loop, LoopMoves(l)
  PROVE  /\ UNCHANGED <<services, core, dispatchers, transport, abort, spawned, call, expired>>
         /\ \A k \in Loop : loop'[k] # loop[k] => k = l
         /\ loop[l] \notin {"none", "exited"}
<1>1. UNCHANGED <<services, core, dispatchers, transport, abort, spawned, call, expired>>
  BY DEF LoopMoves, LoopStep, SleepElapses, SleepEnds, Obtain, ObtainNothing, HandlerReturns,
         EntryDone, EntryFails
<1>2. loop[l] \notin {"none", "exited"}
  BY DEF LoopMoves, LoopStep, SleepElapses, SleepEnds, Obtain, ObtainNothing, HandlerReturns,
         EntryDone, EntryFails, TypeOK
<1>3. \A k \in Loop : loop'[k] # loop[k] => k = l
  BY DEF LoopMoves, LoopStep, SleepElapses, SleepEnds, Obtain, ObtainNothing, HandlerReturns,
         EntryDone, EntryFails, Iterate, TypeOK
<1>4. QED
  BY <1>1, <1>2, <1>3

LEMMA LoopMovesInv ==
  ASSUME IInv, NEW l \in Loop, LoopMoves(l)
  PROVE  IInv'
<1>1. TypeOK /\ TypeOK'
  BY LoopMovesType DEF IInv
<1>2. ~LoopsAtRest
  BY <1>1, LoopMovesFrame DEF LoopsAtRest
<1>3. At("create")' = At("create") /\ At("settle")' = At("settle") /\ At("quit")' = At("quit")
  BY <1>1, LoopMovesFrame DEF At
<1>4. PlaceInv' /\ OneLoopPerService'
  BY <1>1, LoopMovesFrame DEF IInv, Safe, PlaceInv, OneLoopPerService
<1>5. CreateInv'
  <2>1. \A k \in Loop : spawned[k[1]] = 0 => loop'[k] = "none"
    BY <1>1, LoopMovesFrame DEF IInv, Safe, CreateInv
  <2>2. QED
    BY <1>1, <1>3, <2>1, LoopMovesFrame DEF IInv, Safe, CreateInv, Contains
<1>6. AbortInv'
  BY <1>1, <1>3, LoopMovesFrame DEF IInv, Safe, AbortInv, Untouched
<1>7. RestInv' /\ StopIsDrained'
  BY <1>1, <1>2, <1>3, LoopMovesFrame DEF IInv, Safe, RestInv, StopIsDrained
<1>8. QED
  BY <1>1, <1>4, <1>5, <1>6, <1>7 DEF IInv, Safe

-----------------------------------------------------------------------------
(* Registering and starting.                                               *)

\* What a task needs of the group's state to move on: it neither spawns nor ends.
Undisturbed == UNCHANGED <<loop, spawned, dispatchers, expired>>

\* A task moves to an await where it creates nothing and waits for no loop.
LEMMA PassesOn ==
  ASSUME IInv, NEW c \in Caller, NEW w \in Where \ {"create", "settle", "quit"}, NEW i \in Nat,
         call' = [call EXCEPT ![c] = [at |-> w, step |-> i]],
         Undisturbed, UNCHANGED <<transport, abort>>
  PROVE  Safe'
<1>0. TypeOK
  BY DEF IInv
<1>1. /\ At("create")' \subseteq At("create") /\ At("settle")' \subseteq At("settle")
      /\ At("quit")' \subseteq At("quit") /\ c \notin At("create")'
      /\ \A d \in Caller \ {c} : call'[d] = call[d]
  BY <1>0, CallMoves DEF At
<1>2. PlaceInv' /\ OneLoopPerService'
  BY DEF IInv, Safe, PlaceInv, OneLoopPerService, Undisturbed
<1>3. CreateInv'
  <2>1. \A d \in At("create")' : d \in At("create") /\ call'[d] = call[d]
    BY <1>1 DEF At
  <2>2. QED
    BY <2>1 DEF IInv, Safe, CreateInv, Undisturbed, Contains
<1>4. AbortInv' /\ RestInv' /\ StopIsDrained'
  BY <1>1 DEF IInv, Safe, AbortInv, RestInv, StopIsDrained, Untouched, LoopsAtRest, Undisturbed
<1>5. QED
  BY <1>2, <1>3, <1>4 DEF Safe

\* Nothing that the invariant speaks of changes.
LEMMA StaysSafe ==
  ASSUME IInv, Undisturbed, UNCHANGED <<transport, abort, call>>
  PROVE  Safe'
BY DEF IInv, Safe, PlaceInv, CreateInv, OneLoopPerService, AbortInv, RestInv, StopIsDrained,
       Untouched, LoopsAtRest, Undisturbed, At, Contains

\* Where an await leaves a task, and what a return leaves it with.
LEMMA AwaitType ==
  ASSUME TypeOK, NEW c \in Caller,
         \/ \E w \in Where, i \in Nat : Await(c, w, i)
         \/ Return(c, "ok") \/ Return(c, "error")
  PROVE  /\ call' \in [Caller -> [at : Where, step : Nat]]
         /\ result' \in [Caller -> {"none", "ok", "error"}]
<1>1. PICK w \in Where, i \in Nat : call' = [call EXCEPT ![c] = [at |-> w, step |-> i]]
  BY DEF Await, Return, Where
<1>2. call' \in [Caller -> [at : Where, step : Nat]]
  BY <1>1, CallMoves
<1>3. result' = result \/ \E o \in {"ok", "error"} : result' = [result EXCEPT ![c] = o]
  BY DEF Await, Return
<1>4. result' \in [Caller -> {"none", "ok", "error"}]
  BY <1>3 DEF TypeOK
<1>5. QED
  BY <1>2, <1>4

\* The first task to start the transport goes through the dispatchers map from its
\* beginning, and nobody has created a group before.
LEMMA TransportStartSafe ==
  ASSUME IInv, NEW c \in Caller, call[c].at \in {"none", "register"}, TransportStart(c),
         Undisturbed
  PROVE  /\ Safe'
         /\ transport' \in {"idle", "started", "stopped"} /\ abort' \in BOOLEAN
         /\ call' \in [Caller -> [at : Where, step : Nat]]
         /\ result' \in [Caller -> {"none", "ok", "error"}]
<1>0. TypeOK
  BY DEF IInv
<1>1. CASE Return(c, "error") /\ UNCHANGED <<transport, abort>>
  <2>1. Safe'
    BY <1>1, PassesOn DEF Return, Where
  <2>2. QED
    BY <1>0, <1>1, <2>1, AwaitType DEF TypeOK
<1>2. CASE Await(c, "opened", 0) /\ UNCHANGED <<transport, abort>>
  <2>1. Safe'
    BY <1>2, PassesOn DEF Await, Where
  <2>2. QED
    BY <1>0, <1>2, <2>1, AwaitType DEF TypeOK, Where
<1>3. CASE transport = "idle" /\ transport' = "started" /\ abort' = FALSE /\ Creating(c, 0)
  <2>1. ~abort /\ Untouched /\ At("settle") \cup At("quit") = {}
    BY <1>3 DEF IInv, Safe, AbortInv
  <2>2. PICK w \in {"create", "opened"}, i \in Nat :
          /\ Await(c, w, i)
          /\ w = "create" => i = 1 /\ i \in 1..Len(dispatchers)
    BY <1>0, <1>3 DEF Creating, TypeOK
  <2>3. /\ call'[c].at = w /\ call'[c].step = i
        /\ \A d \in Caller \ {c} : call'[d] = call[d]
        /\ call' \in [Caller -> [at : Where, step : Nat]]
        /\ result' \in [Caller -> {"none", "ok", "error"}]
    BY <1>0, <2>2, CallMoves, AwaitType DEF Await, Where
  <2>4. At("create")' \subseteq {c} /\ At("settle")' = {} /\ At("quit")' = {}
    <3>1. \A d \in Caller : call[d].at \notin {"create", "settle", "quit"}
      BY <2>1 DEF At, Untouched
    <3>2. \A d \in Caller : call'[d].at \in {"create", "settle", "quit"} => d = c /\ w = "create"
      BY <2>2, <2>3, <3>1
    <3>3. QED
      BY <2>3, <3>2 DEF At
  <2>5. PlaceInv' /\ OneLoopPerService'
    BY DEF IInv, Safe, PlaceInv, OneLoopPerService, Undisturbed
  <2>6. CreateInv'
    <3>1. dispatchers \in Seq(Service)
      BY <1>0 DEF TypeOK
    <3>2. \A d \in At("create")' : d = c /\ w = "create"
      BY <2>2, <2>3, <2>4 DEF At
    <3>3. \A j \in 1..Len(dispatchers) : spawned[dispatchers[j]] = 0
      BY <2>1, <3>1 DEF Untouched
    <3>4. QED
      BY <2>2, <2>3, <3>1, <3>2, <3>3
      DEF IInv, Safe, CreateInv, Undisturbed, Contains
  <2>7. AbortInv' /\ RestInv' /\ StopIsDrained'
    BY <1>3, <2>4 DEF AbortInv, RestInv, StopIsDrained
  <2>8. QED
    BY <1>3, <2>3, <2>5, <2>6, <2>7 DEF Safe
<1>4. QED
  BY <1>1, <1>2, <1>3 DEF TransportStart

\* A service gets its place in the dispatchers map.
LEMMA PlacedSafe ==
  ASSUME IInv, NEW c \in Caller, NEW s \in Service, NEW i \in Nat, Await(c, "register", i),
         ~Contains(dispatchers, s), dispatchers' = Append(dispatchers, s),
         UNCHANGED <<loop, spawned, expired, transport, abort>>
  PROVE  Safe'
<1>0. TypeOK /\ dispatchers \in Seq(Service)
  BY DEF IInv, TypeOK
<1>1. /\ At("create")' \subseteq At("create") /\ At("settle")' \subseteq At("settle")
      /\ At("quit")' \subseteq At("quit")
      /\ \A d \in At("create")' : d \in At("create") /\ call'[d] = call[d]
  BY <1>0, CallMoves DEF At, Await, Where
<1>2. /\ Len(dispatchers') = Len(dispatchers) + 1
      /\ \A j \in 1..Len(dispatchers) : dispatchers'[j] = dispatchers[j]
      /\ dispatchers'[Len(dispatchers) + 1] = s
      /\ Len(dispatchers) \in Nat
  BY <1>0
<1>3. \A j \in 1..Len(dispatchers') : j \in 1..Len(dispatchers) \/ j = Len(dispatchers) + 1
  BY <1>2
<1>4. \A j \in 1..Len(dispatchers) : dispatchers[j] # s
  BY DEF Contains
<1>5. PlaceInv'
  BY <1>2, <1>3, <1>4 DEF IInv, Safe, PlaceInv
<1>6. CreateInv'
  <2>1. spawned[s] = 0
    BY <1>0 DEF IInv, Safe, CreateInv, TypeOK
  <2>2. ASSUME NEW d \in At("create")'
        PROVE  /\ call'[d].step \in 1..Len(dispatchers')
               /\ \A j \in call'[d].step..Len(dispatchers') : spawned[dispatchers'[j]] = 0
    <3>1. d \in At("create") /\ call'[d].step = call[d].step
      BY <1>1, <2>2
    <3>2. /\ call[d].step \in 1..Len(dispatchers)
          /\ \A j \in call[d].step..Len(dispatchers) : spawned[dispatchers[j]] = 0
      BY <3>1 DEF IInv, Safe, CreateInv
    <3>3. QED
      BY <1>2, <1>3, <2>1, <3>1, <3>2
  <2>3. \A x : Contains(dispatchers, x) => Contains(dispatchers', x)
    BY <1>2 DEF Contains
  <2>4. QED
    BY <1>1, <2>2, <2>3 DEF IInv, Safe, CreateInv
<1>7. AbortInv' /\ RestInv' /\ StopIsDrained' /\ OneLoopPerService'
  BY <1>1
  DEF IInv, Safe, AbortInv, RestInv, StopIsDrained, OneLoopPerService, Untouched, LoopsAtRest
<1>8. QED
  BY <1>5, <1>6, <1>7 DEF Safe

\* start() up to an await of registerService or of the transport.
LEMMA RegisteringInv ==
  ASSUME IInv, NEW c \in Caller, NEW i \in Nat, call[c].at \in {"none", "register"},
         Registering(c, i), UNCHANGED <<loop, spawned, expired>>
  PROVE  /\ Safe'
         /\ dispatchers' \in Seq(Service)
         /\ transport' \in {"idle", "started", "stopped"} /\ abort' \in BOOLEAN
         /\ call' \in [Caller -> [at : Where, step : Nat]]
         /\ result' \in [Caller -> {"none", "ok", "error"}]
<1>0. TypeOK /\ dispatchers \in Seq(Service)
  BY DEF IInv, TypeOK
<1>1. CASE i = Len(services) /\ TransportStart(c) /\ UNCHANGED dispatchers
  BY <1>0, <1>1, TransportStartSafe DEF Undisturbed
<1>2. CASE i < Len(services)
  <2>1. services[i + 1] \in Service
    BY <1>0, <1>2 DEF TypeOK
  <2>2. PICK s \in Service : s = services[i + 1]
    BY <2>1
  <2>3. /\ Await(c, "register", i + 1) /\ UNCHANGED <<transport, abort>>
        /\ dispatchers' = IF Contains(dispatchers, s) THEN dispatchers ELSE Append(dispatchers, s)
    BY <1>2, <2>2 DEF Registering
  <2>4. Safe'
    <3>1. CASE Contains(dispatchers, s)
      <4>1. /\ call' = [call EXCEPT ![c] = [at |-> "register", step |-> i + 1]] /\ Undisturbed
            /\ UNCHANGED <<transport, abort>>
        BY <2>3, <3>1 DEF Await, Undisturbed
      <4>2. i + 1 \in Nat /\ "register" \in Where \ {"create", "settle", "quit"}
        BY DEF Where
      <4>3. QED
        BY <4>1, <4>2, PassesOn
    <3>2. CASE ~Contains(dispatchers, s)
      BY <2>3, <3>2, PlacedSafe
    <3>3. QED
      BY <3>1, <3>2
  <2>5. dispatchers' \in Seq(Service)
    BY <1>0, <2>3
  <2>6. QED
    BY <1>0, <2>3, <2>4, <2>5, AwaitType DEF TypeOK, Where
<1>3. QED
  BY <1>1, <1>2 DEF Registering

\* The consumer group of a service is there: its loops start, unless the transport has
\* been aborted meanwhile.
LEMMA XgroupDoneInv ==
  ASSUME IInv, NEW c \in Caller, XgroupDone(c)
  PROVE  IInv'
<1> DEFINE n == call[c].step
           s == dispatchers[n]
           S == {s} \X {"consume", "reclaim"}
<1>0. TypeOK /\ dispatchers \in Seq(Service) /\ n \in Nat
  BY DEF IInv, TypeOK
<1>1. c \in At("create") /\ n \in 1..Len(dispatchers) /\ s \in Service /\ spawned[s] = 0
  <2>1. c \in At("create")
    BY DEF XgroupDone, At
  <2>2. n \in 1..Len(dispatchers) /\ spawned[s] = 0
    BY <2>1 DEF IInv, Safe, CreateInv
  <2>3. QED
    BY <1>0, <2>1, <2>2
<1>2. /\ UNCHANGED <<dispatchers, transport, abort, left, expired>>
      /\ spawned' = [spawned EXCEPT ![s] = @ + 1]
      /\ conns' = conns \cup {s}
      /\ Iterate(S) /\ Creating(c, n)
      /\ UNCHANGED <<services, core, stopCalled, early, calls, faults>>
  BY DEF XgroupDone
<1> HIDE DEF n, s
<1>3. S \in SUBSET Loop /\ \A l \in S : l[1] = s /\ loop[l] = "none"
  <2>1. S \in SUBSET Loop /\ \A l \in S : l[1] = s
    BY <1>1 DEF Loop
  <2>2. QED
    BY <1>1, <2>1 DEF IInv, Safe, CreateInv
<1>4. \A l \in Loop : l[1] = s <=> l \in S
  BY DEF Loop
<1> HIDE DEF S
<1>5. /\ loop' \in [Loop -> {"none", "poll", "sleep", "handle", "ack", "exited"}]
      /\ \A l \in Loop \ S : loop'[l] = loop[l]
      /\ abort => \A l \in S : loop'[l] = "exited"
      /\ wakers' \subseteq {l \in Loop : loop'[l] = "sleep"}
  BY <1>0, <1>2, <1>3, IterateType
<1>6. /\ spawned'[s] = 1 /\ \A t \in Service \ {s} : spawned'[t] = spawned[t]
      /\ spawned' \in [Service -> Nat]
  BY <1>0, <1>1, <1>2 DEF TypeOK
<1>7. PICK w \in {"create", "opened"}, i \in Nat :
        /\ Await(c, w, i)
        /\ w = "create" => i = n + 1 /\ i \in 1..Len(dispatchers)
  BY <1>0, <1>2 DEF Creating
<1>8. /\ call'[c].at = w /\ call'[c].step = i
      /\ \A d \in Caller \ {c} : call'[d] = call[d]
      /\ call' \in [Caller -> [at : Where, step : Nat]]
      /\ result' \in [Caller -> {"none", "ok", "error"}]
  BY <1>0, <1>7, CallMoves, AwaitType DEF Await, Where
<1>9. /\ \A d \in At("create")' : d = c /\ w = "create"
      /\ At("settle")' \subseteq At("settle") /\ At("quit")' \subseteq At("quit")
  <2>1. \A d \in At("create") : d = c
    BY <1>1 DEF IInv, Safe, CreateInv
  <2>2. QED
    BY <1>7, <1>8, <2>1 DEF At
<1>10. TypeOK'
  <2>1. \A l \in Loop : left'[l] > 0 => loop'[l] \in {"handle", "ack"}
    <3>1. \A l \in Loop : left[l] > 0 => loop[l] \in {"handle", "ack"} /\ l \notin S
      BY <1>0, <1>3 DEF TypeOK
    <3>2. QED
      BY <1>2, <1>5, <3>1
  <2>2. QED
    BY <1>0, <1>1, <1>2, <1>5, <1>6, <1>8, <2>1 DEF TypeOK, Where
<1>11. PlaceInv' /\ OneLoopPerService'
  BY <1>1, <1>2, <1>6 DEF IInv, Safe, PlaceInv, OneLoopPerService
<1>12. CreateInv'
  <2>1. \A j \in n + 1..Len(dispatchers) : spawned'[dispatchers[j]] = 0
    <3>1. ASSUME NEW j \in n + 1..Len(dispatchers) PROVE spawned'[dispatchers[j]] = 0
      <4>1. j \in 1..Len(dispatchers) /\ j # n /\ dispatchers[j] \in Service /\ j \in n..Len(dispatchers)
        BY <1>0, <1>1
      <4>2. dispatchers[j] # s
        BY <1>1, <4>1 DEF IInv, Safe, PlaceInv, s
      <4>3. spawned[dispatchers[j]] = 0
        BY <1>1, <4>1 DEF IInv, Safe, CreateInv, n
      <4>4. QED
        BY <1>6, <4>1, <4>2, <4>3
    <3>2. QED
      BY <3>1
  <2>2. \A d \in At("create")' :
          /\ call'[d].step \in 1..Len(dispatchers')
          /\ \A j \in call'[d].step..Len(dispatchers') : spawned'[dispatchers'[j]] = 0
    BY <1>2, <1>7, <1>8, <1>9, <2>1
  <2>3. Contains(dispatchers, s)
    BY <1>1 DEF Contains, s
  <2>4. \A t \in Service : spawned'[t] > 0 => Contains(dispatchers, t)'
    BY <1>2, <1>6, <2>3 DEF IInv, Safe, CreateInv, Contains
  <2>5. \A l \in Loop : spawned'[l[1]] = 0 => loop'[l] = "none"
    <3>1. \A l \in Loop : l[1] \in Service
      BY DEF Loop
    <3>2. QED
      BY <1>4, <1>5, <1>6, <3>1 DEF IInv, Safe, CreateInv
  <2>6. QED
    BY <1>9, <2>2, <2>4, <2>5 DEF CreateInv
<1>13. AbortInv'
  <2>1. transport = "started" \/ abort
    BY <1>1 DEF IInv, Safe, AbortInv, Untouched
  <2>2. QED
    BY <1>2, <1>9, <2>1 DEF IInv, Safe, AbortInv
<1>14. abort /\ LoopsAtRest => LoopsAtRest'
  BY <1>5 DEF LoopsAtRest
<1>15. RestInv' /\ StopIsDrained'
  <2>1. At("quit")' # {} => abort
    BY <1>9 DEF IInv, Safe, AbortInv
  <2>2. transport = "stopped" => abort
    BY <1>1 DEF IInv, Safe, AbortInv, Untouched
  <2>3. QED
    BY <1>2, <1>9, <1>14, <2>1, <2>2 DEF IInv, Safe, RestInv, StopIsDrained
<1>16. QED
  BY <1>10, <1>11, <1>12, <1>13, <1>15 DEF IInv, Safe

-----------------------------------------------------------------------------
(* Stopping.                                                               *)

\* The transport's stop() up to its first await: what was started is aborted, what was
\* never started has no loops.
LEMMA TransportStopInv ==
  ASSUME IInv, NEW c \in Caller, call[c].at \in {"none", "drain"}, TransportStop(c),
         UNCHANGED <<loop, spawned, dispatchers>>, expired => expired'
  PROVE  /\ Safe'
         /\ transport' \in {"idle", "started", "stopped"} /\ abort' \in BOOLEAN
         /\ wakers' \subseteq wakers /\ conns' \subseteq conns
         /\ call' \in [Caller -> [at : Where, step : Nat]]
         /\ result' \in [Caller -> {"none", "ok", "error"}]
<1>0. TypeOK
  BY DEF IInv
<1>1. PICK w \in {"closed", "settle"} :
        /\ Await(c, w, 0)
        /\ w = "settle" <=> transport = "started"
        /\ w = "settle" => transport' = transport /\ abort' = TRUE
        /\ w = "closed" => transport' = "stopped" /\ abort' = abort
        /\ wakers' \subseteq wakers /\ conns' \subseteq conns
  BY DEF TransportStop
<1>2. /\ call'[c].at = w
      /\ \A d \in Caller \ {c} : call'[d] = call[d]
      /\ call' \in [Caller -> [at : Where, step : Nat]]
      /\ result' \in [Caller -> {"none", "ok", "error"}]
  BY <1>0, <1>1, CallMoves, AwaitType DEF Await, Where
<1>3. /\ At("create")' = At("create") /\ At("quit")' = At("quit")
      /\ w = "closed" => At("settle")' = At("settle")
      /\ \A d \in At("create") : call'[d] = call[d]
  BY <1>1, <1>2 DEF At
<1>4. PlaceInv' /\ CreateInv' /\ OneLoopPerService'
  BY <1>3 DEF IInv, Safe, PlaceInv, CreateInv, OneLoopPerService, Contains
<1>5. AbortInv'
  <2>1. CASE w = "settle"
    BY <1>1, <2>1 DEF AbortInv
  <2>2. CASE w = "closed"
    BY <1>0, <1>1, <1>3, <2>2 DEF IInv, Safe, AbortInv, Untouched
  <2>3. QED
    BY <1>1, <2>1, <2>2
<1>6. RestInv'
  BY <1>3 DEF IInv, Safe, RestInv, LoopsAtRest
<1>7. StopIsDrained'
  <2>1. CASE transport = "started"
    BY <1>1, <2>1 DEF StopIsDrained
  <2>2. CASE transport = "stopped"
    BY <1>1, <2>2 DEF IInv, Safe, StopIsDrained, LoopsAtRest
  <2>3. CASE transport = "idle"
    <3>1. \A s \in Service : spawned[s] = 0
      BY <2>3 DEF IInv, Safe, AbortInv, Untouched
    <3>2. \A l \in Loop : loop[l] = "none"
      BY <3>1 DEF IInv, Safe, CreateInv, Loop
    <3>3. QED
      BY <3>2 DEF StopIsDrained, LoopsAtRest
  <2>4. QED
    BY <1>0, <2>1, <2>2, <2>3 DEF TypeOK
<1>8. transport' \in {"idle", "started", "stopped"} /\ abort' \in BOOLEAN
  BY <1>0, <1>1 DEF TypeOK
<1>9. QED
  BY <1>1, <1>2, <1>4, <1>5, <1>6, <1>7, <1>8 DEF Safe

\* A task that returns, or passes on to an await of its own, with the loops, the maps
\* and the transport as they were.
LEMMA ReturnsSafe ==
  ASSUME IInv, NEW c \in Caller,
         \/ Return(c, "ok") \/ Return(c, "error") \/ Await(c, "drain", 0),
         Undisturbed, UNCHANGED <<transport, abort>>
  PROVE  /\ Safe'
         /\ call' \in [Caller -> [at : Where, step : Nat]]
         /\ result' \in [Caller -> {"none", "ok", "error"}]
<1>1. PICK w \in {"none", "drain"} : call' = [call EXCEPT ![c] = [at |-> w, step |-> 0]]
  BY DEF Return, Await
<1>2. w \in Where \ {"create", "settle", "quit"} /\ 0 \in Nat
  BY DEF Where
<1>3. Safe'
  BY <1>1, <1>2, PassesOn
<1>4. TypeOK /\ "drain" \in Where
  BY DEF IInv, Where
<1>5. QED
  BY <1>3, <1>4, AwaitType

LEMMA StartInv ==
  ASSUME IInv, NEW c \in Caller, start(c)
  PROVE  IInv'
<1>0. TypeOK
  BY DEF IInv
<1>1. /\ call[c].at = "none" /\ calls' \in 0..MaxCalls
      /\ UNCHANGED <<services, core, conns, wakers, loop, left, spawned, stopCalled, faults, expired>>
      /\ early' \subseteq Service
  <2>1. ToSet(services) \subseteq Service
    BY <1>0 DEF TypeOK, ToSet
  <2>2. calls' \in 0..MaxCalls
    BY <1>0, LifecycleAssumption DEF start, Invoke, TypeOK
  <2>3. QED
    BY <1>0, <2>1, <2>2 DEF start, Invoke, TypeOK
<1>2. /\ Safe'
      /\ dispatchers' \in Seq(Service)
      /\ transport' \in {"idle", "started", "stopped"} /\ abort' \in BOOLEAN
      /\ call' \in [Caller -> [at : Where, step : Nat]]
      /\ result' \in [Caller -> {"none", "ok", "error"}]
  <2>1. CASE /\ Return(c, "ok") \/ Return(c, "error")
             /\ UNCHANGED <<dispatchers, transport, abort, early>>
    <3>1. Undisturbed
      BY <1>1, <2>1 DEF Undisturbed
    <3>2. QED
      BY <1>0, <2>1, <3>1, ReturnsSafe DEF TypeOK
  <2>2. CASE Registering(c, 0)
    BY <1>1, <2>2, RegisteringInv
  <2>3. QED
    BY <2>1, <2>2 DEF start
<1>3. TypeOK'
  BY <1>0, <1>1, <1>2 DEF TypeOK, Where
<1>4. QED
  BY <1>2, <1>3 DEF IInv

LEMMA StopInv ==
  ASSUME IInv, NEW c \in Caller, stop(c)
  PROVE  IInv'
<1>0. TypeOK
  BY DEF IInv
<1>1. /\ call[c].at = "none" /\ calls' \in 0..MaxCalls /\ stopCalled' \in BOOLEAN
      /\ UNCHANGED <<services, dispatchers, loop, left, spawned, early, faults, expired>>
      /\ core' \in {core, "stopped"}
  BY <1>0, LifecycleAssumption DEF stop, Invoke, TypeOK
<1>2. /\ Safe'
      /\ transport' \in {"idle", "started", "stopped"} /\ abort' \in BOOLEAN
      /\ wakers' \subseteq wakers /\ conns' \subseteq conns
      /\ call' \in [Caller -> [at : Where, step : Nat]]
      /\ result' \in [Caller -> {"none", "ok", "error"}]
  <2>1. CASE /\ Return(c, "ok") \/ Await(c, "drain", 0)
             /\ UNCHANGED <<transport, abort, wakers, conns>>
    <3>1. Undisturbed
      BY <1>1 DEF Undisturbed
    <3>2. QED
      BY <1>0, <2>1, <3>1, ReturnsSafe DEF TypeOK
  <2>2. CASE TransportStop(c)
    BY <1>1, <2>2, TransportStopInv
  <2>3. QED
    BY <2>1, <2>2 DEF stop
<1>3. TypeOK'
  BY <1>0, <1>1, <1>2 DEF TypeOK, Where
<1>4. QED
  BY <1>2, <1>3 DEF IInv

\* A drain ends, with the handlers or with the grace period.
LEMMA DrainInv ==
  ASSUME IInv, NEW c \in Caller, Drained(c) \/ DrainExpires(c)
  PROVE  IInv'
<1>0. TypeOK
  BY DEF IInv
<1>1. /\ call[c].at = "drain" /\ TransportStop(c) /\ expired' \in {expired, TRUE}
      /\ UNCHANGED <<services, core, dispatchers, loop, left, spawned, stopCalled, early, calls,
                     faults>>
  BY DEF Drained, DrainExpires
<1>2. expired => expired'
  BY DEF Drained, DrainExpires
<1>3. /\ Safe'
      /\ transport' \in {"idle", "started", "stopped"} /\ abort' \in BOOLEAN
      /\ wakers' \subseteq wakers /\ conns' \subseteq conns
      /\ call' \in [Caller -> [at : Where, step : Nat]]
      /\ result' \in [Caller -> {"none", "ok", "error"}]
  BY <1>1, <1>2, TransportStopInv
<1>4. TypeOK'
  BY <1>0, <1>1, <1>3 DEF TypeOK, Where
<1>5. QED
  BY <1>3, <1>4 DEF IInv

\* The wait for the loops ends: they are at rest, or the grace period has run out.
LEMMA SettleInv ==
  ASSUME IInv, NEW c \in Caller, LoopsSettled(c) \/ ShutdownGraceExpires(c)
  PROVE  IInv'
<1>0. TypeOK
  BY DEF IInv
<1>1. /\ call[c].at = "settle" /\ Await(c, "quit", 0)
      /\ LoopsAtRest \/ expired' = TRUE
      /\ expired' \in {expired, TRUE}
      /\ UNCHANGED <<services, core, dispatchers, transport, abort, conns, wakers, loop, left,
                     spawned, stopCalled, early, calls, faults>>
  BY DEF LoopsSettled, ShutdownGraceExpires
<1>2. /\ call'[c].at = "quit"
      /\ \A d \in Caller \ {c} : call'[d] = call[d]
      /\ call' \in [Caller -> [at : Where, step : Nat]]
      /\ result' \in [Caller -> {"none", "ok", "error"}]
  BY <1>0, <1>1, CallMoves, AwaitType DEF Await, Where
<1>3. /\ At("create")' = At("create") /\ c \in At("settle")
      /\ \A d \in At("create") : call'[d] = call[d]
      /\ At("settle")' \cup At("quit")' \subseteq At("settle") \cup At("quit")
  BY <1>1, <1>2 DEF At
<1>4. PlaceInv' /\ CreateInv' /\ OneLoopPerService'
  BY <1>1, <1>3 DEF IInv, Safe, PlaceInv, CreateInv, OneLoopPerService, Contains
<1>5. AbortInv'
  BY <1>1, <1>3 DEF IInv, Safe, AbortInv, Untouched
<1>6. RestInv' /\ StopIsDrained'
  BY <1>1 DEF IInv, Safe, RestInv, StopIsDrained, LoopsAtRest
<1>7. TypeOK'
  BY <1>0, <1>1, <1>2 DEF TypeOK, Where
<1>8. QED
  BY <1>4, <1>5, <1>6, <1>7 DEF IInv, Safe

\* The transport's state is set when the loops have been waited for.
LEMMA QuitInv ==
  ASSUME IInv, NEW c \in Caller, QuitDone(c)
  PROVE  IInv'
<1>0. TypeOK
  BY DEF IInv
<1>1. /\ call[c].at = "quit" /\ Await(c, "closed", 0) /\ transport' = "stopped" /\ conns' = {}
      /\ UNCHANGED <<services, core, dispatchers, abort, wakers, loop, left, spawned, stopCalled,
                     early, calls, faults, expired>>
  BY DEF QuitDone
<1>2. /\ call'[c].at = "closed"
      /\ \A d \in Caller \ {c} : call'[d] = call[d]
      /\ call' \in [Caller -> [at : Where, step : Nat]]
      /\ result' \in [Caller -> {"none", "ok", "error"}]
  BY <1>0, <1>1, CallMoves, AwaitType DEF Await, Where
<1>3. /\ At("create")' = At("create") /\ c \in At("quit")
      /\ \A d \in At("create") : call'[d] = call[d]
      /\ At("settle")' = At("settle") /\ At("quit")' \subseteq At("quit")
  BY <1>1, <1>2 DEF At
<1>4. PlaceInv' /\ CreateInv' /\ OneLoopPerService'
  BY <1>1, <1>3 DEF IInv, Safe, PlaceInv, CreateInv, OneLoopPerService, Contains
<1>5. abort /\ (~expired => LoopsAtRest)
  BY <1>3 DEF IInv, Safe, AbortInv, RestInv
<1>6. AbortInv' /\ RestInv' /\ StopIsDrained'
  BY <1>1, <1>3, <1>5 DEF AbortInv, RestInv, StopIsDrained, LoopsAtRest
<1>7. TypeOK'
  BY <1>0, <1>1, <1>2 DEF TypeOK, Where
<1>8. QED
  BY <1>4, <1>6, <1>7 DEF IInv, Safe

-----------------------------------------------------------------------------
(* The theorems.                                                           *)

\* The steps of a task that move it and nothing the invariant speaks of.
LEMMA OtherCallInv ==
  ASSUME IInv, NEW c \in Caller, XgroupFails(c) \/ StartReturns(c) \/ StopReturns(c)
  PROVE  IInv'
<1>0. TypeOK
  BY DEF IInv
<1>1. /\ Return(c, "ok") \/ Return(c, "error")
      /\ UNCHANGED <<services, dispatchers, transport, abort, conns, wakers, loop, left, spawned,
                     stopCalled, early, calls, expired>>
      /\ core' \in {core, "started", "stopped"}
  BY DEF XgroupFails, StartReturns, StopReturns
<1>2. faults' \in 0..MaxFaults
  BY <1>0, LifecycleAssumption DEF XgroupFails, StartReturns, StopReturns, Fault, TypeOK
<1>3. Undisturbed
  BY <1>1 DEF Undisturbed
<1>4. /\ Safe'
      /\ call' \in [Caller -> [at : Where, step : Nat]]
      /\ result' \in [Caller -> {"none", "ok", "error"}]
  BY <1>1, <1>3, ReturnsSafe
<1>5. TypeOK'
  BY <1>0, <1>1, <1>2, <1>4 DEF TypeOK, Where
<1>6. QED
  BY <1>4, <1>5 DEF IInv

LEMMA ServiceRegisteredInv ==
  ASSUME IInv, NEW c \in Caller, ServiceRegistered(c)
  PROVE  IInv'
<1>0. TypeOK /\ call[c].step \in Nat
  BY DEF IInv, TypeOK
<1>1. /\ call[c].at = "register" /\ Registering(c, call[c].step)
      /\ UNCHANGED <<services, core, conns, wakers, loop, left, spawned, stopCalled, early, calls,
                     faults, expired>>
  BY DEF ServiceRegistered
<1>2. /\ Safe'
      /\ dispatchers' \in Seq(Service)
      /\ transport' \in {"idle", "started", "stopped"} /\ abort' \in BOOLEAN
      /\ call' \in [Caller -> [at : Where, step : Nat]]
      /\ result' \in [Caller -> {"none", "ok", "error"}]
  BY <1>0, <1>1, RegisteringInv
<1>3. TypeOK'
  BY <1>0, <1>1, <1>2 DEF TypeOK, Where
<1>4. QED
  BY <1>2, <1>3 DEF IInv

LEMMA RegisterInv ==
  ASSUME IInv, NEW s \in Service, registerService(s)
  PROVE  IInv'
<1>1. UNCHANGED <<core, dispatchers, transport, abort, conns, wakers, loop, left, spawned, call,
                  result, stopCalled, early, calls, faults, expired>>
  BY DEF registerService
<1>2. TypeOK'
  <2>1. services' \in Seq(Service)
    BY DEF registerService, IInv, TypeOK
  <2>2. QED
    BY <1>1, <2>1 DEF IInv, TypeOK
<1>3. Undisturbed
  BY <1>1 DEF Undisturbed
<1>4. Safe'
  BY <1>1, <1>3, StaysSafe
<1>5. QED
  BY <1>2, <1>4 DEF IInv

LEMMA InvStep == IInv /\ [Next]_vars => IInv'
<1> SUFFICES ASSUME IInv, [Next]_vars PROVE IInv'
  OBVIOUS
<1>1. ASSUME NEW l \in Loop, SleepElapses(l) \/ HandlerReturns(l) \/ EntryFails(l) \/ LoopStep(l)
      PROVE  IInv'
  BY <1>1, LoopMovesInv DEF LoopMoves
<1>2. ASSUME NEW c \in Caller, start(c) \/ stop(c) \/ XgroupFails(c) \/ CallStep(c)
      PROVE  IInv'
  BY <1>2, StartInv, StopInv, OtherCallInv, ServiceRegisteredInv, XgroupDoneInv, DrainInv,
     SettleInv, QuitInv
  DEF CallStep
<1>3. CASE UNCHANGED vars
  <2>1. TypeOK'
    BY <1>3 DEF IInv, TypeOK, vars
  <2>2. Undisturbed /\ UNCHANGED <<transport, abort, call>>
    BY <1>3 DEF Undisturbed, vars
  <2>3. QED
    BY <2>1, <2>2, StaysSafe DEF IInv
<1>4. QED
  BY <1>1, <1>2, <1>3, RegisterInv DEF Next

\* The strengthening of the safety properties is invariant.
THEOREM Invariance == Spec => []IInv
BY InitInv, InvStep, PTL DEF Spec

\* Every variable of core, transport, loops and tasks keeps its type.
THEOREM TypeCorrect == Spec => []TypeOK
BY Invariance, PTL DEF IInv

\* start() of the transport sets its state before its first await, so that no service
\* gets a second pair of loops however many start() calls overlap, fail and repeat.
THEOREM OneLoop == Spec => []OneLoopPerService
BY Invariance, PTL DEF IInv, Safe

\* A transport stopped within its grace periods has no loop at work, whatever start()
\* was under way when it was aborted.
THEOREM LoopsAreDrained == Spec => []StopIsDrained
BY Invariance, PTL DEF IInv, Safe

=============================================================================
