--------------------------- MODULE ServerLifecycle ---------------------------
(***************************************************************************)
(* Registering, starting and stopping a RedisRpcServer: RpcServerCore      *)
(* (server-core.ts) on top of ServerRedisTransport (server-transport.ts).  *)
(* Both keep a state of their own and set it at different moments of their *)
(* start() and stop(), several awaits apart. The application's tasks call  *)
(* registerService, start and stop in any order and, when there is more    *)
(* than one task, without waiting for each other.                          *)
(*                                                                         *)
(* An action is the code up to the next await. What the loops do with an   *)
(* entry is kept to what stopping depends on: a handler runs, the reply    *)
(* and the XACK are awaited, the next entry of the batch follows.          *)
(***************************************************************************)
EXTENDS Integers, Sequences, FiniteSets, SequencesExt

CONSTANTS
  Service,    \* services the application may register
  Caller,     \* tasks of the application that call start and stop
  BatchMax,   \* entries in a batch
  MaxCalls,   \* bound: calls of start and stop
  MaxFaults   \* bound: Redis commands that fail

ASSUME LifecycleAssumption ==
  BatchMax \in Nat \ {0} /\ MaxCalls \in Nat /\ MaxFaults \in Nat

Loop == Service \X {"consume", "reclaim"}

VARIABLES
  \* RpcServerCore
  services,     \* keys of the services map, in insertion order
  core,         \* state
  \* ServerRedisTransport
  dispatchers,  \* keys of the dispatchers map, in insertion order
  transport,    \* state
  abort,
  conns,        \* services with an open blocking connection
  wakers,       \* reclaim loops whose sleep has neither elapsed nor been interrupted
  loop,         \* await each loop is at
  left,         \* entries left in the loop's batch after the current one
  spawned,      \* how often the loops of a service were spawned
  \* the application
  call,         \* await each task's start or stop is at
  result,       \* how each task's last start or stop ended
  stopCalled,   \* has stop been called
  early,        \* services registered when an idle core was last told to start
  calls, faults,
  expired       \* has a grace period run out

coreVars == <<services, core>>
transportVars == <<dispatchers, transport, abort, conns>>
loopVars == <<wakers, loop, left>>
appVars == <<stopCalled, early, calls>>
vars == <<coreVars, transportVars, loopVars, spawned, call, result, appVars, faults, expired>>

Inflight == {l \in Loop : loop[l] = "handle"}

LoopsAtRest == \A l \in Loop : loop[l] \in {"none", "exited"}

Fault == faults < MaxFaults /\ faults' = faults + 1

-----------------------------------------------------------------------------
(* The awaits of a task.                                                   *)

Await(c, where, i) ==
  /\ call' = [call EXCEPT ![c] = [at |-> where, step |-> i]]
  /\ UNCHANGED result

Return(c, outcome) ==
  /\ call' = [call EXCEPT ![c] = [at |-> "none", step |-> 0]]
  /\ result' = [result EXCEPT ![c] = outcome]

Invoke(c) ==
  /\ call[c].at = "none"
  /\ calls < MaxCalls
  /\ calls' = calls + 1

-----------------------------------------------------------------------------
(* The loops. A loop at the head of its while either ends or goes to its   *)
(* first await: XREADGROUP, or the interruptible sleep.                    *)

Iterate(S) ==
  /\ loop' = [l \in Loop |->
       IF l \notin S THEN loop[l]
       ELSE IF abort THEN "exited"
       ELSE IF l[2] = "consume" THEN "poll" ELSE "sleep"]
  /\ wakers' = IF abort THEN wakers ELSE wakers \cup {l \in S : l[2] = "reclaim"}

loopFrame == <<coreVars, transportVars, spawned, call, result, appVars, expired>>

SleepElapses(l) ==
  /\ l \in wakers
  /\ wakers' = wakers \ {l}
  /\ UNCHANGED <<loop, left, faults, loopFrame>>

SleepEnds(l) ==
  /\ loop[l] = "sleep" /\ l \notin wakers
  /\ loop' = [loop EXCEPT ![l] = IF abort THEN "exited" ELSE "poll"]
  /\ UNCHANGED <<wakers, left, faults, loopFrame>>

\* XREADGROUP or XAUTOCLAIM returns entries; stop() disconnects the connection
\* of the first but not that of the second
Obtain(l) ==
  /\ loop[l] = "poll"
  /\ l[2] = "consume" => ~abort
  /\ loop' = [loop EXCEPT ![l] = "handle"]
  /\ \E k \in 1..BatchMax : left' = [left EXCEPT ![l] = k - 1]
  /\ UNCHANGED <<wakers, faults, loopFrame>>

\* no entry, or the command is rejected
ObtainNothing(l) ==
  /\ loop[l] = "poll"
  /\ Iterate({l})
  /\ UNCHANGED <<left, faults, loopFrame>>

HandlerReturns(l) ==
  /\ loop[l] = "handle"
  /\ loop' = [loop EXCEPT ![l] = "ack"]
  /\ UNCHANGED <<wakers, left, faults, loopFrame>>

\* the for loops over a batch do not look at abort
EntryDone(l) ==
  /\ loop[l] = "ack"
  /\ \/ /\ left[l] > 0
        /\ loop' = [loop EXCEPT ![l] = "handle"]
        /\ left' = [left EXCEPT ![l] = @ - 1]
        /\ UNCHANGED wakers
     \/ /\ left[l] = 0
        /\ Iterate({l})
        /\ UNCHANGED left
  /\ UNCHANGED <<faults, loopFrame>>

\* mutant: the count of the abandoned batch survives
EntryFailsKeepsBatch(l) ==
  /\ Fault
  /\ loop[l] = "ack"
  /\ Iterate({l})
  /\ UNCHANGED <<left, loopFrame>>

\* XADD of the reply or XACK is rejected: the rest of the batch is abandoned
EntryFails(l) ==
  /\ Fault
  /\ loop[l] = "ack"
  /\ left' = [left EXCEPT ![l] = 0]
  /\ Iterate({l})
  /\ UNCHANGED loopFrame

-----------------------------------------------------------------------------
(* ServerRedisTransport.start and stop.                                    *)

\* the loop over the dispatchers map, from entry i on; the map may grow meanwhile
Creating(c, i) ==
  IF i < Len(dispatchers) THEN Await(c, "create", i + 1) ELSE Await(c, "opened", 0)

\* mutant: the state is not looked at
TransportStartAgain(c) ==
  /\ transport # "stopped"
  /\ transport' = "started"
  /\ abort' = FALSE
  /\ Creating(c, 0)

TransportStart(c) ==
  \/ /\ transport = "stopped"
     /\ Return(c, "error")
     /\ UNCHANGED <<transport, abort>>
  \/ /\ transport = "started"
     /\ Await(c, "opened", 0)
     /\ UNCHANGED <<transport, abort>>
  \/ /\ transport = "idle"
     /\ transport' = "started"
     /\ abort' = FALSE
     /\ Creating(c, 0)

\* XGROUP CREATE has created the group or found it; the loops run to their
\* first await
XgroupDone(c) ==
  /\ call[c].at = "create"
  /\ LET s == dispatchers[call[c].step] IN
       /\ conns' = conns \cup {s}
       /\ spawned' = [spawned EXCEPT ![s] = @ + 1]
       /\ Iterate({s} \X {"consume", "reclaim"})
  /\ Creating(c, call[c].step)
  /\ UNCHANGED <<coreVars, dispatchers, transport, abort, left, appVars, faults, expired>>

XgroupFails(c) ==
  /\ Fault
  /\ call[c].at = "create"
  /\ Return(c, "error")
  /\ UNCHANGED <<coreVars, transportVars, loopVars, spawned, appVars, expired>>

\* mutant: sleeping reclaim loops are not woken
TransportStopWakesNobody(c) ==
  \/ /\ transport # "started"
     /\ transport' = "stopped"
     /\ Await(c, "closed", 0)
     /\ UNCHANGED <<abort, wakers, conns>>
  \/ /\ transport = "started"
     /\ abort' = TRUE
     /\ conns' = {}
     /\ Await(c, "settle", 0)
     /\ UNCHANGED <<transport, wakers>>

TransportStop(c) ==
  \/ /\ transport # "started"
     /\ transport' = "stopped"
     /\ Await(c, "closed", 0)
     /\ UNCHANGED <<abort, wakers, conns>>
  \/ /\ transport = "started"
     /\ abort' = TRUE
     /\ wakers' = {}
     /\ conns' = {}
     /\ Await(c, "settle", 0)
     /\ UNCHANGED transport

\* mutant: nothing is awaited
LoopsIgnored(c) ==
  /\ call[c].at = "settle"
  /\ Await(c, "quit", 0)
  /\ UNCHANGED <<coreVars, transportVars, loopVars, spawned, appVars, faults, expired>>

LoopsSettled(c) ==
  /\ call[c].at = "settle"
  /\ LoopsAtRest
  /\ Await(c, "quit", 0)
  /\ UNCHANGED <<coreVars, transportVars, loopVars, spawned, appVars, faults, expired>>

\* mutant: no timer races with the loops
ShutdownGraceMissing(c) ==
  /\ LoopsAtRest
  /\ call[c].at = "settle"
  /\ Await(c, "quit", 0)
  /\ UNCHANGED <<coreVars, transportVars, loopVars, spawned, appVars, faults, expired>>

ShutdownGraceExpires(c) ==
  /\ call[c].at = "settle"
  /\ expired' = TRUE
  /\ Await(c, "quit", 0)
  /\ UNCHANGED <<coreVars, transportVars, loopVars, spawned, appVars, faults>>

\* blocking connections are quit and forgotten, the state is set
QuitDone(c) ==
  /\ call[c].at = "quit"
  /\ conns' = {}
  /\ transport' = "stopped"
  /\ Await(c, "closed", 0)
  /\ UNCHANGED <<coreVars, dispatchers, abort, loopVars, spawned, appVars, faults, expired>>

-----------------------------------------------------------------------------
(* RpcServerCore.registerService, start and stop.                          *)

registerService(s) ==
  /\ ~Contains(services, s)
  /\ services' = Append(services, s)
  /\ UNCHANGED <<core, transportVars, loopVars, spawned, call, result, appVars, faults, expired>>

\* the loop over the services map, from entry i on; the map may grow meanwhile
Registering(c, i) ==
  \/ /\ i < Len(services)
     /\ dispatchers' = IF Contains(dispatchers, services[i + 1]) THEN dispatchers
                       ELSE Append(dispatchers, services[i + 1])
     /\ Await(c, "register", i + 1)
     /\ UNCHANGED <<transport, abort>>
  \/ /\ i = Len(services)
     /\ TransportStart(c)
     /\ UNCHANGED dispatchers

start(c) ==
  /\ Invoke(c)
  /\ \/ /\ core = "started"
        /\ Return(c, "ok")
        /\ UNCHANGED <<dispatchers, transport, abort, early>>
     \/ /\ core = "stopped"
        /\ Return(c, "error")
        /\ UNCHANGED <<dispatchers, transport, abort, early>>
     \/ /\ core = "idle"
        /\ Registering(c, 0)
        /\ early' = ToSet(services)
  /\ UNCHANGED <<coreVars, conns, loopVars, spawned, stopCalled, faults, expired>>

ServiceRegistered(c) ==
  /\ call[c].at = "register"
  /\ Registering(c, call[c].step)
  /\ UNCHANGED <<coreVars, conns, loopVars, spawned, appVars, faults, expired>>

StartReturns(c) ==
  /\ call[c].at = "opened"
  /\ core' = "started"
  /\ Return(c, "ok")
  /\ UNCHANGED <<services, transportVars, loopVars, spawned, appVars, faults, expired>>

stop(c) ==
  /\ Invoke(c)
  /\ stopCalled' = TRUE
  /\ \/ /\ core # "started"
        /\ core' = "stopped"
        /\ Return(c, "ok")
        /\ UNCHANGED <<transport, abort, wakers, conns>>
     \/ /\ core = "started"
        /\ UNCHANGED core
        /\ \/ Inflight = {} /\ TransportStop(c)
           \/ /\ Inflight # {}
              /\ Await(c, "drain", 0)
              /\ UNCHANGED <<transport, abort, wakers, conns>>
  /\ UNCHANGED <<services, dispatchers, loop, left, spawned, early, faults, expired>>

\* the loops keep reading while the core drains
Drained(c) ==
  /\ call[c].at = "drain"
  /\ Inflight = {}
  /\ TransportStop(c)
  /\ UNCHANGED <<coreVars, dispatchers, loop, left, spawned, appVars, faults, expired>>

DrainExpires(c) ==
  /\ call[c].at = "drain"
  /\ expired' = TRUE
  /\ TransportStop(c)
  /\ UNCHANGED <<coreVars, dispatchers, loop, left, spawned, appVars, faults>>

StopReturns(c) ==
  /\ call[c].at = "closed"
  /\ core' = "stopped"
  /\ Return(c, "ok")
  /\ UNCHANGED <<services, transportVars, loopVars, spawned, appVars, faults, expired>>

-----------------------------------------------------------------------------

Init ==
  /\ services = <<>> /\ core = "idle"
  /\ dispatchers = <<>> /\ transport = "idle" /\ abort = FALSE /\ conns = {}
  /\ wakers = {} /\ loop = [l \in Loop |-> "none"] /\ left = [l \in Loop |-> 0]
  /\ spawned = [s \in Service |-> 0]
  /\ call = [c \in Caller |-> [at |-> "none", step |-> 0]]
  /\ result = [c \in Caller |-> "none"]
  /\ stopCalled = FALSE /\ early = {} /\ calls = 0 /\ faults = 0 /\ expired = FALSE

\* the awaits of start and stop that end by themselves
CallStep(c) ==
  \/ ServiceRegistered(c) \/ XgroupDone(c) \/ StartReturns(c)
  \/ Drained(c) \/ DrainExpires(c)
  \/ LoopsSettled(c) \/ ShutdownGraceExpires(c)
  \/ QuitDone(c) \/ StopReturns(c)

\* the awaits of a loop that Redis or stop() end
LoopStep(l) == SleepEnds(l) \/ Obtain(l) \/ ObtainNothing(l) \/ EntryDone(l)

Next ==
  \/ \E s \in Service : registerService(s)
  \/ \E c \in Caller : start(c) \/ stop(c) \/ XgroupFails(c) \/ CallStep(c)
  \/ \E l \in Loop : SleepElapses(l) \/ HandlerReturns(l) \/ EntryFails(l) \/ LoopStep(l)

Spec == Init /\ [][Next]_vars

\* Redis answers and grace timers fire; handlers need not return and the
\* reclaim interval, longer than any grace period, need not elapse
PromptSpec ==
  /\ Spec
  /\ \A c \in Caller : WF_vars(CallStep(c))
  /\ \A l \in Loop : WF_vars(LoopStep(l))

-----------------------------------------------------------------------------
(* Properties.                                                             *)

\* The variables have their types, a reclaim loop's waker exists only while it
\* sleeps, and the entries left belong to a batch in progress.
TypeOK ==
  /\ services \in Seq(Service) /\ dispatchers \in Seq(Service)
  /\ core \in {"idle", "started", "stopped"}
  /\ transport \in {"idle", "started", "stopped"}
  /\ abort \in BOOLEAN /\ stopCalled \in BOOLEAN /\ expired \in BOOLEAN
  /\ conns \subseteq Service
  /\ wakers \subseteq {l \in Loop : loop[l] = "sleep"}
  /\ loop \in [Loop -> {"none", "poll", "sleep", "handle", "ack", "exited"}]
  /\ left \in [Loop -> 0..(BatchMax - 1)]
  /\ \A l \in Loop : left[l] > 0 => loop[l] \in {"handle", "ack"}
  /\ spawned \in [Service -> Nat]
  /\ call \in [Caller -> [at : {"none", "register", "create", "opened", "drain", "settle", "quit", "closed"},
                          step : Nat]]
  /\ result \in [Caller -> {"none", "ok", "error"}]
  /\ early \subseteq Service
  /\ calls \in 0..MaxCalls /\ faults \in 0..MaxFaults

\* However start() calls overlap, fail and are repeated, a service never gets a
\* second pair of loops: they would share one consumer name and one dispatcher
\* (the early assignment of state in ServerRedisTransport.start).
OneLoopPerService == \A s \in Service : spawned[s] <= 1

\* A transport that was stopped within its grace periods has no loop at work, not
\* even one that an overlapping start() spawned late (Promise.race over the loops
\* in stop, the abort check of the loops).
StopIsDrained ==
  transport = "stopped" /\ ~expired => LoopsAtRest

\* A start() that ends well, with no stop() called, has left every registered
\* service with its group and its loops: "server.start() returns once each
\* registered service has its consumer group created and its read loop spawned"
\* (over-redis README). A service registered after the call is not meant.
StartReturnsReady ==
  (\E c \in Caller : result[c] = "ok") /\ ~stopCalled => \A s \in early : spawned[s] > 0

\* start() and stop() return, even if a handler never does (both grace periods).
CallsReturn == \A c \in Caller : call[c].at # "none" ~> call[c].at = "none"

\* Once stop() has raised abort every loop ends unless its handler hangs, without
\* waiting for a reclaim interval to elapse (reclaimWakers, disconnect).
AbortedLoopsExit == abort ~> \A l \in Loop : loop[l] \in {"none", "exited", "handle"}
=============================================================================
