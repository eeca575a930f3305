----------------------------- MODULE MemoryRpc -----------------------------
(***************************************************************************)
(* The in-process transports, @clamator/over-memory and                    *)
(* clamator-over-memory: server cores (server-core.ts, server_core.py) and *)
(* a client in one process, each on a MemoryTransport (transport.ts,       *)
(* transport.py), all on one MemoryBus (bus.ts, bus.py).                   *)
(*                                                                         *)
(* The process has one thread. An action is what runs between two awaits:  *)
(* a call of the application, a microtask or task, a handler that returns, *)
(* a timer. These are taken in any order, which allows more than the       *)
(* engines' first-in first-out queues. In TypeScript every await yields;   *)
(* in Python only one that has to wait, but there a caller or a handler    *)
(* can be cancelled, and its future may be done before the caller goes on. *)
(***************************************************************************)
EXTENDS FiniteSets

CONSTANTS
  Server,    \* server cores, each on a transport of its own
  Service,
  Provides,  \* the services registered on each core before its start
  Call,      \* requests the client sends
  Note,      \* notifications the client sends
  To,        \* the service each message names
  None       \* "no server"

Msg == Call \cup Note

ASSUME MemoryAssumption ==
  /\ Call \cap Note = {}
  /\ Provides \in [Server -> SUBSET Service]
  /\ To \in [Msg -> Service]
  /\ None \notin Server

VARIABLES
  language,   \* of the process
  \* MemoryBus
  bus,        \* whose dispatcher each service has
  \* the server cores and their transports
  core,       \* state of each core
  transport,  \* state of each core's transport
  own,        \* myServices of each core's transport
  step,       \* await each core's start or stop is at
  left,       \* services the core's start has not reached
  owed,       \* handlers in flight when the core's stop was called
  expired,    \* cores whose grace period ran out
  \* the client core and its transport
  clientCore, \* state of the core
  awaits,     \* which of the core's start and stop await their transport
  client,     \* state of the transport
  pending,    \* keys of its pending map
  timer,      \* calls with an armed timer (Python: callers at wait_for)
  future,     \* Python: the future of each call
  status,     \* what the caller has seen
  \* the messages' way
  via,        \* whose dispatcher the message got from the bus
  at,         \* where the message is
  outcome,    \* what its dispatcher came to
  served      \* messages a dispatcher has completed for

serverVars == <<language, bus, core, transport, own, step, left, owed, expired>>
coreVars == <<clientCore, awaits>>
promiseVars == <<pending, timer, future, status>>
clientVars == <<coreVars, client, promiseVars>>
messageVars == <<via, at, outcome, served>>
vars == <<serverVars, clientVars, messageVars>>

Inflight(s) == {m \in Msg : at[m] = "handler" /\ via[m] = s}

-----------------------------------------------------------------------------
(* The client: RpcClientCore.start and stop over those of MemoryTransport, *)
(* and MemoryTransport.send and notify, which look at the transport only.  *)

ClientStarts ==
  /\ clientCore = "idle" /\ client # "stopped"
  /\ client' = "started"
  /\ \/ language = "ts" /\ awaits' = awaits \cup {"start"} /\ UNCHANGED clientCore
     \/ language = "py" /\ clientCore' = "started" /\ UNCHANGED awaits
  /\ UNCHANGED <<serverVars, promiseVars, messageVars>>

\* whatever has happened to the core meanwhile
ClientStartReturns ==
  /\ "start" \in awaits
  /\ clientCore' = "started"
  /\ awaits' = awaits \ {"start"}
  /\ UNCHANGED <<serverVars, client, promiseVars, messageVars>>

\* the futures of the calls of S that are not done become result
Sets(S, result) ==
  future' = [c \in Call |-> IF c \in S /\ future[c] = "open" THEN result ELSE future[c]]

\* the callers of S see result
Ends(S, result) ==
  /\ timer' = timer \ S
  /\ status' = [m \in Msg |-> IF m \in S THEN result ELSE status[m]]

\* TypeScript's this.pending.delete, clearTimeout, resolve or reject
Settle(S, result) == pending' = pending \ S /\ Ends(S, result) /\ UNCHANGED future

\* mutant: the dispatcher is not looked at before it is scheduled
SendUnchecked(c) ==
  /\ client = "started"
  /\ status[c] = "unsent"
  /\ status' = [status EXCEPT ![c] = "waiting"]
  /\ pending' = pending \cup {c}
  /\ timer' = timer \cup {c}
  /\ future' = [future EXCEPT ![c] = IF language = "py" THEN "open" ELSE "none"]
  /\ via' = [via EXCEPT ![c] = bus[To[c]]]
  /\ at' = [at EXCEPT ![c] = "queued"]
  /\ UNCHANGED <<serverVars, coreVars, client, outcome, served>>

\* the pending entry is made and the dispatch scheduled in one go
Send(c) ==
  /\ client = "started"
  /\ status[c] = "unsent"
  /\ bus[To[c]] # None
  /\ status' = [status EXCEPT ![c] = "waiting"]
  /\ pending' = pending \cup {c}
  /\ timer' = timer \cup {c}
  /\ future' = [future EXCEPT ![c] = IF language = "py" THEN "open" ELSE "none"]
  /\ via' = [via EXCEPT ![c] = bus[To[c]]]
  /\ at' = [at EXCEPT ![c] = "queued"]
  /\ UNCHANGED <<serverVars, coreVars, client, outcome, served>>

\* nobody has the service: send returns a "Method not found" response
SendUnserved(c) ==
  /\ client = "started"
  /\ status[c] = "unsent"
  /\ bus[To[c]] = None
  /\ status' = [status EXCEPT ![c] = "waiting"]
  /\ at' = [at EXCEPT ![c] = "unserved"]
  /\ UNCHANGED <<serverVars, coreVars, client, pending, timer, future, via, outcome, served>>

\* a notification nobody serves is dropped
Notify(n) ==
  /\ client = "started"
  /\ status[n] = "unsent"
  /\ status' = [status EXCEPT ![n] = "waiting"]
  /\ via' = [via EXCEPT ![n] = bus[To[n]]]
  /\ at' = [at EXCEPT ![n] = IF bus[To[n]] = None THEN "unserved" ELSE "queued"]
  /\ UNCHANGED <<serverVars, coreVars, client, pending, timer, future, outcome, served>>

\* an async function that returned without awaiting
Resolves(m) ==
  /\ status[m] = "waiting"
  /\ \/ m \in Note /\ status' = [status EXCEPT ![m] = "sent"]
     \/ m \in Call /\ at[m] = "unserved" /\ status' = [status EXCEPT ![m] = "failed"]
  /\ UNCHANGED <<serverVars, coreVars, client, pending, timer, future, messageVars>>

\* the timer's callback; Python's wait_for cancels the future and wins, from 3.12
\* on, over a result the caller has not been given yet
Timeout(c) ==
  /\ c \in timer
  /\ \/ language = "ts" /\ Settle({c}, "timeout")
     \/ /\ language = "py"
        /\ timer' = timer \ {c}
        /\ Sets({c}, "cancelled")
        /\ UNCHANGED <<pending, status>>
  /\ UNCHANGED <<serverVars, coreVars, client, messageVars>>

\* Python: the except clause of send
TimesOut(c) ==
  /\ status[c] = "waiting" /\ future[c] # "none" /\ c \notin timer
  /\ pending' = pending \ {c}
  /\ Ends({c}, "timeout")
  /\ UNCHANGED <<serverVars, coreVars, client, future, messageVars>>

\* Python: the caller is given what its future was set to
Return(c) ==
  /\ c \in timer /\ future[c] \in {"answered", "failed", "stopped"}
  /\ Ends({c}, future[c])
  /\ UNCHANGED <<serverVars, coreVars, client, pending, future, messageVars>>

\* Python: the task that awaits send is cancelled; no except clause takes the
\* entry out of the dict
Cancel(c) ==
  /\ status[c] = "waiting" /\ future[c] # "none"
  /\ Sets({c}, "cancelled")
  /\ Ends({c}, "cancelled")
  /\ UNCHANGED <<serverVars, coreVars, client, pending, messageVars>>

\* mutant: the pending promises are forgotten, their timers cleared
ClientStopsSilently ==
  /\ clientCore = "started" /\ language = "ts"
  /\ awaits' = awaits \cup {"stop"}
  /\ client' = "stopped"
  /\ pending' = {} /\ timer' = {}
  /\ UNCHANGED <<serverVars, clientCore, future, status, messageVars>>

\* the transport of a core that is not started is left as it is; a client has no
\* services to take off the bus
ClientStops ==
  \/ /\ clientCore # "started"
     /\ clientCore' = "stopped"
     /\ UNCHANGED <<serverVars, awaits, client, promiseVars, messageVars>>
  \/ /\ clientCore = "started" /\ language = "ts"
     /\ awaits' = awaits \cup {"stop"}
     /\ client' = "stopped"
     /\ Settle(pending, "stopped")
     /\ UNCHANGED <<serverVars, clientCore, messageVars>>
  \/ /\ clientCore = "started" /\ language = "py"
     /\ clientCore' = "stopped" /\ client' = "stopped"
     /\ Sets(pending, "stopped")
     /\ pending' = {}
     /\ UNCHANGED <<serverVars, awaits, timer, status, messageVars>>

ClientStopReturns ==
  /\ "stop" \in awaits
  /\ clientCore' = "stopped"
  /\ awaits' = awaits \ {"stop"}
  /\ UNCHANGED <<serverVars, client, promiseVars, messageVars>>

-----------------------------------------------------------------------------
(* A message: microtask or task, dispatcher, reply.                        *)

Dispatch(m) ==
  /\ at[m] = "queued"
  /\ at' = [at EXCEPT ![m] = "handler"]
  /\ UNCHANGED <<serverVars, clientVars, via, outcome, served>>

\* what a dispatcher comes to: a response, null (None), a rejection (an
\* exception) or, in Python, a CancelledError of the handler's own
Came(m, o) ==
  /\ m \in Note => o # "reply"
  /\ outcome' = [outcome EXCEPT ![m] = o]
  /\ served' = IF o = "cancelled" THEN served ELSE served \cup {m}

\* TypeScript
DispatcherReturns(m) ==
  /\ language = "ts" /\ at[m] = "handler"
  /\ at' = [at EXCEPT ![m] = "returned"]
  /\ \E o \in {"reply", "null", "throw"} : Came(m, o)
  /\ UNCHANGED <<serverVars, clientVars, via>>

\* the microtask goes on after its await: the caller may be gone
Replied(c) ==
  /\ at[c] = "returned"
  /\ at' = [at EXCEPT ![c] = "done"]
  /\ \/ c \in pending /\ Settle({c}, IF outcome[c] = "reply" THEN "answered" ELSE "failed")
     \/ c \notin pending /\ UNCHANGED promiseVars
  /\ UNCHANGED <<serverVars, coreVars, client, via, outcome, served>>

\* mutant: the runner leaves the entry when the future is done
RunnerReturnsEarly(m) ==
  /\ language = "py" /\ at[m] = "handler"
  /\ at' = [at EXCEPT ![m] = "done"]
  /\ \E o \in {"reply", "null", "throw", "cancelled"} :
       /\ Came(m, o)
       /\ IF m \in pending /\ o # "cancelled" /\ future[m] = "open"
            THEN pending' = pending \ {m} /\ Sets({m}, IF o = "reply" THEN "answered" ELSE "failed")
            ELSE UNCHANGED <<pending, future>>
  /\ UNCHANGED <<serverVars, coreVars, client, timer, status, via>>

\* Python: the runner goes on in the same step. It takes the entry out whatever
\* has become of the future, and what set_result raises of a future that is done
\* is logged; its except clause does not see a CancelledError.
RunnerReturns(m) ==
  /\ language = "py" /\ at[m] = "handler"
  /\ at' = [at EXCEPT ![m] = "done"]
  /\ \E o \in {"reply", "null", "throw", "cancelled"} :
       /\ Came(m, o)
       /\ \/ /\ m \in pending /\ o # "cancelled"
             /\ pending' = pending \ {m}
             /\ Sets({m}, IF o = "reply" THEN "answered" ELSE "failed")
          \/ /\ m \notin pending \/ o = "cancelled"
             /\ UNCHANGED <<pending, future>>
  /\ UNCHANGED <<serverVars, coreVars, client, timer, status, via>>

-----------------------------------------------------------------------------
(* A server: RpcServerCore.start and stop over MemoryTransport.            *)

At(s, where) == step' = [step EXCEPT ![s] = where]

\* MemoryTransport.registerService for the services of S, which nobody has
Takes(s, S) ==
  /\ bus' = [x \in Service |-> IF x \in S THEN s ELSE bus[x]]
  /\ own' = [own EXCEPT ![s] = @ \cup S]

Free(S) == {x \in S : bus[x] = None}

\* TypeScript
start(s) ==
  /\ language = "ts"
  /\ core[s] = "idle" /\ step[s] = "none"
  /\ left' = [left EXCEPT ![s] = Provides[s]]
  /\ At(s, "register")
  /\ UNCHANGED <<language, bus, core, transport, own, owed, expired, clientVars, messageVars>>

\* mutant: the service is taken over, and noted as one's own
RegistersAnyway(s) ==
  /\ step[s] = "register"
  /\ \E x \in left[s] :
       /\ Takes(s, {x})
       /\ left' = [left EXCEPT ![s] = @ \ {x}]
  /\ UNCHANGED <<language, core, transport, step, owed, expired, clientVars, messageVars>>

Registers(s) ==
  /\ step[s] = "register"
  /\ \E x \in Free(left[s]) :
       /\ Takes(s, {x})
       /\ left' = [left EXCEPT ![s] = @ \ {x}]
  /\ UNCHANGED <<language, core, transport, step, owed, expired, clientVars, messageVars>>

\* the bus refuses a service somebody has
RegisterFails(s) ==
  /\ step[s] = "register"
  /\ Free(left[s]) # left[s]
  /\ At(s, "none")
  /\ UNCHANGED <<language, bus, core, transport, own, left, owed, expired, clientVars,
                 messageVars>>

TransportStarts(s) ==
  /\ step[s] = "register" /\ left[s] = {}
  /\ transport' = [transport EXCEPT ![s] = "started"]
  /\ At(s, "opened")
  /\ UNCHANGED <<language, bus, core, own, left, owed, expired, clientVars, messageVars>>

StartReturns(s) ==
  /\ step[s] = "opened"
  /\ core' = [core EXCEPT ![s] = "started"]
  /\ At(s, "none")
  /\ UNCHANGED <<language, bus, transport, own, left, owed, expired, clientVars, messageVars>>

\* Python: start does not wait for anything; what it registered before the bus
\* refused a service stays registered
StartAtOnce(s) ==
  /\ language = "py"
  /\ core[s] = "idle"
  /\ \/ /\ Free(Provides[s]) = Provides[s]
        /\ Takes(s, Provides[s])
        /\ transport' = [transport EXCEPT ![s] = "started"]
        /\ core' = [core EXCEPT ![s] = "started"]
     \/ /\ Free(Provides[s]) # Provides[s]
        /\ \E S \in SUBSET Free(Provides[s]) : Takes(s, S)
        /\ UNCHANGED <<transport, core>>
  /\ UNCHANGED <<language, step, left, owed, expired, clientVars, messageVars>>

\* one's own services leave the bus; Python's stop of the core ends with it
TransportStops(s) ==
  /\ transport' = [transport EXCEPT ![s] = "stopped"]
  /\ bus' = [x \in Service |-> IF x \in own[s] THEN None ELSE bus[x]]
  /\ own' = [own EXCEPT ![s] = {}]
  /\ \/ language = "ts" /\ At(s, "closed") /\ UNCHANGED core
     \/ language = "py" /\ At(s, "none") /\ core' = [core EXCEPT ![s] = "stopped"]

\* a core that is not started is stopped at once, even in the middle of a start
stop(s) ==
  \/ /\ core[s] # "started"
     /\ core' = [core EXCEPT ![s] = "stopped"]
     /\ UNCHANGED <<language, bus, transport, own, step, left, owed, expired, clientVars,
                    messageVars>>
  \/ /\ core[s] = "started" /\ step[s] = "none"
     /\ owed' = [owed EXCEPT ![s] = Inflight(s)]
     /\ \/ Inflight(s) = {} /\ TransportStops(s)
        \/ Inflight(s) # {} /\ At(s, "drain") /\ UNCHANGED <<bus, core, transport, own>>
     /\ UNCHANGED <<language, left, expired, clientVars, messageVars>>

\* mutant: the drain is skipped
DrainSkipped(s) ==
  /\ step[s] = "drain"
  /\ TransportStops(s)
  /\ UNCHANGED <<language, left, owed, expired, clientVars, messageVars>>

Drained(s) ==
  /\ step[s] = "drain" /\ Inflight(s) = {}
  /\ TransportStops(s)
  /\ UNCHANGED <<language, left, owed, expired, clientVars, messageVars>>

DrainExpires(s) ==
  /\ step[s] = "drain"
  /\ expired' = expired \cup {s}
  /\ TransportStops(s)
  /\ UNCHANGED <<language, left, owed, clientVars, messageVars>>

StopReturns(s) ==
  /\ step[s] = "closed"
  /\ core' = [core EXCEPT ![s] = "stopped"]
  /\ At(s, "none")
  /\ UNCHANGED <<language, bus, transport, own, left, owed, expired, clientVars, messageVars>>

-----------------------------------------------------------------------------

Init ==
  /\ language \in {"ts", "py"}
  /\ bus = [x \in Service |-> None]
  /\ core = [s \in Server |-> "idle"] /\ transport = [s \in Server |-> "idle"]
  /\ own = [s \in Server |-> {}] /\ step = [s \in Server |-> "none"]
  /\ left = [s \in Server |-> {}] /\ owed = [s \in Server |-> {}] /\ expired = {}
  /\ clientCore = "idle" /\ awaits = {} /\ client = "idle" /\ pending = {} /\ timer = {}
  /\ future = [c \in Call |-> "none"]
  /\ status = [m \in Msg |-> "unsent"]
  /\ via = [m \in Msg |-> None] /\ at = [m \in Msg |-> "new"]
  /\ outcome = [m \in Msg |-> "none"] /\ served = {}

ClientStep ==
  \/ ClientStarts \/ ClientStartReturns \/ ClientStops \/ ClientStopReturns
  \/ \E c \in Call : Send(c) \/ SendUnserved(c) \/ Timeout(c)
                    \/ TimesOut(c) \/ Return(c) \/ Cancel(c)
  \/ \E n \in Note : Notify(n)
  \/ \E m \in Msg : Resolves(m)

MessageStep ==
  \/ \E m \in Msg : Dispatch(m) \/ DispatcherReturns(m) \/ RunnerReturns(m)
  \/ \E c \in Call : Replied(c)

ServerStep ==
  \E s \in Server :
    \/ start(s) \/ StartAtOnce(s) \/ Registers(s) \/ RegisterFails(s) \/ TransportStarts(s) \/ StartReturns(s)
    \/ stop(s) \/ Drained(s) \/ DrainExpires(s) \/ StopReturns(s)

Next == ClientStep \/ MessageStep \/ ServerStep

Spec == Init /\ [][Next]_vars

\* timers fire, and microtasks and tasks run; handlers need not return, and nobody
\* has to send, cancel, start or stop
FairSpec ==
  /\ Spec
  /\ \A c \in Call : WF_vars(Timeout(c)) /\ WF_vars(TimesOut(c)) /\ WF_vars(Return(c))
  /\ \A m \in Msg : WF_vars(Resolves(m))

-----------------------------------------------------------------------------
(* Properties.                                                             *)

\* The variables have their types; what is on its way has got a dispatcher.
TypeOK ==
  /\ language \in {"ts", "py"}
  /\ bus \in [Service -> Server \cup {None}]
  /\ core \in [Server -> {"idle", "started", "stopped"}]
  /\ transport \in [Server -> {"idle", "started", "stopped"}]
  /\ own \in [Server -> SUBSET Service] /\ left \in [Server -> SUBSET Service]
  /\ step \in [Server -> {"none", "register", "opened", "drain", "closed"}]
  /\ owed \in [Server -> SUBSET Msg] /\ expired \subseteq Server
  /\ clientCore \in {"idle", "started", "stopped"} /\ awaits \subseteq {"start", "stop"}
  /\ client \in {"idle", "started", "stopped"}
  /\ pending \subseteq Call /\ timer \subseteq Call
  /\ future \in [Call -> {"none", "open", "answered", "failed", "stopped", "cancelled"}]
  /\ status \in [Msg -> {"unsent", "waiting", "sent", "answered", "timeout", "failed", "stopped",
                         "cancelled"}]
  /\ via \in [Msg -> Server \cup {None}]
  /\ at \in [Msg -> {"new", "unserved", "queued", "handler", "returned", "done"}]
  /\ \A m \in Msg : at[m] \in {"queued", "handler", "returned", "done"} => via[m] # None
  /\ outcome \in [Msg -> {"none", "reply", "null", "throw", "cancelled"}]
  /\ served \subseteq Msg

\* In TypeScript the pending map holds exactly the calls that were given to a
\* dispatcher and are not settled, each with its timer: no outcome of a call, late
\* reply and stop() included, leaves an entry or a timer behind (Settle in send
\* and stop). In Python a caller whose future is not done is found in the dict by
\* the runner or by stop(), and an entry whose caller is gone is that of a
\* cancelled caller whose runner has yet to end, or ended in a cancellation too.
PendingIsWaiting ==
  LET waiting == {c \in Call : status[c] = "waiting" /\ at[c] # "unserved"} IN
  /\ language = "ts" => pending = waiting /\ timer = pending
  /\ language = "py" =>
       /\ {c \in waiting : future[c] = "open"} \subseteq pending
       /\ \A c \in pending \ waiting :
            status[c] = "cancelled" /\ (at[c] \in {"queued", "handler"} \/ outcome[c] = "cancelled")

\* The bus and every transport's myServices agree, so that stopping one server
\* takes none of another's services off the bus, however registrations were
\* refused before (registerService: bus.register throws before myServices.add).
BusIsOwned == \A s \in Server : own[s] = {x \in Service : bus[x] = s}

\* Handlers in flight when stop() was called have returned when it returns,
\* unless its grace period ran out (the drain in RpcServerCore.stop).
DrainedStop ==
  \A s \in Server :
    core[s] = "stopped" /\ step[s] = "none" /\ s \notin expired => owed[s] \cap Inflight(s) = {}

Contract == INSTANCE RpcContract

\* A call settles once, is answered only after a dispatcher completed for it, and
\* always settles: its timer or the end of send's own coroutine sees to it.
ImplementsFairContract == Contract!FairSpec
=============================================================================
