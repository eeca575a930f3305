----------------------------- MODULE PyRedisRpc -----------------------------
(***************************************************************************)
(* One service over Redis streams as the Python transports carry it:       *)
(* client_transport.py and server_transport.py under RpcServerCore         *)
(* (server_core.py). The Redis side is RedisStreams, as for RedisRpc; what *)
(* differs is asyncio. A caller, a handler or a loop may be cancelled at   *)
(* any await; stop() of a server cancels its loops instead of letting them *)
(* finish; send() awaits its XADD before it arms the timeout.              *)
(*                                                                         *)
(* An action is what one task does between two awaits. Each loop of a      *)
(* server is one task, which dispatches entry after entry. A handler may   *)
(* itself await a call of the same service (Inner).                        *)
(***************************************************************************)
EXTENDS RedisStreams

CONSTANTS
  Server,     \* slots for server processes
  Inner,      \* the call that the handler of a message awaits, for those that do
  Garbled,    \* the Junk whose fields are not UTF-8
  Silent,     \* calls whose dispatcher returns None
  None,       \* "no message"
  BatchMax,   \* count of XREADGROUP
  ClaimMax,   \* count of XAUTOCLAIM
  MaxFaults,  \* bound: failed commands, replies JSON cannot represent, dispatchers that
              \* raise, handlers that break their loop, dead processes
  MaxSlow,    \* bound: entries that turn idle while a loop still holds them
  MaxStops    \* bound: stops of servers

Nested == DOMAIN Inner

ASSUME PyAssumption ==
  /\ Call \cap Note = {} /\ Call \cap Junk = {} /\ Note \cap Junk = {}
  /\ Nested \subseteq Call \cup Note
  /\ Inner \in [Nested -> Call \ Nested]
  /\ Garbled \subseteq Junk /\ Silent \subseteq Call /\ None \notin Msg
  /\ BatchMax \in Nat \ {0} /\ ClaimMax \in Nat \ {0} /\ ReplyMaxLen \in Nat \ {0}
  /\ MaxFaults \in Nat /\ MaxSlow \in Nat /\ MaxStops \in Nat

Loop == Server \X {"consume", "reclaim"}
LoopsOf(s) == {l \in Loop : l[1] = s}

VARIABLES
  \* the client transport and the tasks that use it
  client,   \* where the transport is between start() and the end of stop()
  pending,  \* keys of the _pending dict
  future,   \* each call's future
  awaits,   \* the await each caller is at: "xadd", "reply" (timeout armed), "timeout"
  status,   \* what the caller has seen
  \* the server core, its transport and the loops
  server,   \* life of each server
  doomed,   \* loops whose task has been cancelled and has not seen it
  at, cur, todo,
  \* history
  runs,     \* executions of each message's handler, complete or not
  served,   \* messages whose dispatcher has returned
  expired,  \* has a grace period run out
  faults, slow, stops

clientVars  == <<client, pending, future, awaits, status>>
loopVars    == <<at, cur, todo>>
serverVars  == <<server, doomed, loopVars>>
historyVars == <<runs, served, replied, acked, expired>>
budget      == <<faults, slow, stops>>
vars == <<redisVars, clientVars, serverVars, historyVars, budget>>

Fault == faults < MaxFaults /\ faults' = faults + 1

-----------------------------------------------------------------------------
(* The client transport.                                                   *)

\* an inner call is made by a running handler
Issuable(m) ==
  /\ client = "started"
  /\ status[m] = "unsent"
  /\ \A o \in Nested : Inner[o] = m =>
       \E l \in Loop \ doomed : at[l] = "dispatch" /\ cur[l] = o

\* the dict entry is made before the XADD, the timeout armed after it
Send(c) ==
  /\ Issuable(c)
  /\ status' = [status EXCEPT ![c] = "waiting"]
  /\ awaits' = [awaits EXCEPT ![c] = "xadd"]
  /\ future' = [future EXCEPT ![c] = "open"]
  /\ pending' = pending \cup {c}
  /\ UNCHANGED <<redisVars, client, serverVars, historyVars, budget>>

Notify(n) ==
  /\ Issuable(n)
  /\ status' = [status EXCEPT ![n] = "waiting"]
  /\ awaits' = [awaits EXCEPT ![n] = "xadd"]
  /\ UNCHANGED <<redisVars, client, pending, future, serverVars, historyVars, budget>>

XaddDone(m) ==
  /\ awaits[m] = "xadd"
  /\ AddCommand(m)
  /\ awaits' = [awaits EXCEPT ![m] = IF m \in Note THEN "none" ELSE "reply"]
  /\ status' = IF m \in Note THEN [status EXCEPT ![m] = "sent"] ELSE status
  /\ UNCHANGED <<group, pel, idle, replies, replyKey, client, pending, future,
                 serverVars, historyVars, budget>>

\* what the caller sees ends its wait
Ends(S, outcome) ==
  /\ status' = [m \in DOMAIN status |-> IF m \in S THEN outcome ELSE status[m]]
  /\ awaits' = [m \in DOMAIN awaits |-> IF m \in S THEN "none" ELSE awaits[m]]

MaybeAdded(m) == AddCommand(m) \/ UNCHANGED <<stream, fresh>>

\* the XADD raises, the entry having been added or not: a command fails, or
\* stop() closes the connections it owns
XaddFails(m) ==
  /\ awaits[m] = "xadd"
  /\ IF client = "stopped" THEN UNCHANGED faults ELSE Fault
  /\ MaybeAdded(m)
  /\ Ends({m}, "failed")
  /\ pending' = pending \ {m}
  /\ UNCHANGED <<group, pel, idle, replies, replyKey, client, future, serverVars,
                 historyVars, slow, stops>>

\* mutant: an exception of the future is taken for a reply
ReturnsAnything(c) ==
  /\ awaits[c] = "reply"
  /\ future[c] \in {"answered", "stopped"}
  /\ Ends({c}, "answered")
  /\ UNCHANGED <<redisVars, client, pending, future, serverVars, historyVars, budget>>

\* the awaited future has a result or an exception
Return(c) ==
  /\ awaits[c] = "reply"
  /\ future[c] \in {"answered", "stopped"}
  /\ Ends({c}, future[c])
  /\ UNCHANGED <<redisVars, client, pending, future, serverVars, historyVars, budget>>

\* mutant: send() awaits the future without wait_for
NeverFires(c) == FALSE /\ awaits[c] = "reply" /\ UNCHANGED vars

\* wait_for's timeout cancels the future; from Python 3.12 on it also wins over
\* a result the caller has not been given yet
TimerFires(c) ==
  /\ awaits[c] = "reply"
  /\ awaits' = [awaits EXCEPT ![c] = "timeout"]
  /\ future' = [future EXCEPT ![c] = IF @ = "open" THEN "cancelled" ELSE @]
  /\ UNCHANGED <<redisVars, client, pending, status, serverVars, historyVars, budget>>

\* mutant: the entry stays in the dict
TimesOutLeaks(c) ==
  /\ awaits[c] = "timeout"
  /\ Ends({c}, "timeout")
  /\ UNCHANGED <<redisVars, client, pending, future, serverVars, historyVars, budget>>

\* the except clause of send()
TimesOut(c) ==
  /\ awaits[c] = "timeout"
  /\ Ends({c}, "timeout")
  /\ pending' = pending \ {c}
  /\ UNCHANGED <<redisVars, client, future, serverVars, historyVars, budget>>

\* CancelledError at the callers' await: no except clause takes the entry out
Interrupted(S) ==
  /\ Ends(S, "cancelled")
  /\ future' = [c \in Call |-> IF c \in S /\ awaits[c] = "reply" /\ future[c] = "open"
                                 THEN "cancelled" ELSE future[c]]

\* the application cancels a task that awaits send() or notify()
Cancel(m) ==
  /\ awaits[m] # "none"
  /\ IF awaits[m] = "xadd" THEN MaybeAdded(m) ELSE UNCHANGED <<stream, fresh>>
  /\ Interrupted({m})
  /\ UNCHANGED <<group, pel, idle, replies, replyKey, client, pending, serverVars,
                 historyVars, budget>>

\* one XREAD; the entry is popped, and the future set if it is not done
ReplyLoop ==
  /\ client = "started"
  /\ \E n \in 1..Len(replies) :
       LET S == {c \in pending : \E i \in 1..n : replies[i] = c} IN
       /\ replies' = SubSeq(replies, n + 1, Len(replies))
       /\ pending' = pending \ S
       /\ future' = [c \in Call |-> IF c \in S /\ future[c] = "open" THEN "answered"
                                                                      ELSE future[c]]
  /\ UNCHANGED <<stream, group, fresh, pel, idle, replyKey, client, awaits, status,
                 serverVars, historyVars, budget>>

\* stop() refuses calls at once, cancels the reply loop and awaits its end
Stop ==
  /\ client = "started"
  /\ client' = "stopping"
  /\ UNCHANGED <<redisVars, pending, future, awaits, status, serverVars, historyVars, budget>>

StopRejects ==
  /\ client = "stopping"
  /\ client' = "deleting"
  /\ future' = [c \in Call |-> IF c \in pending /\ future[c] = "open" THEN "stopped"
                                                                        ELSE future[c]]
  /\ pending' = {}
  /\ UNCHANGED <<redisVars, awaits, status, serverVars, historyVars, budget>>

\* DEL is answered, or fails and is ignored
StopDeletes ==
  /\ client = "deleting"
  /\ client' = "stopped"
  /\ \/ replies' = <<>> /\ replyKey' = FALSE /\ UNCHANGED faults
     \/ Fault /\ UNCHANGED <<replies, replyKey>>
  /\ UNCHANGED <<stream, group, fresh, pel, idle, pending, future, awaits, status,
                 serverVars, historyVars, slow, stops>>

ForeignAdd(j) ==
  /\ ~InStream(j)
  /\ AddCommand(j)
  /\ UNCHANGED <<group, pel, idle, replies, replyKey, clientVars, serverVars, historyVars,
                 budget>>

-----------------------------------------------------------------------------
(* The server: RpcServerCore over ServerRedisTransport.                    *)

Running(s) == server[s] \in {"started", "draining"}
Busy(s) == \E l \in LoopsOf(s) : at[l] = "dispatch"

\* a fresh core and transport: XGROUP CREATE '$' MKSTREAM, then both loops
Start(s) ==
  /\ server[s] \in {"idle", "stopped"}
  /\ server' = [server EXCEPT ![s] = "started"]
  /\ group' = TRUE
  /\ at' = [l \in Loop |-> IF l[1] = s THEN "poll" ELSE at[l]]
  /\ UNCHANGED <<stream, fresh, pel, idle, replies, replyKey, clientVars, doomed, cur, todo,
                 historyVars, budget>>

\* loop l is at await w with entry m, and S left of its batch
MoveTo(l, w, m, S) ==
  /\ at' = [at EXCEPT ![l] = w]
  /\ cur' = [cur EXCEPT ![l] = m]
  /\ todo' = [todo EXCEPT ![l] = S]

\* mutant: the loop keeps the entry it was at
AbandonKeepsEntry(l) == MoveTo(l, "poll", cur[l], {})

\* the loop's except Exception: what is left of the batch stays in the PEL
Abandon(l) == MoveTo(l, "poll", None, {})

\* _handle_entry on the first entry of S, or the next poll when none is left. An
\* entry that does not parse goes straight to XACK; decode() raises for one that is
\* not UTF-8, outside the try, so that it and the entries after it stay in the PEL.
Proceed(l, S) ==
  \/ /\ S = {}
     /\ MoveTo(l, "poll", None, {})
     /\ UNCHANGED runs
  \/ \E m \in Garbled :
     /\ IsFirst(m, S)
     /\ Abandon(l)
     /\ UNCHANGED runs
  \/ \E m \in S \ Garbled :
     /\ IsFirst(m, S)
     /\ MoveTo(l, IF m \in Junk THEN "ack" ELSE "dispatch", m, S \ {m})
     /\ runs' = [runs EXCEPT ![m] = IF m \in Junk THEN @ ELSE @ + 1]

\* XREADGROUP > with count
Batch == FirstOf(fresh, BatchMax)

Deliver ==
  /\ Batch # {}
  /\ fresh' = fresh \ Batch
  /\ pel' = pel \cup Batch

ReadGroup(s) ==
  /\ Running(s)
  /\ at[<<s, "consume">>] = "poll"
  /\ Deliver /\ Proceed(<<s, "consume">>, Batch)
  /\ UNCHANGED <<stream, group, idle, replies, replyKey, clientVars, server, doomed, served,
                 replied, acked, expired, budget>>

\* the connection goes with XREADGROUP's answer on it
ReadGroupFails(s) ==
  /\ Fault
  /\ Running(s)
  /\ at[<<s, "consume">>] = "poll"
  /\ Deliver
  /\ UNCHANGED <<stream, group, idle, replies, replyKey, clientVars, serverVars, historyVars,
                 slow, stops>>

\* mutant: the claim takes entries that are not idle
AutoClaimAnything(s) ==
  LET batch == FirstOf(pel, ClaimMax) IN
  /\ Running(s)
  /\ at[<<s, "reclaim">>] = "poll"
  /\ batch # {}
  /\ idle' = idle \ batch
  /\ Proceed(<<s, "reclaim">>, batch)
  /\ UNCHANGED <<stream, group, fresh, pel, replies, replyKey, clientVars, server, doomed,
                 served, replied, acked, expired, budget>>

\* the sleep is over: XAUTOCLAIM takes the first idle entries, whosever they are
AutoClaim(s) ==
  LET batch == FirstOf(idle, ClaimMax) IN
  /\ Running(s)
  /\ at[<<s, "reclaim">>] = "poll"
  /\ batch # {}
  /\ idle' = idle \ batch
  /\ Proceed(<<s, "reclaim">>, batch)
  /\ UNCHANGED <<stream, group, fresh, pel, replies, replyKey, clientVars, server, doomed,
                 served, replied, acked, expired, budget>>

\* the inner call of m's handler has ended, or was refused by a client that stops
InnerEnded(m) ==
  m \in Nested => IF status[Inner[m]] = "unsent" THEN client # "started"
                                                 ELSE status[Inner[m]] # "waiting"

\* the dispatcher returns a reply or None; a handler that swallows the
\* CancelledError goes on as if its loop had not been cancelled
Dispatch(l) ==
  /\ at[l] = "dispatch"
  /\ InnerEnded(cur[l])
  /\ served' = served \cup {cur[l]}
  /\ at' = [at EXCEPT ![l] = IF cur[l] \in Call \ Silent THEN "reply" ELSE "ack"]
  /\ doomed' = doomed \ {l}
  /\ UNCHANGED <<redisVars, clientVars, server, cur, todo, runs, replied, acked, expired, budget>>

\* the dispatcher raises: what is not a coroutine cannot be a task, a check of params
\* raises what is no ValidationError, an accepted result cannot be written as JSON
DispatchRaises(l) ==
  /\ Fault
  /\ at[l] = "dispatch"
  /\ InnerEnded(cur[l])
  /\ Abandon(l)
  /\ doomed' = doomed \ {l}
  /\ UNCHANGED <<redisVars, clientVars, server, historyVars, slow, stops>>

\* the handler ends in a CancelledError of its own making, say of a task it
\* awaits: the loop takes it for stop() and returns
HandlerCancelled(l) ==
  /\ Fault
  /\ at[l] = "dispatch"
  /\ InnerEnded(cur[l])
  /\ MoveTo(l, "off", None, {})
  /\ doomed' = doomed \ {l}
  /\ UNCHANGED <<redisVars, clientVars, server, historyVars, slow, stops>>

Reply(l) ==
  /\ at[l] = "reply" /\ l \notin doomed
  /\ AddReply(cur[l])
  /\ at' = [at EXCEPT ![l] = "ack"]
  /\ UNCHANGED <<stream, group, fresh, pel, idle, clientVars, server, doomed, cur, todo, runs,
                 served, acked, expired, budget>>

MaybeReplied(m) == AddReply(m) \/ UNCHANGED <<replies, replyKey, replied>>
MaybeAcked(m) == RemovePending(m) \/ UNCHANGED <<pel, idle, acked>>

\* mutant: the failure is swallowed and the entry acknowledged
ReplyFailsSwallowed(l) ==
  /\ Fault
  /\ at[l] = "reply" /\ l \notin doomed
  /\ MaybeReplied(cur[l])
  /\ at' = [at EXCEPT ![l] = "ack"]
  /\ UNCHANGED <<stream, group, fresh, pel, idle, clientVars, server, doomed, cur, todo, runs,
                 served, acked, expired, slow, stops>>

\* json.dumps(reply) raises, or the XADD does, having been applied or not
ReplyFails(l) ==
  /\ Fault
  /\ at[l] = "reply" /\ l \notin doomed
  /\ MaybeReplied(cur[l])
  /\ Abandon(l)
  /\ UNCHANGED <<stream, group, fresh, pel, idle, clientVars, server, doomed, runs, served,
                 acked, expired, slow, stops>>

Ack(l) ==
  /\ at[l] = "ack" /\ l \notin doomed
  /\ RemovePending(cur[l])
  /\ Proceed(l, todo[l])
  /\ UNCHANGED <<stream, group, fresh, replies, replyKey, clientVars, server, doomed, served,
                 replied, expired, budget>>

AckFails(l) ==
  /\ Fault
  /\ at[l] = "ack" /\ l \notin doomed
  /\ MaybeAcked(cur[l])
  /\ Abandon(l)
  /\ UNCHANGED <<stream, group, fresh, replies, replyKey, clientVars, server, doomed, runs,
                 served, replied, expired, slow, stops>>

\* RpcServerCore.stop() waits for the handlers in flight; the loops keep reading
StopServer(s) ==
  /\ server[s] = "started"
  /\ stops < MaxStops /\ stops' = stops + 1
  /\ server' = [server EXCEPT ![s] = "draining"]
  /\ UNCHANGED <<redisVars, clientVars, doomed, loopVars, historyVars, faults, slow>>

Unended(s) == {l \in LoopsOf(s) : at[l] # "off"}

\* no handler is in flight or grace_ms has passed: the transport's stop() cancels
\* the loops, whatever else they are at
CancelLoops(s) ==
  /\ server[s] = "draining"
  /\ server' = [server EXCEPT ![s] = "cancelled"]
  /\ doomed' = doomed \cup Unended(s)
  /\ expired' = (expired \/ Busy(s))
  /\ UNCHANGED <<redisVars, clientVars, loopVars, runs, served, replied, acked, budget>>

\* shutdown_grace_ms has passed: wait_for cancels what the first cancel did not
\* end, and still waits for it
CancelAgain(s) ==
  /\ server[s] = "cancelled" /\ Unended(s) # {}
  /\ server' = [server EXCEPT ![s] = "expired"]
  /\ doomed' = doomed \cup Unended(s)
  /\ expired' = TRUE
  /\ UNCHANGED <<redisVars, clientVars, loopVars, runs, served, replied, acked, budget>>

\* the handlers of the loops of L end, and with them the calls they await
HandlersEnd(L) ==
  LET awaited == {c \in Call : /\ status[c] = "waiting"
                               /\ \E o \in Nested, l \in L :
                                    Inner[o] = c /\ at[l] = "dispatch" /\ cur[l] = o}
  IN  /\ Interrupted(awaited)
      /\ \/ \E c \in awaited : awaits[c] = "xadd" /\ AddCommand(c)
         \/ UNCHANGED <<stream, fresh>>

\* CancelledError at loop l's await: a command under way is applied or not, a
\* handler is cancelled with the call it awaits, and the loop returns
CancelArrives(l) ==
  /\ l \in doomed
  /\ doomed' = doomed \ {l}
  /\ MoveTo(l, "off", None, {})
  /\ \/ /\ at[l] = "poll"
        /\ (l[2] = "consume" /\ Deliver) \/ UNCHANGED <<fresh, pel>>
        /\ UNCHANGED <<stream, idle, replies, replyKey, replied, acked, future, awaits, status>>
     \/ /\ at[l] = "dispatch"
        /\ HandlersEnd({l})
        /\ UNCHANGED <<pel, idle, replies, replyKey, replied, acked>>
     \/ /\ at[l] = "reply"
        /\ MaybeReplied(cur[l])
        /\ UNCHANGED <<stream, fresh, pel, idle, acked, future, awaits, status>>
     \/ /\ at[l] = "ack"
        /\ MaybeAcked(cur[l])
        /\ UNCHANGED <<stream, fresh, replies, replyKey, replied, future, awaits, status>>
  /\ UNCHANGED <<group, client, pending, server, runs, served, expired, budget>>

\* a loop that outlived its cancellation finds the state no longer "started"
LoopExits(l) ==
  /\ server[l[1]] \in {"cancelled", "expired"}
  /\ at[l] = "poll" /\ l \notin doomed
  /\ MoveTo(l, "off", None, {})
  /\ UNCHANGED <<redisVars, clientVars, server, doomed, historyVars, budget>>

StopReturns(s) ==
  /\ server[s] \in {"cancelled", "expired"}
  /\ Unended(s) = {}
  /\ server' = [server EXCEPT ![s] = "stopped"]
  /\ UNCHANGED <<redisVars, clientVars, doomed, loopVars, historyVars, budget>>

\* the process dies with its loops, its handlers and the calls they await
Crash(s) ==
  /\ Fault
  /\ server[s] # "idle"
  /\ server' = [server EXCEPT ![s] = "idle"]
  /\ doomed' = doomed \ LoopsOf(s)
  /\ at' = [l \in Loop |-> IF l[1] = s THEN "off" ELSE at[l]]
  /\ cur' = [l \in Loop |-> IF l[1] = s THEN None ELSE cur[l]]
  /\ todo' = [l \in Loop |-> IF l[1] = s THEN {} ELSE todo[l]]
  /\ HandlersEnd(LoopsOf(s))
  /\ UNCHANGED <<group, pel, idle, replies, replyKey, client, pending, historyVars, slow, stops>>

Held(l) == todo[l] \cup ({cur[l]} \ {None})
Orphaned(m) == \A l \in Loop : m \notin Held(l)

\* consumer_claim_idle_ms pass without m being delivered or claimed again
OrphanTurnsIdle(m) ==
  /\ m \in pel \ idle
  /\ Orphaned(m)
  /\ idle' = idle \cup {m}
  /\ UNCHANGED <<stream, group, fresh, pel, replies, replyKey, clientVars, serverVars,
                 historyVars, budget>>

HeldTurnsIdle(m) ==
  /\ m \in pel \ idle
  /\ ~Orphaned(m)
  /\ slow < MaxSlow /\ slow' = slow + 1
  /\ idle' = idle \cup {m}
  /\ UNCHANGED <<stream, group, fresh, pel, replies, replyKey, clientVars, serverVars,
                 historyVars, faults, stops>>

-----------------------------------------------------------------------------
\* client.start() has returned and no server has started
Init ==
  /\ stream = <<>> /\ group = FALSE /\ fresh = {} /\ pel = {} /\ idle = {}
  /\ replies = <<>> /\ replyKey = FALSE
  /\ client = "started" /\ pending = {}
  /\ future = [c \in Call |-> "none"]
  /\ awaits = [m \in Call \cup Note |-> "none"]
  /\ status = [m \in Call \cup Note |-> "unsent"]
  /\ server = [s \in Server |-> "idle"]
  /\ doomed = {}
  /\ at = [l \in Loop |-> "off"]
  /\ cur = [l \in Loop |-> None]
  /\ todo = [l \in Loop |-> {}]
  /\ runs = [m \in Msg |-> 0] /\ served = {} /\ replied = {} /\ acked = {}
  /\ expired = FALSE
  /\ faults = 0 /\ slow = 0 /\ stops = 0

ClientNext ==
  \/ \E c \in Call : Send(c) \/ Return(c) \/ TimerFires(c) \/ TimesOut(c)
  \/ \E n \in Note : Notify(n)
  \/ \E m \in Call \cup Note : XaddDone(m) \/ XaddFails(m) \/ Cancel(m)
  \/ ReplyLoop \/ Stop \/ StopRejects \/ StopDeletes

LoopStep(l) == Dispatch(l) \/ Reply(l) \/ Ack(l)

ServerNext ==
  \/ \E s \in Server : \/ Start(s) \/ ReadGroup(s) \/ ReadGroupFails(s) \/ AutoClaim(s)
                       \/ StopServer(s) \/ CancelLoops(s) \/ CancelAgain(s) \/ StopReturns(s)
                       \/ Crash(s)
  \/ \E l \in Loop : \/ LoopStep(l) \/ DispatchRaises(l) \/ HandlerCancelled(l)
                     \/ ReplyFails(l) \/ AckFails(l) \/ CancelArrives(l) \/ LoopExits(l)

RedisNext ==
  \/ \E j \in Junk : ForeignAdd(j)
  \/ \E m \in Msg : OrphanTurnsIdle(m) \/ HeldTurnsIdle(m)

Next == ClientNext \/ ServerNext \/ RedisNext

Spec == Init /\ [][Next]_vars

(* Redis answers, the event loop runs what is ready and fires its timers,   *)
(* pending entries grow old, handlers make their inner calls and return     *)
(* once these have ended. Nobody has to call, cancel, stop, start or fail.  *)
Fairness ==
  /\ \A o \in Nested : WF_vars(Send(Inner[o]))
  /\ \A m \in Call \cup Note : WF_vars(XaddDone(m))
  /\ \A c \in Call : WF_vars(Return(c)) /\ WF_vars(TimerFires(c)) /\ WF_vars(TimesOut(c))
  /\ WF_vars(ReplyLoop)
  /\ \A m \in Msg : WF_vars(OrphanTurnsIdle(m))
  /\ \A s \in Server : WF_vars(ReadGroup(s)) /\ WF_vars(AutoClaim(s)) /\ WF_vars(CancelLoops(s))
  /\ \A l \in Loop : WF_vars(LoopStep(l)) /\ WF_vars(CancelArrives(l))

FairSpec == Spec /\ Fairness

-----------------------------------------------------------------------------
(* Properties.                                                             *)

\* Every variable keeps its type; a caller that waits is at an await, and a loop
\* holds an entry exactly while it is inside _handle_entry.
TypeOK ==
  /\ RedisTypeOK
  /\ client \in {"started", "stopping", "deleting", "stopped"}
  /\ pending \subseteq Call
  /\ future \in [Call -> {"none", "open", "answered", "stopped", "cancelled"}]
  /\ awaits \in [Call \cup Note -> {"none", "xadd", "reply", "timeout"}]
  /\ status \in [Call \cup Note -> {"unsent", "waiting", "sent", "answered", "timeout",
                                   "failed", "stopped", "cancelled"}]
  /\ \A m \in Call \cup Note : status[m] = "waiting" <=> awaits[m] # "none"
  /\ server \in [Server -> {"idle", "started", "draining", "cancelled", "expired", "stopped"}]
  /\ at \in [Loop -> {"off", "poll", "dispatch", "reply", "ack"}]
  /\ cur \in [Loop -> Msg \cup {None}]
  /\ todo \in [Loop -> SUBSET Msg]
  /\ doomed \subseteq {l \in Loop : at[l] # "off"}
  /\ \A l \in Loop : (cur[l] = None) <=> (at[l] \in {"off", "poll"})
  /\ runs \in [Msg -> Nat] /\ served \subseteq Msg /\ replied \subseteq Call
  /\ acked \subseteq Msg /\ expired \in BOOLEAN
  /\ faults \in 0..MaxFaults /\ slow \in 0..MaxSlow /\ stops \in 0..MaxStops

\* At-least-once (_handle_entry): whatever is cancelled, fails or dies, an entry
\* leaves the PEL only when its dispatch has returned and its reply, if it gets
\* one, is on the reply stream.
AckedOnlyWhenServed ==
  \A m \in acked : m \in Junk \/ (m \in served /\ (m \in Call \ Silent => m \in replied))

\* send(), the reply loop, the timeout, stop() and the cancellation of callers
\* agree on the _pending dict: a future that is still open and awaited is in it,
\* so that a reply or stop() finds it, and what is in it without being awaited
\* belongs to a caller that was cancelled.
DictHasTheWaiting ==
  /\ \A c \in Call : status[c] = "waiting" /\ future[c] = "open" => c \in pending
  /\ \A c \in pending : status[c] \in {"waiting", "cancelled"}

\* No entry is in the hands of two loops unless it turned idle while it was held:
\* loops that are cancelled leave their entries before anyone claims them.
HeldOnce ==
  slow = 0 => \A k, l \in Loop : k # l => Held(k) \cap Held(l) = {}

\* Every execution of a handler beyond the first is paid for by a failure, an
\* entry that turned idle while it was held, or a stop of a server.
RunsAreBounded == \A m \in Msg : runs[m] <= 1 + faults + slow + stops

StaysUp(s) == <>[](server[s] = "started")
KeepsLoops(s) == <>[](\A l \in LoopsOf(s) : at[l] # "off")

\* Once some server stays up with both its loops, everything delivered is served
\* and acknowledged, although handlers may wait for calls of their own service
\* that the same consumer loop would have to read. This is against the over-redis
\* README, "Same-service same-server re-entrancy deadlocks": the inner request does not
\* sit "in the stream forever", because the timeout of send() ends the handler's wait.
\* Garbled must be empty: an entry that is not UTF-8 is never acknowledged, and each
\* time it is claimed first it keeps the rest of the batch waiting.
DeliveredIsServed ==
  (\E s \in Server : StaysUp(s) /\ KeepsLoops(s))
     => \A m \in Msg : m \in fresh \cup pel ~> m \in acked

\* The Python transports implement what RpcContract promises.
Contract == INSTANCE RpcContract

ImplementsContract == Contract!Spec

\* The same, with the promise that every call settles, also one that a handler makes
\* of its own service: of that one the over-redis README says "the outer handler waits
\* forever for the inner reply", and it waits no longer than the timeout of send().
ImplementsFairContract == Contract!FairSpec

-----------------------------------------------------------------------------
(* What the documentation says and the code does not do.                   *)

\* py/packages/over-redis/README.md: stop() "drains in-flight handlers up to
\* `grace_ms` (default 5 s) before disconnecting": when every handler returned
\* within its grace and nothing failed, what was executed is answered and
\* acknowledged, and will not be executed again.
DrainedIsDone ==
  (\A s \in Server : server[s] = "stopped") /\ ~expired /\ faults = 0 => served \subseteq acked

\* docs/2026-05-07-clamator-design.md: "Failed handlers (uncaught exception) are
\* mapped to JSON-RPC error responses and the message is acked anyway": no
\* handler can keep a server that stays up from serving what is delivered.
HandlersKeepServing ==
  (\E s \in Server : StaysUp(s)) => \A m \in Msg : m \in fresh \cup pel ~> m \in acked
=============================================================================
