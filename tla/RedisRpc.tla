------------------------------ MODULE RedisRpc ------------------------------
(***************************************************************************)
(* One service carried over Redis streams by @clamator/over-redis: a       *)
(* client transport (client-transport.ts) that XADDs envelopes to the      *)
(* command stream and waits for answers on its own reply stream, and a     *)
(* pool of server transports (server-transport.ts), each with a consumer   *)
(* loop (XREADGROUP) and a reclaim loop (XAUTOCLAIM) that hand every entry *)
(* they obtain to handleEntry: dispatch, XADD the reply, XACK.             *)
(*                                                                         *)
(* One action is one stretch of code between two awaits together with the  *)
(* Redis command it ends in, so that everything else may happen between    *)
(* any two of them: other loops, other servers, the client's timers, a     *)
(* command that fails, a process that dies.                                *)
(*                                                                         *)
(* Redis itself, as far as the code uses it, is RedisStreams.              *)
(***************************************************************************)
EXTENDS RedisStreams

CONSTANTS
  Server,       \* server transports of the pool (slots: a new process may take a dead one's)
  Silent,       \* calls whose dispatcher returns null
  Throwing,     \* messages whose dispatcher rejects
  None,         \* "no message"
  BatchMax,     \* COUNT of XREADGROUP
  ClaimMax,     \* COUNT of XAUTOCLAIM
  MaxFaults,    \* bound: failed commands, replies JSON cannot represent, dead processes
  MaxSlow       \* bound: entries that turn idle while a loop still holds them

ASSUME MessagesAssumption ==
  /\ Call \cap Note = {} /\ Call \cap Junk = {} /\ Note \cap Junk = {}
  /\ Silent \subseteq Call
  /\ Throwing \subseteq Call \cup Note
  /\ None \notin Msg

ASSUME BoundsAssumption ==
  /\ BatchMax \in Nat \ {0} /\ ClaimMax \in Nat \ {0} /\ ReplyMaxLen \in Nat \ {0}
  /\ MaxFaults \in Nat /\ MaxSlow \in Nat

Loop == Server \X {"consume", "reclaim"}

VARIABLES
  \* the client transport
  client,    \* where the transport is between start() and the end of stop()
  sending,   \* messages whose XADD has been issued and not answered
  pending,   \* keys of the pending map
  timer,     \* calls with an armed timer
  status,    \* what the caller's promise has become
  \* the server transports
  server,    \* life of each transport
  at,        \* await each loop is at
  cur,       \* entry each loop has in handleEntry
  todo,      \* rest of the batch each loop has obtained
  \* history
  runs,      \* completed dispatches of each message
  faults, slow

clientVars == <<client, sending, pending, timer, status>>
loopVars   == <<at, cur, todo>>
historyVars == <<runs, replied, acked>>
budget     == <<faults, slow>>
vars == <<redisVars, clientVars, server, loopVars, historyVars, budget>>

Fault == faults < MaxFaults /\ faults' = faults + 1

-----------------------------------------------------------------------------
(* The client transport.                                                   *)

Accepting == client # "stopped"

\* messages whose promise the executor of send() or notify() has rejected
Refused == {m \in DOMAIN status : status[m] = "refused"}

\* this.pending.delete(id) and clearTimeout for the calls of S, whose promises
\* become outcome, those already rejected excepted
Settle(S, outcome) ==
  /\ pending' = pending \ S
  /\ timer' = timer \ S
  /\ status' = [m \in DOMAIN status |-> IF m \in S \ Refused THEN outcome ELSE status[m]]

\* send() or notify() is called with m
Issuable(m) == Accepting /\ status[m] = "unsent"

\* mutant: no timer is armed
SendWithoutTimer(c) ==
  /\ Issuable(c)
  /\ status' = [status EXCEPT ![c] = "waiting"]
  /\ pending' = pending \cup {c}
  /\ sending' = sending \cup {c}
  /\ UNCHANGED <<redisVars, client, timer, server, loopVars, historyVars, budget>>

Send(c) ==
  /\ Issuable(c)
  /\ status' = [status EXCEPT ![c] = "waiting"]
  /\ pending' = pending \cup {c}
  /\ timer' = timer \cup {c}
  /\ sending' = sending \cup {c}
  /\ UNCHANGED <<redisVars, client, server, loopVars, historyVars, budget>>

Notify(n) ==
  /\ Issuable(n)
  /\ status' = [status EXCEPT ![n] = "waiting"]
  /\ sending' = sending \cup {n}
  /\ UNCHANGED <<redisVars, client, pending, timer, server, loopVars, historyVars, budget>>

\* mutant: the entry is set before the timer is armed, and the throw comes between
SendThrowsUnarmed(m) ==
  /\ Issuable(m)
  /\ status' = [status EXCEPT ![m] = "refused"]
  /\ pending' = pending \cup ({m} \cap Call)
  /\ UNCHANGED <<redisVars, client, sending, timer, server, loopVars, historyVars, budget>>

\* JSON.stringify refuses m's params (a BigInt, a cycle) and there is no XADD: the
\* promise is rejected at once; the map entry and the timer send() has made stay
SendThrows(m) ==
  /\ Issuable(m)
  /\ status' = [status EXCEPT ![m] = "refused"]
  /\ pending' = pending \cup ({m} \cap Call)
  /\ timer' = timer \cup ({m} \cap Call)
  /\ UNCHANGED <<redisVars, client, sending, server, loopVars, historyVars, budget>>

\* the XADD of send() or notify() succeeds; only notify() awaits it
XaddDone(m) ==
  /\ m \in sending
  /\ sending' = sending \ {m}
  /\ AddCommand(m)
  /\ status' = IF m \in Note THEN [status EXCEPT ![m] = "sent"] ELSE status
  /\ UNCHANGED <<group, pel, idle, replies, replyKey, client, pending, timer,
                 server, loopVars, historyVars, budget>>

\* mutant: the catch rejects without looking the call up in the pending map
XaddFailsBlindly(m) ==
  /\ Fault
  /\ m \in sending
  /\ sending' = sending \ {m}
  /\ AddCommand(m) \/ UNCHANGED <<stream, fresh>>
  /\ Settle({m}, "failed")
  /\ UNCHANGED <<group, pel, idle, replies, replyKey, client, server, loopVars,
                 historyVars, slow>>

\* the XADD rejects: the entry may have been added all the same
XaddFails(m) ==
  /\ Fault
  /\ m \in sending
  /\ sending' = sending \ {m}
  /\ AddCommand(m) \/ UNCHANGED <<stream, fresh>>
  /\ IF m \in Note
       THEN status' = [status EXCEPT ![m] = "failed"] /\ UNCHANGED <<pending, timer>>
       ELSE Settle({m} \cap pending, "failed")
  /\ UNCHANGED <<group, pel, idle, replies, replyKey, client, server, loopVars,
                 historyVars, slow>>

\* mutant: the timer rejects and leaves the pending map as it is
TimeoutLeaks(c) ==
  /\ c \in timer
  /\ timer' = timer \ {c}
  /\ status' = [status EXCEPT ![c] = IF c \in Refused THEN @ ELSE "timeout"]
  /\ UNCHANGED <<redisVars, client, sending, pending, server, loopVars, historyVars, budget>>

\* the timer's callback; it does not look at the map before it rejects
Timeout(c) ==
  /\ c \in timer
  /\ Settle({c}, "timeout")
  /\ UNCHANGED <<redisVars, client, sending, server, loopVars, historyVars, budget>>

\* mutant: replies are not matched to calls by id
RepliesUnmatched ==
  /\ client \in {"started", "aborting"}
  /\ replies # <<>>
  /\ replies' = <<>>
  /\ Settle(pending, "answered")
  /\ UNCHANGED <<stream, group, fresh, pel, idle, replyKey, client, sending,
                 server, loopVars, historyVars, budget>>

\* mutant: only the last reply of a batch is looked at
LastReplyOnly ==
  /\ client \in {"started", "aborting"}
  /\ \E n \in 1..Len(replies) :
       /\ replies' = SubSeq(replies, n + 1, Len(replies))
       /\ Settle({replies[n]} \cap pending, "answered")
  /\ UNCHANGED <<stream, group, fresh, pel, idle, replyKey, client, sending,
                 server, loopVars, historyVars, budget>>

\* mutant: a resolved call keeps its timer
ReplyKeepsTimer ==
  /\ client \in {"started", "aborting"}
  /\ \E n \in 1..Len(replies) :
       LET S == {c \in pending : \E i \in 1..n : replies[i] = c} IN
       /\ replies' = SubSeq(replies, n + 1, Len(replies))
       /\ pending' = pending \ S
       /\ status' = [m \in DOMAIN status |-> IF m \in S THEN "answered" ELSE status[m]]
  /\ UNCHANGED <<stream, group, fresh, pel, idle, replyKey, client, sending, timer,
                 server, loopVars, historyVars, budget>>

\* XREAD after lastId, and the loop over what it returned, which runs to its end
\* before anything else: a reply nobody waits for is skipped
RunReplyLoop ==
  /\ client \in {"started", "aborting"}
  /\ \E n \in 1..Len(replies) :
       /\ replies' = SubSeq(replies, n + 1, Len(replies))
       /\ Settle({c \in pending : \E i \in 1..n : replies[i] = c}, "answered")
  /\ UNCHANGED <<stream, group, fresh, pel, idle, replyKey, client, sending,
                 server, loopVars, historyVars, budget>>

\* stop() sets replyLoopAbort, disconnects and awaits the reply loop
Stop ==
  /\ client = "started"
  /\ client' = "aborting"
  /\ UNCHANGED <<redisVars, sending, pending, timer, status, server, loopVars,
                 historyVars, budget>>

\* the reply loop has returned: every pending call is rejected, DEL is issued
StopRejects ==
  /\ client = "aborting"
  /\ client' = "deleting"
  /\ Settle(pending, "stopped")
  /\ UNCHANGED <<redisVars, sending, server, loopVars, historyVars, budget>>

\* DEL of the reply stream is answered, or fails and is ignored
StopDeletes ==
  /\ client = "deleting"
  /\ client' = "quitting"
  /\ \/ replies' = <<>> /\ replyKey' = FALSE /\ UNCHANGED faults
     \/ Fault /\ UNCHANGED <<replies, replyKey>>
  /\ UNCHANGED <<stream, group, fresh, pel, idle, sending, pending, timer, status,
                 server, loopVars, historyVars, slow>>

\* the connections are closed; only now does send() refuse
StopReturns ==
  /\ client = "quitting"
  /\ client' = "stopped"
  /\ UNCHANGED <<redisVars, sending, pending, timer, status, server, loopVars,
                 historyVars, budget>>

\* an entry handleEntry will not dispatch, added by another program
ForeignAdd(j) ==
  /\ ~InStream(j)
  /\ AddCommand(j)
  /\ UNCHANGED <<group, pel, idle, replies, replyKey, clientVars, server, loopVars,
                 historyVars, budget>>

-----------------------------------------------------------------------------
(* The server transports.                                                  *)

\* start(): XGROUP CREATE '$' MKSTREAM, BUSYGROUP ignored, then both loops
Start(s) ==
  /\ server[s] = "idle"
  /\ server' = [server EXCEPT ![s] = "started"]
  /\ group' = TRUE
  /\ at' = [l \in Loop |-> IF l[1] = s THEN "poll" ELSE at[l]]
  /\ UNCHANGED <<stream, fresh, pel, idle, replies, replyKey, clientVars, cur, todo,
                 historyVars, budget>>

\* mutant: what does not decode is dispatched all the same
ProceedDispatchesAll(l, S) ==
  \/ /\ S = {}
     /\ at' = [at EXCEPT ![l] = "poll"]
     /\ cur' = [cur EXCEPT ![l] = None]
     /\ todo' = [todo EXCEPT ![l] = {}]
  \/ \E m \in S :
     /\ IsFirst(m, S)
     /\ at' = [at EXCEPT ![l] = "dispatch"]
     /\ cur' = [cur EXCEPT ![l] = m]
     /\ todo' = [todo EXCEPT ![l] = S \ {m}]

\* loop l calls handleEntry on the first entry of S, or polls again when the
\* batch is done; an entry that is not to be dispatched goes straight to XACK
Proceed(l, S) ==
  \/ /\ S = {}
     /\ at' = [at EXCEPT ![l] = "poll"]
     /\ cur' = [cur EXCEPT ![l] = None]
     /\ todo' = [todo EXCEPT ![l] = {}]
  \/ \E m \in S :
     /\ IsFirst(m, S)
     /\ at' = [at EXCEPT ![l] = IF m \in Junk THEN "ack" ELSE "dispatch"]
     /\ cur' = [cur EXCEPT ![l] = m]
     /\ todo' = [todo EXCEPT ![l] = S \ {m}]

\* mutant: the loop forgets the batch and not the entry it was at
AbandonKeepsEntry(l) ==
  /\ at' = [at EXCEPT ![l] = "poll"]
  /\ todo' = [todo EXCEPT ![l] = {}]
  /\ UNCHANGED cur

\* the catch of a loop: what is left of the batch stays in the PEL
Abandon(l) ==
  /\ at' = [at EXCEPT ![l] = "poll"]
  /\ cur' = [cur EXCEPT ![l] = None]
  /\ todo' = [todo EXCEPT ![l] = {}]

ReadGroup(s) ==
  LET batch == FirstOf(fresh, BatchMax) IN
  /\ server[s] = "started"
  /\ at[<<s, "consume">>] = "poll"
  /\ batch # {}
  /\ fresh' = fresh \ batch
  /\ pel' = pel \cup batch
  /\ Proceed(<<s, "consume">>, batch)
  /\ UNCHANGED <<stream, group, idle, replies, replyKey, clientVars, server,
                 historyVars, budget>>

\* the connection goes while XREADGROUP's answer is on it (stop() does that)
ReadGroupFails(s) ==
  LET batch == FirstOf(fresh, BatchMax) IN
  /\ Fault
  /\ server[s] \in {"started", "stopping"}
  /\ at[<<s, "consume">>] = "poll"
  /\ batch # {}
  /\ fresh' = fresh \ batch
  /\ pel' = pel \cup batch
  /\ UNCHANGED <<stream, group, idle, replies, replyKey, clientVars, server, loopVars,
                 historyVars, slow>>

\* mutant: XAUTOCLAIM with a min-idle-time of 0
AutoClaimAnything(s) ==
  LET batch == FirstOf(pel, ClaimMax) IN
  /\ server[s] = "started"
  /\ at[<<s, "reclaim">>] = "poll"
  /\ batch # {}
  /\ idle' = idle \ batch
  /\ Proceed(<<s, "reclaim">>, batch)
  /\ UNCHANGED <<stream, group, fresh, pel, replies, replyKey, clientVars, server,
                 historyVars, budget>>

\* mutant: the entries are looked for in the wrong place of XAUTOCLAIM's answer
AutoClaimDrops(s) ==
  LET batch == FirstOf(idle, ClaimMax) IN
  /\ server[s] = "started"
  /\ at[<<s, "reclaim">>] = "poll"
  /\ batch # {}
  /\ idle' = idle \ batch
  /\ UNCHANGED <<stream, group, fresh, pel, replies, replyKey, clientVars, server,
                 loopVars, historyVars, budget>>

\* XAUTOCLAIM takes the first idle entries of the PEL, whoever they were
\* delivered to, and resets their idle time
AutoClaim(s) ==
  LET batch == FirstOf(idle, ClaimMax) IN
  /\ server[s] = "started"
  /\ at[<<s, "reclaim">>] = "poll"
  /\ batch # {}
  /\ idle' = idle \ batch
  /\ Proceed(<<s, "reclaim">>, batch)
  /\ UNCHANGED <<stream, group, fresh, pel, replies, replyKey, clientVars, server,
                 historyVars, budget>>

\* the dispatcher returns: a reply, or null
Dispatch(l) ==
  /\ at[l] = "dispatch"
  /\ cur[l] \notin Throwing
  /\ runs' = [runs EXCEPT ![cur[l]] = @ + 1]
  /\ at' = [at EXCEPT ![l] = IF cur[l] \in Call \ Silent THEN "reply" ELSE "ack"]
  /\ UNCHANGED <<redisVars, clientVars, server, cur, todo, replied, acked, budget>>

\* mutant: the exception is logged and the entry acknowledged
DispatchThrowsAcked(l) ==
  /\ at[l] = "dispatch"
  /\ cur[l] \in Throwing
  /\ at' = [at EXCEPT ![l] = "ack"]
  /\ UNCHANGED <<redisVars, clientVars, server, cur, todo, historyVars, budget>>

\* the dispatcher rejects, and would reject again: a handler that throws before it
\* returns a promise
DispatchThrows(l) ==
  /\ at[l] = "dispatch"
  /\ cur[l] \in Throwing
  /\ Abandon(l)
  /\ UNCHANGED <<redisVars, clientVars, server, historyVars, budget>>

Reply(l) ==
  /\ at[l] = "reply"
  /\ AddReply(cur[l])
  /\ at' = [at EXCEPT ![l] = "ack"]
  /\ UNCHANGED <<stream, group, fresh, pel, idle, clientVars, server, cur, todo, runs,
                 acked, budget>>

\* mutant: a failed reply is logged and the entry acknowledged
ReplyFailsSwallowed(l) ==
  /\ Fault
  /\ at[l] = "reply"
  /\ AddReply(cur[l]) \/ UNCHANGED <<replies, replyKey, replied>>
  /\ at' = [at EXCEPT ![l] = "ack"]
  /\ UNCHANGED <<stream, group, fresh, pel, idle, clientVars, server, cur, todo, runs,
                 acked, slow>>

\* JSON.stringify(reply) throws, or the XADD rejects, having been applied or not
ReplyFails(l) ==
  /\ Fault
  /\ at[l] = "reply"
  /\ AddReply(cur[l]) \/ UNCHANGED <<replies, replyKey, replied>>
  /\ Abandon(l)
  /\ UNCHANGED <<stream, group, fresh, pel, idle, clientVars, server, runs, acked, slow>>

Ack(l) ==
  /\ at[l] = "ack"
  /\ RemovePending(cur[l])
  /\ Proceed(l, todo[l])
  /\ UNCHANGED <<stream, group, fresh, replies, replyKey, clientVars, server, runs,
                 replied, budget>>

AckFails(l) ==
  /\ Fault
  /\ at[l] = "ack"
  /\ RemovePending(cur[l]) \/ UNCHANGED <<pel, idle, acked>>
  /\ Abandon(l)
  /\ UNCHANGED <<stream, group, fresh, replies, replyKey, clientVars, server, runs,
                 replied, slow>>

\* stop() sets abort; a loop inside a batch goes on to the end of it
StopServer(s) ==
  /\ server[s] = "started"
  /\ server' = [server EXCEPT ![s] = "stopping"]
  /\ UNCHANGED <<redisVars, clientVars, loopVars, historyVars, budget>>

\* a loop between two batches sees abort and returns
LoopExits(l) ==
  /\ server[l[1]] \in {"stopping", "stopped"}
  /\ at[l] = "poll"
  /\ at' = [at EXCEPT ![l] = "off"]
  /\ UNCHANGED <<redisVars, clientVars, server, cur, todo, historyVars, budget>>

\* both loops have returned, or shutdownGraceMs has passed: a loop that is still
\* in a batch carries on
StopServerReturns(s) ==
  /\ server[s] = "stopping"
  /\ server' = [server EXCEPT ![s] = "stopped"]
  /\ UNCHANGED <<redisVars, clientVars, loopVars, historyVars, budget>>

\* the process dies, in the middle of anything; another may be started in its place
Crash(s) ==
  /\ Fault
  /\ server[s] # "idle"
  /\ server' = [server EXCEPT ![s] = "idle"]
  /\ at' = [l \in Loop |-> IF l[1] = s THEN "off" ELSE at[l]]
  /\ cur' = [l \in Loop |-> IF l[1] = s THEN None ELSE cur[l]]
  /\ todo' = [l \in Loop |-> IF l[1] = s THEN {} ELSE todo[l]]
  /\ UNCHANGED <<redisVars, clientVars, historyVars, slow>>

Held(l) == todo[l] \cup ({cur[l]} \ {None})
Orphaned(m) == \A l \in Loop : m \notin Held(l)

\* consumerClaimIdleMs pass without m being delivered or claimed again
OrphanTurnsIdle(m) ==
  /\ m \in pel \ idle
  /\ Orphaned(m)
  /\ idle' = idle \cup {m}
  /\ UNCHANGED <<stream, group, fresh, pel, replies, replyKey, clientVars, server,
                 loopVars, historyVars, budget>>

HeldTurnsIdle(m) ==
  /\ m \in pel \ idle
  /\ ~Orphaned(m)
  /\ slow < MaxSlow /\ slow' = slow + 1
  /\ idle' = idle \cup {m}
  /\ UNCHANGED <<stream, group, fresh, pel, replies, replyKey, clientVars, server,
                 loopVars, historyVars, faults>>

-----------------------------------------------------------------------------
\* client.start() has returned and no server has started
Init ==
  /\ stream = <<>> /\ group = FALSE /\ fresh = {} /\ pel = {} /\ idle = {}
  /\ replies = <<>> /\ replyKey = FALSE
  /\ client = "started" /\ sending = {} /\ pending = {} /\ timer = {}
  /\ status = [m \in Call \cup Note |-> "unsent"]
  /\ server = [s \in Server |-> "idle"]
  /\ at = [l \in Loop |-> "off"]
  /\ cur = [l \in Loop |-> None]
  /\ todo = [l \in Loop |-> {}]
  /\ runs = [m \in Msg |-> 0] /\ replied = {} /\ acked = {}
  /\ faults = 0 /\ slow = 0

ClientNext ==
  \/ \E c \in Call : Send(c) \/ Timeout(c)
  \/ \E n \in Note : Notify(n)
  \/ \E m \in Call \cup Note : SendThrows(m) \/ XaddDone(m) \/ XaddFails(m)
  \/ RunReplyLoop
  \/ Stop \/ StopRejects \/ StopDeletes \/ StopReturns

LoopStep(l) == Dispatch(l) \/ DispatchThrows(l) \/ Reply(l) \/ Ack(l)

ServerNext ==
  \/ \E s \in Server : \/ Start(s) \/ ReadGroup(s) \/ ReadGroupFails(s) \/ AutoClaim(s)
                       \/ StopServer(s) \/ StopServerReturns(s) \/ Crash(s)
  \/ \E l \in Loop : LoopStep(l) \/ ReplyFails(l) \/ AckFails(l) \/ LoopExits(l)

RedisNext ==
  \/ \E j \in Junk : ForeignAdd(j)
  \/ \E m \in Msg : OrphanTurnsIdle(m) \/ HeldTurnsIdle(m)

Next == ClientNext \/ ServerNext \/ RedisNext

Spec == Init /\ [][Next]_vars

(* Timers fire, Redis answers, pending entries grow old, handlers return   *)
(* and a started transport's loops keep polling; nobody has to send, stop, *)
(* start or fail.                                                          *)
Fairness ==
  /\ \A c \in Call : WF_vars(Timeout(c))
  /\ \A m \in Call \cup Note : WF_vars(XaddDone(m))
  /\ WF_vars(RunReplyLoop)
  /\ \A m \in Msg : WF_vars(OrphanTurnsIdle(m))
  /\ \A s \in Server : WF_vars(ReadGroup(s)) /\ WF_vars(AutoClaim(s))
  /\ \A l \in Loop : WF_vars(LoopStep(l))

FairSpec == Spec /\ Fairness

-----------------------------------------------------------------------------
(* Properties.                                                             *)

Phase == {"off", "poll", "dispatch", "reply", "ack"}

ClientTypeOK ==
  /\ client \in {"started", "aborting", "deleting", "quitting", "stopped"}
  /\ sending \subseteq Call \cup Note
  /\ pending \subseteq Call /\ timer \subseteq Call
  /\ status \in [Call \cup Note -> {"unsent", "waiting", "sent", "answered", "timeout",
                                   "failed", "stopped", "refused"}]

ServerTypeOK ==
  /\ server \in [Server -> {"idle", "started", "stopping", "stopped"}]
  /\ at \in [Loop -> Phase]
  /\ cur \in [Loop -> Msg \cup {None}]
  /\ todo \in [Loop -> SUBSET Msg]
  /\ \A l \in Loop : (cur[l] = None) <=> (at[l] \in {"off", "poll"})

HistoryTypeOK ==
  /\ runs \in [Msg -> Nat] /\ replied \subseteq Call /\ acked \subseteq Msg
  /\ faults \in 0..MaxFaults /\ slow \in 0..MaxSlow

\* Every variable keeps its type, an idle entry is pending, and a loop holds an
\* entry exactly while it is inside handleEntry.
TypeOK == RedisTypeOK /\ ClientTypeOK /\ ServerTypeOK /\ HistoryTypeOK

Served(m) == m \in Junk \/ (runs[m] > 0 /\ (m \in Call \ Silent => m \in replied))

\* At-least-once (handleEntry 223-230): an entry leaves the PEL only when its
\* dispatch has completed and, for a call that gets a reply, the reply is on the
\* reply stream, whatever failed or died and whichever loop acknowledged it.
AckedOnlyWhenServed == \A m \in acked : Served(m)

\* send() and its five ways out (timer, XADD failure, reply, stop, an envelope that
\* cannot be written) agree: every entry of the pending map has an armed timer that
\* will remove it, and apart from the calls whose executor threw, which keep their
\* entry until then although they are rejected, the entries are exactly the calls
\* whose promise is unsettled. So no call can hang and no entry outlives its timer.
PendingIsWaiting ==
  /\ timer = pending
  /\ {c \in Call : status[c] = "waiting"} = pending \ Refused

\* A promise is resolved only by a reply to its own call, after a server
\* completed the dispatch of that call.
AnsweredWasDispatched ==
  \A c \in Call : status[c] = "answered" => runs[c] > 0 /\ c \notin Silent

\* While the client reads, a reply that has been written to a call which still
\* waits is unread on the reply stream: no reply is skipped by lastId or
\* swallowed by the loop. It needs ReplyMaxLen to exceed the unread replies.
NoReplyLost ==
  client \in {"started", "aborting"} =>
    \A c \in replied : status[c] = "waiting" => \E i \in 1..Len(replies) : replies[i] = c

\* As long as no entry turns idle in a loop's hands, no entry is in the hands of
\* two loops: the group and XAUTOCLAIM never hand out the same entry twice.
HeldOnce ==
  slow = 0 => \A k, l \in Loop : k # l => Held(k) \cap Held(l) = {}

\* Every dispatch that completes beyond the first is paid for by a failure (a reply
\* that cannot be written is one each time) or by an entry that turned idle while it
\* was held. What a dispatcher rejects never completes and is delivered again
\* without end; nothing is said of it.
RunsAreBounded == \A m \in Msg \ Throwing : runs[m] <= 1 + faults + slow

\* A settled promise is never settled again: a late reply, a late XADD error, the
\* timer and stop() all respect the first outcome.
SettledOnce ==
  [][\A m \in Call \cup Note : status[m] \notin {"unsent", "waiting"}
                                 => status'[m] = status[m]]_vars

\* Once some server stays up, every message the group has not acknowledged is
\* served and acknowledged, crashes, failed commands and abandoned batches
\* notwithstanding, if no dispatcher rejects it (Throwing = {}) and its replies are
\* not refused by JSON.stringify every time.
DeliveredIsServed ==
  (\E s \in Server : <>[](server[s] = "started"))
     => \A m \in Msg : m \in fresh \cup pel ~> m \in acked

\* The transports implement what RpcContract promises: every step of the client,
\* a server, a loop or Redis is one of its steps, or changes nothing it can see.
Contract == INSTANCE RpcContract WITH served <- {m \in Msg : runs[m] > 0}

ImplementsContract == Contract!Spec

\* The same, with the promise that every call settles.
ImplementsFairContract == Contract!FairSpec
=============================================================================
