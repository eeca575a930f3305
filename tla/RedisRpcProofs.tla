--------------------------- MODULE RedisRpcProofs ---------------------------
(***************************************************************************)
(* Proofs about RedisRpc for every set of servers, calls and notifications *)
(* and every bound: the inductive invariant IInv, the safety properties    *)
(* that follow from it, and the refinement of RpcContract.                 *)
(***************************************************************************)
EXTENDS RedisRpc, RedisStreamsProofs

-----------------------------------------------------------------------------
(* The inductive invariant.                                                *)

\* What a loop knows about the entry it has in handleEntry; a transport that is
\* not started has no loops.
LoopOK(l) ==
  /\ server[l[1]] = "idle" => at[l] = "off"
  /\ at[l] = "dispatch" => cur[l] \notin Junk
  /\ at[l] = "reply" => cur[l] \in Call \ Silent /\ runs[cur[l]] > 0
  /\ at[l] = "ack" => Served(cur[l])

LoopInv == \A l \in Loop : LoopOK(l)

\* A reply is unread only if the call it answers has been dispatched.
ReplyInv ==
  \A i \in 1..Len(replies) : replies[i] \in Call \ Silent /\ runs[replies[i]] > 0

\* Only what was sent reaches the stream, once; only what reached the stream
\* reaches the group and the loops; notify() waits while its XADD is in flight.
EntryInv ==
  /\ \A m \in sending : status[m] # "unsent" /\ ~InStream(m)
  /\ \A n \in sending \cap Note : status[n] = "waiting"
  /\ \A m \in Call \cup Note : InStream(m) => status[m] # "unsent"
  /\ \A m \in fresh \cup pel : InStream(m)
  /\ \A l \in Loop : \A m \in Held(l) : InStream(m)

\* The group, the idle entries and the loops never share an entry.
ExclusiveInv ==
  /\ fresh \cap pel = {}
  /\ \A l \in Loop : Held(l) \cap fresh = {}
  /\ slow = 0 => \A l \in Loop : Held(l) \cap idle = {}
  /\ HeldOnce

IInv ==
  /\ TypeOK /\ LoopInv /\ AckedOnlyWhenServed
  /\ ReplyInv /\ AnsweredWasDispatched /\ PendingIsWaiting
  /\ EntryInv /\ ExclusiveInv

USE DEF redisVars, clientVars, loopVars, historyVars, budget

-----------------------------------------------------------------------------
(* What each part of the next-state relation leaves alone.                 *)

\* The client changes no server, no pending entry and no history.
LEMMA ClientFrame ==
  ClientNext => UNCHANGED <<group, pel, idle, server, loopVars, historyVars, slow>>
BY DEF ClientNext, Issuable, Send, SendThrows, Timeout, Notify, XaddDone, XaddFails,
       RunReplyLoop, Stop, StopRejects, StopDeletes, StopReturns, AddCommand, Settle

\* A server changes nothing of the client and adds no command.
LEMMA ServerFrame ==
  ServerNext => UNCHANGED <<clientVars, stream, slow>>
BY DEF ServerNext, LoopStep, Start, ReadGroup, ReadGroupFails, AutoClaim, StopServer,
       StopServerReturns, Crash, Dispatch, DispatchThrows, Reply, Ack, ReplyFails,
       AckFails, LoopExits, AddReply, Abandon, Proceed

\* Time and other programs change only the command stream and the idle entries.
LEMMA RedisFrame ==
  RedisNext => UNCHANGED <<group, pel, replies, replyKey, clientVars, server, loopVars,
                           historyVars, faults>>
BY DEF RedisNext, ForeignAdd, OrphanTurnsIdle, HeldTurnsIdle

\* Failures are counted one at a time.
LEMMA FaultsStep == Next => faults' = faults \/ Fault
<1>1. ClientNext => faults' = faults \/ Fault
  BY DEF ClientNext, Issuable, Send, SendThrows, Timeout, Notify, XaddDone, XaddFails,
         RunReplyLoop, Stop, StopRejects, StopDeletes, StopReturns
<1>2. ServerNext => faults' = faults \/ Fault
  BY DEF ServerNext, LoopStep, Start, ReadGroup, ReadGroupFails, AutoClaim, StopServer,
         StopServerReturns, Crash, Dispatch, DispatchThrows, Reply, Ack, ReplyFails,
         AckFails, LoopExits
<1>3. QED
  BY <1>1, <1>2, RedisFrame DEF Next

\* Only a dispatch counts as a run, only XADD writes a reply, only XACK acknowledges.
LEMMA HistoryStep ==
  ASSUME ServerNext
  PROVE  /\ runs' = runs \/ \E l \in Loop : Dispatch(l)
         /\ replied' = replied \/ \E l \in Loop : at[l] = "reply"
                                                 /\ replied' = replied \cup {cur[l]}
         /\ acked' = acked \/ \E l \in Loop : at[l] = "ack" /\ RemovePending(cur[l])
BY DEF ServerNext, LoopStep, Start, ReadGroup, ReadGroupFails, AutoClaim, StopServer,
       StopServerReturns, Crash, Dispatch, DispatchThrows, Reply, Ack, ReplyFails,
       AckFails, LoopExits, AddReply

-----------------------------------------------------------------------------
(* The operations the actions share.                                       *)

LEMMA SettleType ==
  ASSUME ClientTypeOK, NEW S \in SUBSET Call,
         NEW o \in {"answered", "timeout", "failed", "stopped"}, Settle(S, o)
  PROVE  /\ pending' \subseteq Call /\ timer' \subseteq Call
         /\ status' \in [Call \cup Note -> {"unsent", "waiting", "sent", "answered",
                                            "timeout", "failed", "stopped", "refused"}]
         /\ status' = [m \in Call \cup Note |-> IF m \in S \ Refused THEN o ELSE status[m]]
BY DEF ClientTypeOK, Settle

LEMMA ProceedType ==
  ASSUME ServerTypeOK, NEW l \in Loop, NEW S \in SUBSET Msg, Proceed(l, S)
  PROVE  /\ at' \in [Loop -> Phase]
         /\ cur' \in [Loop -> Msg \cup {None}]
         /\ todo' \in [Loop -> SUBSET Msg]
         /\ \A k \in Loop : (cur'[k] = None) <=> (at'[k] \in {"off", "poll"})
BY MessagesAssumption DEF ServerTypeOK, Proceed, IsFirst, Phase

LEMMA AbandonType ==
  ASSUME ServerTypeOK, NEW l \in Loop, Abandon(l)
  PROVE  /\ at' \in [Loop -> Phase]
         /\ cur' \in [Loop -> Msg \cup {None}]
         /\ todo' \in [Loop -> SUBSET Msg]
         /\ \A k \in Loop : (cur'[k] = None) <=> (at'[k] \in {"off", "poll"})
BY DEF ServerTypeOK, Abandon, Phase

-----------------------------------------------------------------------------
(* Type correctness.                                                       *)

LEMMA InitType == Init => TypeOK
<1> SUFFICES ASSUME Init PROVE TypeOK
  OBVIOUS
<1>1. RedisTypeOK
  <2>1. stream \in Seq(Msg) /\ replies \in Seq(Call)
    BY DEF Init
  <2>2. QED
    BY <2>1 DEF Init, RedisTypeOK
<1>2. ClientTypeOK
  BY DEF Init, ClientTypeOK
<1>3. ServerTypeOK
  BY DEF Init, ServerTypeOK, Phase
<1>4. HistoryTypeOK
  BY BoundsAssumption DEF Init, HistoryTypeOK
<1>5. QED
  BY <1>1, <1>2, <1>3, <1>4 DEF TypeOK

LEMMA ClientType ==
  ASSUME TypeOK, ClientNext
  PROVE  RedisTypeOK' /\ ClientTypeOK'
<1> USE DEF TypeOK
<1>0. UNCHANGED <<group, pel, idle>>
  BY ClientFrame
<1>1. ASSUME NEW c \in Call, Send(c) PROVE RedisTypeOK' /\ ClientTypeOK'
  BY <1>1 DEF Send, RedisTypeOK, ClientTypeOK
<1>2. ASSUME NEW c \in Call, Timeout(c) PROVE RedisTypeOK' /\ ClientTypeOK'
  <2>1. Settle({c}, "timeout")
    BY <1>2 DEF Timeout
  <2>2. QED
    BY <1>2, <2>1, SettleType DEF Timeout, RedisTypeOK, ClientTypeOK
<1>3. ASSUME NEW n \in Note, Notify(n) PROVE RedisTypeOK' /\ ClientTypeOK'
  BY <1>3 DEF Notify, RedisTypeOK, ClientTypeOK
<1>4. ASSUME NEW m \in Call \cup Note, XaddDone(m) PROVE RedisTypeOK' /\ ClientTypeOK'
  <2>1. RedisTypeOK'
    BY <1>4, AddCommandType DEF XaddDone, RedisTypeOK, Msg
  <2>2. ClientTypeOK'
    BY <1>4 DEF XaddDone, ClientTypeOK
  <2>3. QED
    BY <2>1, <2>2
<1>5. ASSUME NEW m \in Call \cup Note, XaddFails(m) PROVE RedisTypeOK' /\ ClientTypeOK'
  <2>1. RedisTypeOK'
    BY <1>0, <1>5, AddCommandType DEF XaddFails, RedisTypeOK, Msg
  <2>2. CASE m \in Note
    BY <1>5, <2>1, <2>2 DEF XaddFails, ClientTypeOK
  <2>3. CASE m \notin Note
    <3>1. Settle({m} \cap pending, "failed")
      BY <1>5, <2>3 DEF XaddFails
    <3>2. QED
      BY <1>5, <2>1, <3>1, SettleType DEF XaddFails, ClientTypeOK
  <2>4. QED
    BY <2>2, <2>3
<1>6. CASE RunReplyLoop
  <2>1. PICK n \in 1..Len(replies) :
           /\ replies' = SubSeq(replies, n + 1, Len(replies))
           /\ Settle({c \in pending : \E i \in 1..n : replies[i] = c}, "answered")
    BY <1>6 DEF RunReplyLoop
  <2>2. RedisTypeOK'
    BY <1>6, <2>1 DEF RunReplyLoop, RedisTypeOK
  <2>3. QED
    BY <1>6, <2>1, <2>2, SettleType DEF RunReplyLoop, ClientTypeOK
<1>7. CASE Stop \/ StopDeletes \/ StopReturns
  <2>1. replies' = replies \/ replies' = <<>>
    BY <1>7 DEF Stop, StopDeletes, StopReturns
  <2>2. replies' \in Seq(Call)
    <3>1. replies \in Seq(Call) /\ <<>> \in Seq(Call)
      BY DEF RedisTypeOK
    <3>2. QED
      BY <2>1, <3>1
  <2>3. QED
    BY <1>7, <2>2 DEF Stop, StopDeletes, StopReturns, RedisTypeOK, ClientTypeOK
<1>8. CASE StopRejects
  BY <1>8, SettleType DEF StopRejects, RedisTypeOK, ClientTypeOK
<1>9. ASSUME NEW m \in Call \cup Note, SendThrows(m) PROVE RedisTypeOK' /\ ClientTypeOK'
  BY <1>9 DEF SendThrows, RedisTypeOK, ClientTypeOK
<1>10. QED
  BY <1>1, <1>2, <1>3, <1>4, <1>5, <1>6, <1>7, <1>8, <1>9 DEF ClientNext

\* TypeOK and LoopInv go together: a reply is a call because of what the loop
\* knows about the entry it handles.
LEMMA ServerType ==
  ASSUME TypeOK, LoopInv, ServerNext
  PROVE  RedisTypeOK' /\ ServerTypeOK'
<1> USE DEF TypeOK
<1>0. UNCHANGED <<clientVars, stream, slow>>
  BY ServerFrame
<1>1. ASSUME NEW s \in Server, Start(s) PROVE RedisTypeOK' /\ ServerTypeOK'
  <2>1. \A l \in Loop : (cur'[l] = None) <=> (at'[l] \in {"off", "poll"})
    BY <1>1 DEF Start, ServerTypeOK, LoopInv, LoopOK
  <2>2. QED
    BY <1>1, <2>1 DEF Start, RedisTypeOK, ServerTypeOK, Phase
<1>2. ASSUME NEW s \in Server, ReadGroup(s) PROVE RedisTypeOK' /\ ServerTypeOK'
  <2> DEFINE batch == FirstOf(fresh, BatchMax)
             l == <<s, "consume">>
  <2>1. batch \subseteq Msg /\ l \in Loop
    BY FirstOfSubset DEF RedisTypeOK, Loop
  <2>2. Proceed(l, batch)
    BY <1>2 DEF ReadGroup
  <2>3. ServerTypeOK'
    BY <1>2, <2>1, <2>2, ProceedType DEF ReadGroup, ServerTypeOK
  <2>4. RedisTypeOK'
    BY <1>2, <2>1 DEF ReadGroup, RedisTypeOK
  <2>5. QED
    BY <2>3, <2>4
<1>3. ASSUME NEW s \in Server, ReadGroupFails(s) PROVE RedisTypeOK' /\ ServerTypeOK'
  <2>1. FirstOf(fresh, BatchMax) \subseteq Msg
    BY FirstOfSubset DEF RedisTypeOK
  <2>2. QED
    BY <1>3, <2>1 DEF ReadGroupFails, RedisTypeOK, ServerTypeOK
<1>4. ASSUME NEW s \in Server, AutoClaim(s) PROVE RedisTypeOK' /\ ServerTypeOK'
  <2> DEFINE batch == FirstOf(idle, ClaimMax)
             l == <<s, "reclaim">>
  <2>1. batch \subseteq Msg /\ l \in Loop
    BY FirstOfSubset DEF RedisTypeOK, Loop
  <2>2. Proceed(l, batch)
    BY <1>4 DEF AutoClaim
  <2>3. ServerTypeOK'
    BY <1>4, <2>1, <2>2, ProceedType DEF AutoClaim, ServerTypeOK
  <2>4. RedisTypeOK'
    BY <1>4, <2>1 DEF AutoClaim, RedisTypeOK
  <2>5. QED
    BY <2>3, <2>4
<1>5. ASSUME NEW s \in Server, StopServer(s) \/ StopServerReturns(s)
      PROVE  RedisTypeOK' /\ ServerTypeOK'
  BY <1>5 DEF StopServer, StopServerReturns, RedisTypeOK, ServerTypeOK
<1>6. ASSUME NEW s \in Server, Crash(s) PROVE RedisTypeOK' /\ ServerTypeOK'
  <2>1. \A l \in Loop : (cur'[l] = None) <=> (at'[l] \in {"off", "poll"})
    BY <1>6 DEF Crash, ServerTypeOK
  <2>2. QED
    BY <1>6, <2>1 DEF Crash, RedisTypeOK, ServerTypeOK, Phase
<1>7. ASSUME NEW l \in Loop, Dispatch(l) PROVE RedisTypeOK' /\ ServerTypeOK'
  BY <1>7 DEF Dispatch, RedisTypeOK, ServerTypeOK, Phase
<1>8. ASSUME NEW l \in Loop, DispatchThrows(l) PROVE RedisTypeOK' /\ ServerTypeOK'
  BY <1>8, AbandonType DEF DispatchThrows, RedisTypeOK, ServerTypeOK
<1>9. ASSUME NEW l \in Loop, Reply(l) PROVE RedisTypeOK' /\ ServerTypeOK'
  <2>1. cur[l] \in Call
    BY <1>9 DEF Reply, LoopInv, LoopOK
  <2>2. RedisTypeOK'
    BY <1>9, <2>1, AddReplyType DEF Reply, RedisTypeOK
  <2>3. ServerTypeOK'
    BY <1>9 DEF Reply, ServerTypeOK, Phase
  <2>4. QED
    BY <2>2, <2>3
<1>10. ASSUME NEW l \in Loop, ReplyFails(l) PROVE RedisTypeOK' /\ ServerTypeOK'
  <2>1. cur[l] \in Call
    BY <1>10 DEF ReplyFails, LoopInv, LoopOK
  <2>2. RedisTypeOK'
    BY <1>10, <2>1, AddReplyType DEF ReplyFails, RedisTypeOK
  <2>3. ServerTypeOK'
    BY <1>10, AbandonType DEF ReplyFails, ServerTypeOK
  <2>4. QED
    BY <2>2, <2>3
<1>11. ASSUME NEW l \in Loop, Ack(l) PROVE RedisTypeOK' /\ ServerTypeOK'
  <2>1. todo[l] \subseteq Msg
    BY DEF ServerTypeOK
  <2>2. QED
    BY <1>11, <2>1, ProceedType DEF Ack, RemovePending, RedisTypeOK, ServerTypeOK
<1>12. ASSUME NEW l \in Loop, AckFails(l) PROVE RedisTypeOK' /\ ServerTypeOK'
  BY <1>12, AbandonType DEF AckFails, RemovePending, RedisTypeOK, ServerTypeOK
<1>13. ASSUME NEW l \in Loop, LoopExits(l) PROVE RedisTypeOK' /\ ServerTypeOK'
  BY <1>13 DEF LoopExits, RedisTypeOK, ServerTypeOK, Phase
<1>14. QED
  BY <1>1, <1>2, <1>3, <1>4, <1>5, <1>6, <1>7, <1>8, <1>9, <1>10, <1>11, <1>12, <1>13
  DEF ServerNext, LoopStep

LEMMA HistoryType ==
  ASSUME TypeOK, LoopInv, Next
  PROVE  HistoryTypeOK'
<1> USE DEF TypeOK
<1>1. faults' \in 0..MaxFaults
  BY FaultsStep, BoundsAssumption DEF HistoryTypeOK, Fault
<1>2. CASE ClientNext
  BY <1>1, <1>2, ClientFrame DEF HistoryTypeOK
<1>3. CASE ServerNext
  <2>1. runs' \in [Msg -> Nat]
    BY <1>3, HistoryStep DEF HistoryTypeOK, Dispatch
  <2>2. replied' \subseteq Call
    BY <1>3, HistoryStep DEF HistoryTypeOK, LoopInv, LoopOK
  <2>3. acked' \subseteq Msg
    BY <1>3, HistoryStep DEF HistoryTypeOK, ServerTypeOK, RemovePending
  <2>4. QED
    BY <1>1, <1>3, <2>1, <2>2, <2>3, ServerFrame DEF HistoryTypeOK
<1>4. CASE RedisNext
  <2>1. slow' \in 0..MaxSlow
    BY <1>4, BoundsAssumption
    DEF HistoryTypeOK, RedisNext, ForeignAdd, OrphanTurnsIdle, HeldTurnsIdle
  <2>2. QED
    BY <1>4, <2>1, RedisFrame DEF HistoryTypeOK
<1>5. QED
  BY <1>2, <1>3, <1>4 DEF Next

LEMMA RedisType ==
  ASSUME TypeOK, RedisNext
  PROVE  RedisTypeOK'
<1>1. ASSUME NEW j \in Junk, ForeignAdd(j) PROVE RedisTypeOK'
  BY <1>1, AddCommandType DEF ForeignAdd, TypeOK, RedisTypeOK, Msg
<1>2. ASSUME NEW m \in Msg, OrphanTurnsIdle(m) \/ HeldTurnsIdle(m) PROVE RedisTypeOK'
  BY <1>2 DEF OrphanTurnsIdle, HeldTurnsIdle, TypeOK, RedisTypeOK
<1>3. QED
  BY <1>1, <1>2 DEF RedisNext

LEMMA TypeStep ==
  ASSUME TypeOK, LoopInv, [Next]_vars
  PROVE  TypeOK'
<1>1. CASE Next
  <2>1. HistoryTypeOK'
    BY <1>1, HistoryType
  <2>2. CASE ClientNext
    BY <2>1, <2>2, ClientType, ClientFrame DEF TypeOK, ServerTypeOK
  <2>3. CASE ServerNext
    BY <2>1, <2>3, ServerType, ServerFrame DEF TypeOK, ClientTypeOK
  <2>4. CASE RedisNext
    BY <2>1, <2>4, RedisType, RedisFrame DEF TypeOK, ClientTypeOK, ServerTypeOK
  <2>5. QED
    BY <1>1, <2>2, <2>3, <2>4 DEF Next
<1>2. CASE UNCHANGED vars
  BY <1>2 DEF vars, TypeOK, RedisTypeOK, ClientTypeOK, ServerTypeOK, HistoryTypeOK
<1>3. QED
  BY <1>1, <1>2

-----------------------------------------------------------------------------
(* At-least-once delivery.                                                 *)

\* What has been served stays served.
LEMMA ServedMonotone ==
  ASSUME TypeOK, Next, NEW m \in Msg
  PROVE  /\ runs[m] > 0 => runs'[m] > 0
         /\ Served(m) => Served(m)'
<1>1. (runs' = runs \/ \E l \in Loop : Dispatch(l)) /\ replied \subseteq replied'
  BY ClientFrame, RedisFrame, HistoryStep DEF Next
<1>2. runs[m] > 0 => runs'[m] > 0
  BY <1>1 DEF Dispatch, TypeOK, HistoryTypeOK
<1>3. QED
  BY <1>1, <1>2 DEF Served

\* A loop that is not the one that moves keeps what it knows.
LEMMA LoopKept ==
  ASSUME TypeOK, LoopInv, Next, NEW k \in Loop,
         server'[k[1]] = "idle" => server[k[1]] = "idle",
         at'[k] = at[k], cur'[k] = cur[k]
  PROVE  LoopOK(k)'
<1>1. LoopOK(k)
  BY DEF LoopInv
<1>2. at[k] \in {"reply", "ack"} => cur[k] \in Msg
  BY DEF TypeOK, ServerTypeOK
<1>3. at[k] = "reply" => runs'[cur[k]] > 0
  BY <1>1, <1>2, ServedMonotone DEF LoopOK
<1>4. at[k] = "ack" => Served(cur[k])'
  <2>1. SUFFICES ASSUME at[k] = "ack" PROVE Served(cur[k])'
    OBVIOUS
  <2>2. cur[k] \in Msg /\ Served(cur[k])
    BY <1>1, <1>2, <2>1 DEF LoopOK
  <2>3. (runs[cur[k]] > 0 => runs'[cur[k]] > 0) /\ replied \subseteq replied'
    BY <2>2, ServedMonotone, ClientFrame, RedisFrame, HistoryStep DEF Next
  <2>4. QED
    BY <2>2, <2>3 DEF Served
<1>5. QED
  BY <1>1, <1>3, <1>4 DEF LoopOK

LEMMA LoopStepInv ==
  ASSUME TypeOK, LoopInv, [Next]_vars
  PROVE  LoopInv'
<1>1. CASE ClientNext \/ RedisNext
  BY <1>1, ClientFrame, RedisFrame, LoopKept DEF Next, LoopInv
<1>2. CASE UNCHANGED vars
  BY <1>2 DEF vars, LoopInv, LoopOK, Served
<1>3. CASE ServerNext
  <2> SUFFICES ASSUME NEW k \in Loop PROVE LoopOK(k)'
    BY DEF LoopInv
  <2>0. Next /\ TypeOK' /\ LoopOK(k)
    BY <1>3, TypeStep DEF Next, LoopInv
  <2>1. ASSUME NEW s \in Server, Start(s) PROVE LoopOK(k)'
    <3>1. CASE k[1] = s
      BY <2>1, <3>1 DEF Start, LoopOK, TypeOK, ServerTypeOK
    <3>2. CASE k[1] # s
      BY <2>0, <2>1, <3>2, LoopKept DEF Start
    <3>3. QED
      BY <3>1, <3>2
  <2>2. ASSUME NEW s \in Server, ReadGroup(s) PROVE LoopOK(k)'
    <3>1. CASE k = <<s, "consume">>
      BY <2>2, <3>1 DEF ReadGroup, Proceed, LoopOK, Served, TypeOK, ServerTypeOK
    <3>2. CASE k # <<s, "consume">>
      BY <2>0, <2>2, <3>2, LoopKept DEF ReadGroup, Proceed, TypeOK, ServerTypeOK
    <3>3. QED
      BY <3>1, <3>2
  <2>3. ASSUME NEW s \in Server, AutoClaim(s) PROVE LoopOK(k)'
    <3>1. CASE k = <<s, "reclaim">>
      BY <2>3, <3>1 DEF AutoClaim, Proceed, LoopOK, Served, TypeOK, ServerTypeOK
    <3>2. CASE k # <<s, "reclaim">>
      BY <2>0, <2>3, <3>2, LoopKept DEF AutoClaim, Proceed, TypeOK, ServerTypeOK
    <3>3. QED
      BY <3>1, <3>2
  <2>4. ASSUME NEW s \in Server, ReadGroupFails(s) \/ StopServer(s) \/ StopServerReturns(s)
        PROVE  LoopOK(k)'
    <3>1. at' = at /\ cur' = cur
      BY <2>4 DEF ReadGroupFails, StopServer, StopServerReturns
    <3>2. server'[k[1]] = "idle" => server[k[1]] = "idle"
      <4>1. \/ server' = server
            \/ \E v \in {"stopping", "stopped"} : server' = [server EXCEPT ![s] = v]
        BY <2>4 DEF ReadGroupFails, StopServer, StopServerReturns
      <4>2. k[1] \in Server /\ server \in [Server -> {"idle", "started", "stopping", "stopped"}]
        BY DEF Loop, TypeOK, ServerTypeOK
      <4>3. QED
        BY <4>1, <4>2
    <3>3. QED
      BY <2>0, <3>1, <3>2, LoopKept
  <2>5. ASSUME NEW s \in Server, Crash(s) PROVE LoopOK(k)'
    <3>1. CASE k[1] = s
      BY <2>5, <3>1 DEF Crash, LoopOK, TypeOK, ServerTypeOK
    <3>2. CASE k[1] # s
      BY <2>0, <2>5, <3>2, LoopKept DEF Crash, TypeOK, ServerTypeOK
    <3>3. QED
      BY <3>1, <3>2
  <2>6. ASSUME NEW l \in Loop, Dispatch(l) PROVE LoopOK(k)'
    <3>1. CASE k = l
      <4>1. cur[l] \in Msg \ Junk
        BY <2>0, <2>6, <3>1 DEF Dispatch, LoopOK, TypeOK, ServerTypeOK
      <4>2. runs'[cur[l]] > 0
        BY <2>6, <4>1 DEF Dispatch, TypeOK, HistoryTypeOK
      <4>3. QED
        BY <2>0, <2>6, <3>1, <4>1, <4>2 DEF Dispatch, LoopOK, Served, TypeOK, ServerTypeOK
    <3>2. CASE k # l
      BY <2>0, <2>6, <3>2, LoopKept DEF Dispatch, TypeOK, ServerTypeOK
    <3>3. QED
      BY <3>1, <3>2
  <2>7. ASSUME NEW l \in Loop, DispatchThrows(l) \/ ReplyFails(l) \/ AckFails(l)
        PROVE  LoopOK(k)'
    <3>0. Abandon(l) /\ UNCHANGED server /\ at[l] # "off"
      BY <2>7 DEF DispatchThrows, ReplyFails, AckFails
    <3>1. CASE k = l
      BY <2>0, <3>0, <3>1 DEF Abandon, LoopOK, TypeOK, ServerTypeOK
    <3>2. CASE k # l
      BY <2>0, <3>0, <3>2, LoopKept DEF Abandon, TypeOK, ServerTypeOK
    <3>3. QED
      BY <3>1, <3>2
  <2>8. ASSUME NEW l \in Loop, Reply(l) PROVE LoopOK(k)'
    <3>1. CASE k = l
      <4>1. runs[cur[l]] > 0 /\ runs' = runs /\ cur' = cur /\ UNCHANGED server
        BY <2>0, <2>8, <3>1 DEF Reply, LoopOK
      <4>2. cur[l] \in replied' /\ at'[l] = "ack" /\ at[l] # "off"
        BY <2>8 DEF Reply, AddReply, TypeOK, ServerTypeOK
      <4>3. QED
        BY <2>0, <3>1, <4>1, <4>2 DEF LoopOK, Served
    <3>2. CASE k # l
      BY <2>0, <2>8, <3>2, LoopKept DEF Reply, TypeOK, ServerTypeOK
    <3>3. QED
      BY <3>1, <3>2
  <2>9. ASSUME NEW l \in Loop, Ack(l) PROVE LoopOK(k)'
    <3>1. CASE k = l
      BY <2>0, <2>9, <3>1 DEF Ack, Proceed, LoopOK, Served, TypeOK, ServerTypeOK
    <3>2. CASE k # l
      BY <2>0, <2>9, <3>2, LoopKept DEF Ack, Proceed, TypeOK, ServerTypeOK
    <3>3. QED
      BY <3>1, <3>2
  <2>10. ASSUME NEW l \in Loop, LoopExits(l) PROVE LoopOK(k)'
    <3>1. CASE k = l
      BY <2>10, <3>1 DEF LoopExits, LoopOK, TypeOK, ServerTypeOK
    <3>2. CASE k # l
      BY <2>0, <2>10, <3>2, LoopKept DEF LoopExits, TypeOK, ServerTypeOK
    <3>3. QED
      BY <3>1, <3>2
  <2>11. QED
    BY <1>3, <2>1, <2>2, <2>3, <2>4, <2>5, <2>6, <2>7, <2>8, <2>9, <2>10
    DEF ServerNext, LoopStep
<1>4. QED
  BY <1>1, <1>2, <1>3 DEF Next

LEMMA AckedStep ==
  ASSUME TypeOK, LoopInv, AckedOnlyWhenServed, [Next]_vars
  PROVE  AckedOnlyWhenServed'
<1>1. CASE Next
  <2>1. acked' = acked \/ \E l \in Loop : at[l] = "ack" /\ acked' = acked \cup {cur[l]}
    BY <1>1, ClientFrame, RedisFrame, HistoryStep DEF Next, RemovePending
  <2>2. \A m \in acked' : m \in Msg /\ Served(m)
    BY <2>1 DEF AckedOnlyWhenServed, LoopInv, LoopOK, TypeOK, HistoryTypeOK, ServerTypeOK
  <2>3. \A m \in acked' : Served(m)'
    BY <1>1, <2>2, ServedMonotone
  <2>4. QED
    BY <2>3 DEF AckedOnlyWhenServed
<1>2. CASE UNCHANGED vars
  BY <1>2 DEF vars, AckedOnlyWhenServed, Served
<1>3. QED
  BY <1>1, <1>2

-----------------------------------------------------------------------------
(* The pending map, the timers and the outcome of calls.                   *)

LEMMA PendingStep ==
  ASSUME TypeOK, PendingIsWaiting, [Next]_vars
  PROVE  PendingIsWaiting'
<1> USE DEF TypeOK, PendingIsWaiting, Refused
<1>0. ASSUME NEW S \in SUBSET pending, NEW o \in {"answered", "timeout", "failed", "stopped"},
             Settle(S, o)
      PROVE  PendingIsWaiting'
  BY <1>0, SettleType DEF Settle, ClientTypeOK
<1>1. ASSUME NEW c \in Call, Send(c) PROVE PendingIsWaiting'
  BY <1>1 DEF Issuable, Send, ClientTypeOK
<1>2. ASSUME NEW c \in Call, Timeout(c) PROVE PendingIsWaiting'
  BY <1>0, <1>2 DEF Timeout
<1>3. ASSUME NEW n \in Note, Notify(n) PROVE PendingIsWaiting'
  BY <1>3, MessagesAssumption DEF Notify, ClientTypeOK
<1>4. ASSUME NEW m \in Call \cup Note, XaddDone(m) PROVE PendingIsWaiting'
  BY <1>4, MessagesAssumption DEF XaddDone, ClientTypeOK
<1>5. ASSUME NEW m \in Call \cup Note, XaddFails(m) PROVE PendingIsWaiting'
  <2>1. CASE m \in Note
    BY <1>5, <2>1, MessagesAssumption DEF XaddFails, ClientTypeOK
  <2>2. CASE m \notin Note
    BY <1>0, <1>5, <2>2 DEF XaddFails
  <2>3. QED
    BY <2>1, <2>2
<1>6. CASE RunReplyLoop
  <2>1. PICK n \in 1..Len(replies) :
           Settle({c \in pending : \E i \in 1..n : replies[i] = c}, "answered")
    BY <1>6 DEF RunReplyLoop
  <2>2. QED
    BY <1>0, <2>1
<1>7. CASE Stop \/ StopDeletes \/ StopReturns
  BY <1>7 DEF Stop, StopDeletes, StopReturns
<1>8. CASE StopRejects
  BY <1>0, <1>8 DEF StopRejects
<1>9. CASE ServerNext \/ RedisNext
  BY <1>9, ServerFrame, RedisFrame
<1>10. CASE UNCHANGED vars
  BY <1>10 DEF vars
<1>11. ASSUME NEW m \in Call \cup Note, SendThrows(m) PROVE PendingIsWaiting'
  BY <1>11, MessagesAssumption DEF Issuable, SendThrows, ClientTypeOK
<1>12. QED
  BY <1>1, <1>2, <1>3, <1>4, <1>5, <1>6, <1>7, <1>8, <1>9, <1>10,
     <1>11
  DEF Next, ClientNext

\* The unread replies are older ones without a prefix, and at most one new one.
LEMMA RepliesStep ==
  ASSUME TypeOK, LoopInv, Next
  PROVE  \/ replies' = replies
         \/ replies' = <<>>
         \/ \E n \in 1..Len(replies) : replies' = SubSeq(replies, n + 1, Len(replies))
         \/ \E l \in Loop, k \in 0..Len(replies) :
              /\ at[l] = "reply"
              /\ replies' = Append(SubSeq(replies, k + 1, Len(replies)), cur[l])
<1>1. CASE ClientNext
  BY <1>1 DEF ClientNext, Issuable, Send, SendThrows, Timeout, Notify, XaddDone, XaddFails,
              RunReplyLoop, Stop, StopRejects, StopDeletes, StopReturns
<1>2. CASE ServerNext
  <2>1. \/ replies' = replies
        \/ \E l \in Loop : at[l] = "reply" /\ AddReply(cur[l])
    BY <1>2 DEF ServerNext, LoopStep, Start, ReadGroup, ReadGroupFails, AutoClaim,
                StopServer, StopServerReturns, Crash, Dispatch, DispatchThrows, Reply,
                Ack, ReplyFails, AckFails, LoopExits
  <2>2. QED
    BY <2>1 DEF AddReply
<1>3. CASE RedisNext
  BY <1>3, RedisFrame
<1>4. QED
  BY <1>1, <1>2, <1>3 DEF Next

LEMMA ReplyStep ==
  ASSUME TypeOK, LoopInv, ReplyInv, [Next]_vars
  PROVE  ReplyInv'
<1>1. CASE Next
  <2>1. \A c \in Call : runs[c] > 0 => runs'[c] > 0
    BY <1>1, ServedMonotone DEF Msg
  <2>2. SUFFICES ASSUME NEW i \in 1..Len(replies')
                 PROVE  replies'[i] \in Call \ Silent /\ runs[replies'[i]] > 0
    BY <2>1 DEF ReplyInv
  <2>3. replies \in Seq(Call)
    BY DEF TypeOK, RedisTypeOK
  <2>4. CASE replies' = replies \/ replies' = <<>>
    BY <2>4 DEF ReplyInv
  <2>5. ASSUME NEW n \in 1..Len(replies), replies' = SubSeq(replies, n + 1, Len(replies))
        PROVE  replies'[i] \in Call \ Silent /\ runs[replies'[i]] > 0
    <3>1. i + n \in 1..Len(replies) /\ replies'[i] = replies[i + n]
      BY <2>3, <2>5
    <3>2. QED
      BY <3>1 DEF ReplyInv
  <2>6. ASSUME NEW l \in Loop, NEW k \in 0..Len(replies), at[l] = "reply",
               replies' = Append(SubSeq(replies, k + 1, Len(replies)), cur[l])
        PROVE  replies'[i] \in Call \ Silent /\ runs[replies'[i]] > 0
    <3>1. cur[l] \in Call \ Silent /\ runs[cur[l]] > 0
      BY <2>6 DEF LoopInv, LoopOK
    <3>2. \/ i + k \in 1..Len(replies) /\ replies'[i] = replies[i + k]
          \/ replies'[i] = cur[l]
      BY <2>3, <2>6, <3>1
    <3>3. QED
      BY <3>1, <3>2 DEF ReplyInv
  <2>7. QED
    BY <1>1, <2>4, <2>5, <2>6, RepliesStep
<1>2. CASE UNCHANGED vars
  BY <1>2 DEF vars, ReplyInv
<1>3. QED
  BY <1>1, <1>2

LEMMA AnsweredStep ==
  ASSUME TypeOK, LoopInv, ReplyInv, AnsweredWasDispatched, [Next]_vars
  PROVE  AnsweredWasDispatched'
<1>1. CASE Next
  <2> SUFFICES ASSUME NEW c \in Call, status'[c] = "answered"
               PROVE  runs'[c] > 0 /\ c \notin Silent
    BY DEF AnsweredWasDispatched
  <2>1. runs[c] > 0 => runs'[c] > 0
    BY <1>1, ServedMonotone DEF Msg
  <2>2. CASE status[c] = "answered"
    BY <2>1, <2>2 DEF AnsweredWasDispatched
  <2>3. CASE status[c] # "answered"
    <3>1. CASE RunReplyLoop
      <4>1. PICK n \in 1..Len(replies) :
               Settle({d \in pending : \E i \in 1..n : replies[i] = d}, "answered")
        BY <3>1 DEF RunReplyLoop
      <4>2. \E i \in 1..n : replies[i] = c
        BY <2>3, <4>1 DEF Settle, TypeOK, ClientTypeOK
      <4>3. QED
        BY <2>1, <4>2 DEF ReplyInv, TypeOK, RedisTypeOK
    <3>2. CASE ClientNext /\ ~RunReplyLoop
      BY <2>3, <3>2
      DEF TypeOK, ClientTypeOK, ClientNext, Issuable, Send, SendThrows, Timeout, Notify,
          XaddDone, XaddFails, Stop, StopRejects, StopDeletes, StopReturns, Settle
    <3>3. CASE ServerNext \/ RedisNext
      BY <2>3, <3>3, ServerFrame, RedisFrame
    <3>4. QED
      BY <1>1, <3>1, <3>2, <3>3 DEF Next
  <2>4. QED
    BY <2>2, <2>3
<1>2. CASE UNCHANGED vars
  BY <1>2 DEF vars, AnsweredWasDispatched
<1>3. QED
  BY <1>1, <1>2

-----------------------------------------------------------------------------
(* Where an entry can be.                                                  *)

OnlyTakes(l, S) ==
  /\ Held(l)' \subseteq S
  /\ \A k \in Loop \ {l} : Held(k)' \subseteq Held(k)

\* What a server does to the entries in its loops' hands: either no loop gets a new
\* one, or one loop takes undelivered entries, or one loop takes idle entries.
LEMMA HeldStep ==
  ASSUME TypeOK, ServerNext
  PROVE  \/ \A k \in Loop : Held(k)' \subseteq Held(k)
         \/ \E l \in Loop : OnlyTakes(l, fresh \ fresh')
         \/ \E l \in Loop : OnlyTakes(l, idle \ idle')
<1> USE DEF TypeOK, ServerTypeOK
<1>1. ASSUME NEW s \in Server, Start(s) \/ StopServer(s) \/ StopServerReturns(s)
                               \/ ReadGroupFails(s)
      PROVE  \A k \in Loop : Held(k)' \subseteq Held(k)
  BY <1>1 DEF Start, StopServer, StopServerReturns, ReadGroupFails, Held
<1>2. ASSUME NEW s \in Server, ReadGroup(s)
      PROVE  OnlyTakes(<<s, "consume">>, fresh \ fresh')
  <2> DEFINE batch == FirstOf(fresh, BatchMax)
  <2>1. batch \subseteq fresh \ fresh'
    BY <1>2, FirstOfSubset DEF ReadGroup
  <2>2. Proceed(<<s, "consume">>, batch) /\ <<s, "consume">> \in Loop
    BY <1>2 DEF ReadGroup, Loop
  <2> HIDE DEF batch
  <2>3. QED
    BY <2>1, <2>2 DEF Proceed, IsFirst, Held, OnlyTakes
<1>3. ASSUME NEW s \in Server, AutoClaim(s)
      PROVE  OnlyTakes(<<s, "reclaim">>, idle \ idle')
  <2> DEFINE batch == FirstOf(idle, ClaimMax)
  <2>1. batch \subseteq idle \ idle'
    BY <1>3, FirstOfSubset DEF AutoClaim
  <2>2. Proceed(<<s, "reclaim">>, batch) /\ <<s, "reclaim">> \in Loop
    BY <1>3 DEF AutoClaim, Loop
  <2> HIDE DEF batch
  <2>3. QED
    BY <2>1, <2>2 DEF Proceed, IsFirst, Held, OnlyTakes
<1>4. ASSUME NEW s \in Server, Crash(s) PROVE \A k \in Loop : Held(k)' \subseteq Held(k)
  BY <1>4 DEF Crash, Held
<1>5. ASSUME NEW l \in Loop, Dispatch(l) \/ Reply(l) \/ LoopExits(l)
      PROVE  \A k \in Loop : Held(k)' \subseteq Held(k)
  BY <1>5 DEF Dispatch, Reply, LoopExits, Held
<1>6. ASSUME NEW l \in Loop, DispatchThrows(l) \/ ReplyFails(l) \/ AckFails(l)
      PROVE  \A k \in Loop : Held(k)' \subseteq Held(k)
  <2>1. Abandon(l)
    BY <1>6 DEF DispatchThrows, ReplyFails, AckFails
  <2>2. QED
    BY <2>1 DEF Abandon, Held
<1>7. ASSUME NEW l \in Loop, Ack(l) PROVE \A k \in Loop : Held(k)' \subseteq Held(k)
  BY <1>7 DEF Ack, Proceed, IsFirst, Held
<1>8. \A s \in Server : <<s, "consume">> \in Loop /\ <<s, "reclaim">> \in Loop
  BY DEF Loop
<1>9. QED
  BY <1>1, <1>2, <1>3, <1>4, <1>5, <1>6, <1>7, <1>8 DEF ServerNext, LoopStep

\* What a server does to the group: an entry that becomes pending was undelivered.
LEMMA GroupStep ==
  ASSUME TypeOK, ServerNext
  PROVE  /\ fresh' \subseteq fresh
         /\ pel' \subseteq pel \cup (fresh \ fresh')
         /\ idle' \subseteq idle
<1>1. FirstOf(fresh, BatchMax) \subseteq fresh
  BY FirstOfSubset
<1>2. QED
  BY <1>1
  DEF ServerNext, LoopStep, Start, ReadGroup, ReadGroupFails, AutoClaim, StopServer,
      StopServerReturns, Crash, Dispatch, DispatchThrows, Reply, Ack, ReplyFails,
      AckFails, LoopExits, RemovePending

LEMMA EntryStep ==
  ASSUME TypeOK, EntryInv, [Next]_vars
  PROVE  EntryInv'
<1> USE DEF TypeOK
<1>0. ASSUME UNCHANGED <<stream, fresh, pel, todo, cur>>
      PROVE  /\ \A x : InStream(x)' <=> InStream(x)
             /\ \A m \in (fresh \cup pel)' : InStream(m)'
             /\ \A l \in Loop : \A m \in Held(l)' : InStream(m)'
  BY <1>0 DEF EntryInv, InStream, Held
<1>1. ASSUME NEW m \in Call \cup Note, Send(m) \/ Notify(m)
      PROVE  EntryInv'
  <2>1. /\ status[m] = "unsent" /\ status' = [status EXCEPT ![m] = "waiting"]
        /\ sending' = sending \cup {m}
        /\ UNCHANGED <<stream, fresh, pel, todo, cur>>
    BY <1>1 DEF Issuable, Send, Notify
  <2>2. QED
    BY <1>0, <2>1 DEF EntryInv, ClientTypeOK
<1>2. ASSUME NEW m \in Call \cup Note, XaddDone(m) \/ XaddFails(m)
      PROVE  EntryInv'
  <2>1. /\ m \in sending /\ sending' = sending \ {m}
        /\ AddCommand(m) \/ UNCHANGED <<stream, fresh>>
        /\ UNCHANGED <<pel, todo, cur>>
    BY <1>2 DEF XaddDone, XaddFails
  <2>2. \A x \in Call \cup Note : /\ status[x] # "unsent" => status'[x] # "unsent"
                                  /\ x # m => status'[x] = status[x]
    BY <1>2 DEF XaddDone, XaddFails, Settle, ClientTypeOK
  <2>3. \A x : InStream(x)' => InStream(x) \/ x = m
    BY <2>1, AddCommandInStream DEF InStream, Msg
  <2>4. \A x : InStream(x) => InStream(x)'
    BY <2>1, AddCommandInStream DEF InStream, Msg
  <2>5. \A x \in fresh' : InStream(x)'
    BY <2>1, <2>4, AddCommandInStream DEF AddCommand, EntryInv, Msg
  <2>6. \A x \in sending' : status'[x] # "unsent" /\ ~InStream(x)'
    BY <2>1, <2>2, <2>3 DEF EntryInv, ClientTypeOK
  <2>7. \A n \in sending' \cap Note : status'[n] = "waiting"
    BY <2>1, <2>2 DEF EntryInv
  <2>8. \A x \in Call \cup Note : InStream(x)' => status'[x] # "unsent"
    BY <2>1, <2>2, <2>3 DEF EntryInv
  <2>9. \A l \in Loop : Held(l)' = Held(l)
    BY <2>1 DEF Held
  <2>10. QED
    BY <2>1, <2>4, <2>5, <2>6, <2>7, <2>8, <2>9 DEF EntryInv
<1>3. ASSUME NEW S \in SUBSET pending, NEW o \in {"answered", "timeout", "failed", "stopped"},
             Settle(S, o), UNCHANGED <<stream, fresh, pel, todo, cur, sending>>
      PROVE  EntryInv'
  <2>1. S \cap Note = {}
    BY MessagesAssumption DEF ClientTypeOK
  <2>2. QED
    BY <1>0, <1>3, <2>1 DEF EntryInv, Settle, ClientTypeOK
<1>4. ASSUME NEW c \in Call, Timeout(c)
      PROVE  EntryInv'
  <2>1. c \notin Note
    BY MessagesAssumption
  <2>2. QED
    BY <1>0, <1>4, <2>1 DEF Timeout, EntryInv, Settle, ClientTypeOK
<1>5. CASE RunReplyLoop
  <2>1. PICK n \in 1..Len(replies) :
           Settle({c \in pending : \E i \in 1..n : replies[i] = c}, "answered")
    BY <1>5 DEF RunReplyLoop
  <2>2. QED
    BY <1>3, <1>5, <2>1 DEF RunReplyLoop
<1>6. CASE StopRejects
  BY <1>3, <1>6 DEF StopRejects
<1>7. CASE Stop \/ StopDeletes \/ StopReturns
  BY <1>0, <1>7 DEF Stop, StopDeletes, StopReturns, EntryInv
<1>8. CASE ServerNext
  <2>1. \A x : InStream(x)' <=> InStream(x)
    BY <1>8, ServerFrame DEF InStream
  <2>2. \A m \in (fresh \cup pel)' : InStream(m)
    BY <1>8, GroupStep DEF EntryInv
  <2>3. \A l \in Loop : \A m \in Held(l)' : InStream(m)
    BY <1>8, HeldStep DEF OnlyTakes, EntryInv, RedisTypeOK
  <2>4. QED
    BY <1>8, <2>1, <2>2, <2>3, ServerFrame DEF EntryInv
<1>9. ASSUME NEW j \in Junk, ForeignAdd(j) PROVE EntryInv'
  <2>1. \A x : InStream(x)' <=> InStream(x) \/ x = j
    BY <1>9, AddCommandInStream DEF ForeignAdd, Msg
  <2>2. j \notin Call \cup Note
    BY MessagesAssumption
  <2>3. \A l \in Loop : Held(l)' = Held(l)
    BY <1>9 DEF ForeignAdd, Held
  <2>4. QED
    BY <1>9, <2>1, <2>2, <2>3 DEF ForeignAdd, AddCommand, EntryInv, ClientTypeOK
<1>10. ASSUME NEW m \in Msg, OrphanTurnsIdle(m) \/ HeldTurnsIdle(m) PROVE EntryInv'
  BY <1>0, <1>10 DEF OrphanTurnsIdle, HeldTurnsIdle, EntryInv
<1>11. CASE UNCHANGED vars
  BY <1>0, <1>11 DEF vars, EntryInv
<1>12. ASSUME NEW m \in Call \cup Note, SendThrows(m)
      PROVE  EntryInv'
  <2>1. /\ status[m] = "unsent" /\ status' = [status EXCEPT ![m] = "refused"]
        /\ UNCHANGED <<sending, stream, fresh, pel, todo, cur>>
    BY <1>12 DEF Issuable, SendThrows
  <2>2. QED
    BY <1>0, <2>1 DEF EntryInv, ClientTypeOK
<1>13. CASE ClientNext
  <2>1. CASE \E c \in Call : Send(c)
    BY <1>1, <2>1
  <2>2. CASE \E n \in Note : Notify(n)
    BY <1>1, <2>2
  <2>3. QED
    BY <1>2, <1>4, <1>5, <1>6, <1>7, <1>12, <1>13, <2>1, <2>2 DEF ClientNext
<1>14. CASE RedisNext
  BY <1>9, <1>10, <1>14 DEF RedisNext
<1>15. QED
  BY <1>8, <1>11, <1>13, <1>14 DEF Next

-----------------------------------------------------------------------------
(* No entry is in two hands.                                               *)

LEMMA ExclusiveStep ==
  ASSUME TypeOK, EntryInv, ExclusiveInv, [Next]_vars
  PROVE  ExclusiveInv'
<1>0. idle \subseteq pel /\ slow \in Nat
  BY BoundsAssumption DEF TypeOK, RedisTypeOK, HistoryTypeOK
<1>1. ASSUME UNCHANGED <<pel, idle, todo, cur, slow>>,
             \A m \in fresh' : m \in fresh \/ ~InStream(m)
      PROVE  ExclusiveInv'
  <2>1. \A l \in Loop : Held(l)' = Held(l)
    BY <1>1 DEF Held
  <2>2. fresh' \cap pel = {} /\ \A l \in Loop : Held(l) \cap fresh' = {}
    BY <1>1 DEF EntryInv, ExclusiveInv
  <2>3. QED
    BY <1>1, <2>1, <2>2 DEF ExclusiveInv, HeldOnce
<1>2. CASE ClientNext
  <2>1. \A m \in fresh' : m \in fresh \/ ~InStream(m)
    BY <1>2
    DEF EntryInv, ClientNext, Issuable, Send, SendThrows, Timeout, Notify, XaddDone,
        XaddFails, RunReplyLoop, Stop, StopRejects, StopDeletes, StopReturns, AddCommand
  <2>2. QED
    BY <1>1, <1>2, <2>1, ClientFrame
<1>3. CASE ServerNext
  <2>1. /\ fresh' \subseteq fresh /\ idle' \subseteq idle /\ slow' = slow
        /\ fresh' \cap pel' = {}
    BY <1>3, GroupStep, ServerFrame DEF ExclusiveInv
  <2>2. fresh \cap idle = {}
    BY <1>0 DEF ExclusiveInv
  <2>3. CASE \A k \in Loop : Held(k)' \subseteq Held(k)
    BY <2>1, <2>3 DEF ExclusiveInv, HeldOnce
  <2>4. CASE \E l \in Loop : OnlyTakes(l, fresh \ fresh')
    <3>1. PICK l \in Loop : /\ Held(l)' \subseteq fresh \ fresh'
                            /\ \A k \in Loop \ {l} : Held(k)' \subseteq Held(k)
      BY <2>4 DEF OnlyTakes
    <3>2. QED
      BY <2>1, <2>2, <3>1 DEF ExclusiveInv, HeldOnce
  <2>5. CASE \E l \in Loop : OnlyTakes(l, idle \ idle')
    <3>1. PICK l \in Loop : /\ Held(l)' \subseteq idle \ idle'
                            /\ \A k \in Loop \ {l} : Held(k)' \subseteq Held(k)
      BY <2>5 DEF OnlyTakes
    <3>2. QED
      BY <2>1, <2>2, <3>1 DEF ExclusiveInv, HeldOnce
  <2>6. QED
    BY <1>3, <2>3, <2>4, <2>5, HeldStep
<1>4. ASSUME NEW j \in Junk, ForeignAdd(j) PROVE ExclusiveInv'
  BY <1>1, <1>4 DEF ForeignAdd, AddCommand
<1>5. ASSUME NEW m \in Msg, OrphanTurnsIdle(m) PROVE ExclusiveInv'
  <2>1. \A l \in Loop : Held(l)' = Held(l) /\ m \notin Held(l)
    BY <1>5 DEF OrphanTurnsIdle, Orphaned, Held
  <2>2. QED
    BY <1>5, <2>1 DEF OrphanTurnsIdle, ExclusiveInv, HeldOnce
<1>6. ASSUME NEW m \in Msg, HeldTurnsIdle(m) PROVE ExclusiveInv'
  <2>1. \A l \in Loop : Held(l)' = Held(l)
    BY <1>6 DEF HeldTurnsIdle, Held
  <2>2. slow' # 0
    BY <1>0, <1>6 DEF HeldTurnsIdle
  <2>3. QED
    BY <1>6, <2>1, <2>2 DEF HeldTurnsIdle, ExclusiveInv, HeldOnce
<1>7. CASE UNCHANGED vars
  BY <1>1, <1>7 DEF vars
<1>8. QED
  BY <1>2, <1>3, <1>4, <1>5, <1>6, <1>7 DEF Next, RedisNext

-----------------------------------------------------------------------------
(* The theorems.                                                           *)

LEMMA InitInv == Init => IInv
<1> SUFFICES ASSUME Init PROVE IInv
  OBVIOUS
<1>1. TypeOK
  BY InitType
<1>2. LoopInv /\ AckedOnlyWhenServed
  BY DEF Init, LoopInv, LoopOK, AckedOnlyWhenServed
<1>3. ReplyInv /\ AnsweredWasDispatched /\ PendingIsWaiting
  BY DEF Init, ReplyInv, AnsweredWasDispatched, PendingIsWaiting
<1>4. EntryInv /\ ExclusiveInv
  BY DEF Init, EntryInv, ExclusiveInv, HeldOnce, Held, InStream
<1>5. QED
  BY <1>1, <1>2, <1>3, <1>4 DEF IInv

LEMMA InvStep == IInv /\ [Next]_vars => IInv'
BY TypeStep, LoopStepInv, AckedStep, ReplyStep, AnsweredStep, PendingStep, EntryStep,
   ExclusiveStep
DEF IInv

\* The invariant on which everything below rests holds in every behaviour.
THEOREM Invariance == Spec => []IInv
BY InitInv, InvStep, PTL DEF Spec

\* Every variable of the two transports and of Redis keeps its type.
THEOREM TypeCorrect == Spec => []TypeOK
<1>1. IInv => TypeOK
  BY DEF IInv
<1>2. QED
  BY <1>1, Invariance, PTL

\* handleEntry acknowledges nothing it has not dispatched and answered, however
\* many servers, failures and redeliveries there are.
THEOREM AtLeastOnce == Spec => []AckedOnlyWhenServed
<1>1. IInv => AckedOnlyWhenServed
  BY DEF IInv
<1>2. QED
  BY <1>1, Invariance, PTL

\* send() never leaves a waiting call without an armed timer, or an entry of the pending
\* map without one; a settled call is in the map only if its envelope could not be written.
THEOREM PendingMap == Spec => []PendingIsWaiting
<1>1. IInv => PendingIsWaiting
  BY DEF IInv
<1>2. QED
  BY <1>1, Invariance, PTL

\* A call that is answered has been dispatched.
THEOREM AnswersAreGenuine == Spec => []AnsweredWasDispatched
<1>1. IInv => AnsweredWasDispatched
  BY DEF IInv
<1>2. QED
  BY <1>1, Invariance, PTL

\* Without an idle expiry in a loop's hands, XREADGROUP and XAUTOCLAIM never give an
\* entry to two loops.
THEOREM Exclusive == Spec => []HeldOnce
<1>1. IInv => HeldOnce
  BY DEF IInv, ExclusiveInv
<1>2. QED
  BY <1>1, Invariance, PTL

-----------------------------------------------------------------------------
(* A settled promise stays as it is.                                       *)

LEMMA SettledStep ==
  ASSUME IInv, [Next]_vars, NEW m \in Call \cup Note,
         status[m] \notin {"unsent", "waiting"}
  PROVE  status'[m] = status[m]
<1> USE DEF IInv, TypeOK, ClientTypeOK, PendingIsWaiting
<1>1. CASE ClientNext
  <2>1. ASSUME NEW c \in Call, Send(c) PROVE status'[m] = status[m]
    BY <2>1 DEF Issuable, Send
  <2>2. ASSUME NEW n \in Note, Notify(n) PROVE status'[m] = status[m]
    BY <2>2 DEF Issuable, Notify
  <2>3. ASSUME NEW c \in Call, Timeout(c) PROVE status'[m] = status[m]
    BY <2>3 DEF Timeout, Settle
  <2>4. ASSUME NEW x \in Call \cup Note, XaddDone(x) \/ XaddFails(x)
        PROVE  status'[m] = status[m]
    <3>1. x = m => m \notin Note
      BY <2>4 DEF XaddDone, XaddFails, EntryInv
    <3>2. QED
      BY <2>4, <3>1 DEF XaddDone, XaddFails, Settle
  <2>5. CASE RunReplyLoop \/ StopRejects
    BY <2>5 DEF RunReplyLoop, StopRejects, Settle
  <2>6. CASE Stop \/ StopDeletes \/ StopReturns
    BY <2>6 DEF Stop, StopDeletes, StopReturns
  <2>7. ASSUME NEW x \in Call \cup Note, SendThrows(x) PROVE status'[m] = status[m]
    BY <2>7 DEF Issuable, SendThrows
  <2>8. QED
    BY <1>1, <2>1, <2>2, <2>3, <2>4, <2>5, <2>6, <2>7 DEF ClientNext
<1>2. CASE ServerNext \/ RedisNext
  BY <1>2, ServerFrame, RedisFrame
<1>3. CASE UNCHANGED vars
  BY <1>3 DEF vars
<1>4. QED
  BY <1>1, <1>2, <1>3 DEF Next

\* The timer, a late reply, a late XADD error and stop() never settle a call again.
THEOREM SettlesOnce == Spec => SettledOnce
<1>1. IInv /\ [Next]_vars
        => [\A m \in Call \cup Note : status[m] \notin {"unsent", "waiting"}
                                        => status'[m] = status[m]]_vars
  BY SettledStep
<1>2. QED
  BY <1>1, Invariance, PTL DEF Spec, SettledOnce

-----------------------------------------------------------------------------
(* RedisRpc implements RpcContract.                                        *)

servedNow == {m \in Msg : runs[m] > 0}

\* A client step is a step of the contract: the message is issued, confirmed,
\* answered or given up.
LEMMA ClientImplements ==
  ASSUME IInv, ClientNext
  PROVE  Contract!Next \/ UNCHANGED <<status, servedNow>>
<1> USE DEF IInv, TypeOK, ClientTypeOK, PendingIsWaiting
<1>0. UNCHANGED servedNow
  BY ClientFrame DEF servedNow
<1>1. ASSUME NEW m \in Call \cup Note, Send(m) \/ Notify(m) PROVE Contract!Next
  <2>1. Contract!Issue(m)
    BY <1>0, <1>1 DEF Issuable, Send, Notify, Contract!Issue, Contract!Become, servedNow
  <2>2. QED
    BY <2>1 DEF Contract!Next
<1>2. ASSUME NEW S \in SUBSET pending, NEW o \in {"timeout", "failed", "stopped"},
             Settle(S, o)
      PROVE  Contract!Next
  <2>1. Contract!Become(S \ Refused, o)
    BY <1>2 DEF Settle, Contract!Become
  <2>2. S \ Refused \in SUBSET Contract!Waiting(Call \cup Note) /\ o \in Contract!Outcome
    BY DEF Contract!Waiting, Contract!Outcome
  <2>3. Contract!GiveUp
    BY <1>0, <2>1, <2>2 DEF Contract!GiveUp, servedNow
  <2>4. QED
    BY <2>3 DEF Contract!Next
<1>3. ASSUME NEW c \in Call, Timeout(c) PROVE Contract!Next
  BY <1>2, <1>3 DEF Timeout
<1>4. ASSUME NEW m \in Call \cup Note, XaddDone(m)
      PROVE  Contract!Next \/ UNCHANGED <<status, servedNow>>
  <2>1. CASE m \in Note
    <3>1. Contract!Confirm(m)
      BY <1>0, <1>4, <2>1
      DEF XaddDone, EntryInv, Contract!Confirm, Contract!Become, Contract!Waiting, servedNow
    <3>2. QED
      BY <2>1, <3>1 DEF Contract!Next
  <2>2. CASE m \notin Note
    BY <1>0, <1>4, <2>2 DEF XaddDone
  <2>3. QED
    BY <2>1, <2>2
<1>5. ASSUME NEW m \in Call \cup Note, XaddFails(m) PROVE Contract!Next
  <2>1. CASE m \in Note
    <3>1. Contract!Become({m}, "failed") /\ {m} \in SUBSET Contract!Waiting(Call \cup Note)
      BY <1>5, <2>1 DEF XaddFails, EntryInv, Contract!Become, Contract!Waiting
    <3>2. Contract!GiveUp
      BY <1>0, <3>1 DEF Contract!GiveUp, Contract!Outcome, servedNow
    <3>3. QED
      BY <3>2 DEF Contract!Next
  <2>2. CASE m \notin Note
    BY <1>2, <1>5, <2>2 DEF XaddFails
  <2>3. QED
    BY <2>1, <2>2
<1>6. CASE RunReplyLoop
  <2>1. PICK n \in 1..Len(replies) :
           Settle({c \in pending : \E i \in 1..n : replies[i] = c}, "answered")
    BY <1>6 DEF RunReplyLoop
  <2> DEFINE S == {c \in pending : \E i \in 1..n : replies[i] = c} \ Refused
  <2>2. Contract!Become(S, "answered")
    BY <2>1 DEF Settle, Contract!Become
  <2>3. S \in SUBSET (Contract!Waiting(Call) \cap servedNow)
    BY DEF ReplyInv, RedisTypeOK, Contract!Waiting, servedNow, Msg
  <2>4. Contract!Answer
    BY <1>0, <2>2, <2>3 DEF Contract!Answer, servedNow
  <2>5. QED
    BY <2>4 DEF Contract!Next
<1>7. CASE StopRejects
  BY <1>2, <1>7 DEF StopRejects
<1>8. CASE Stop \/ StopDeletes \/ StopReturns
  BY <1>0, <1>8 DEF Stop, StopDeletes, StopReturns
<1>9. ASSUME NEW m \in Call \cup Note, SendThrows(m) PROVE Contract!Next
  <2>1. Contract!Refuse(m)
    BY <1>0, <1>9 DEF Issuable, SendThrows, Contract!Refuse, Contract!Become, servedNow
  <2>2. QED
    BY <2>1 DEF Contract!Next
<1>10. QED
  BY <1>1, <1>3, <1>4, <1>5, <1>6, <1>7, <1>8, <1>9 DEF ClientNext

\* A server step is a dispatch, which serves one issued message, or is invisible.
LEMMA ServerImplements ==
  ASSUME IInv, ServerNext
  PROVE  Contract!Next \/ UNCHANGED <<status, servedNow>>
<1> USE DEF IInv, TypeOK
<1>1. status' = status
  BY ServerFrame
<1>2. CASE runs' = runs
  BY <1>1, <1>2 DEF servedNow
<1>3. ASSUME NEW l \in Loop, Dispatch(l) PROVE Contract!Next
  <2>1. cur[l] \in Call \cup Note /\ cur[l] \in Held(l)
    BY <1>3, MessagesAssumption DEF Dispatch, LoopInv, LoopOK, ServerTypeOK, Msg, Held
  <2>2. PICK m \in Call \cup Note : m = cur[l]
    BY <2>1
  <2>3. status[m] # "unsent"
    BY <2>1, <2>2 DEF EntryInv
  <2>4. servedNow' = servedNow \cup {m}
    BY <1>3, <2>2 DEF Dispatch, HistoryTypeOK, servedNow, Msg
  <2>5. Contract!Serve(m)
    BY <1>1, <2>3, <2>4 DEF Contract!Serve, servedNow
  <2>6. QED
    BY <2>5 DEF Contract!Next
<1>4. QED
  BY <1>2, <1>3, HistoryStep

\* The two transports and Redis implement RpcContract.
THEOREM Refinement == Spec => ImplementsContract
<1>1. Init => Contract!Init
  BY DEF Init, Contract!Init
<1>2. IInv /\ [Next]_vars => [Contract!Next]_(Contract!vars)
  <2> SUFFICES ASSUME IInv, [Next]_vars PROVE Contract!Next \/ UNCHANGED <<status, servedNow>>
    BY DEF Contract!vars, servedNow
  <2>1. CASE RedisNext
    BY <2>1, RedisFrame DEF servedNow
  <2>2. CASE UNCHANGED vars
    BY <2>2 DEF vars, servedNow
  <2>3. QED
    BY <2>1, <2>2, ClientImplements, ServerImplements DEF Next
<1>3. QED
  BY <1>1, <1>2, Invariance, PTL DEF Spec, ImplementsContract, Contract!Spec

=============================================================================
