-------------------------- MODULE PyRedisRpcProofs --------------------------
(***************************************************************************)
(* Proofs about PyRedisRpc for every set of servers and messages, every    *)
(* nesting of handlers and every bound: the inductive invariant IInv, the  *)
(* safety properties that follow from it although tasks may be cancelled   *)
(* at every await, the refinement of RpcContract, and the bound on runs.   *)
(***************************************************************************)
EXTENDS PyRedisRpc, RedisStreamsProofs, FiniteSetTheorems

-----------------------------------------------------------------------------
(* The inductive invariant.                                                *)

\* The parts of TypeOK.
CallerTypeOK ==
  /\ client \in {"started", "stopping", "deleting", "stopped"}
  /\ pending \subseteq Call
  /\ future \in [Call -> {"none", "open", "answered", "stopped", "cancelled"}]
  /\ awaits \in [Call \cup Note -> {"none", "xadd", "reply", "timeout"}]
  /\ status \in [Call \cup Note -> {"unsent", "waiting", "sent", "answered", "timeout",
                                   "failed", "stopped", "cancelled"}]
  /\ \A m \in Call \cup Note : status[m] = "waiting" <=> awaits[m] # "none"

Phase == {"off", "poll", "dispatch", "reply", "ack"}

LoopTypeOK ==
  /\ server \in [Server -> {"idle", "started", "draining", "cancelled", "expired", "stopped"}]
  /\ at \in [Loop -> Phase]
  /\ cur \in [Loop -> Msg \cup {None}]
  /\ todo \in [Loop -> SUBSET Msg]
  /\ doomed \subseteq {l \in Loop : at[l] # "off"}
  /\ \A l \in Loop : (cur[l] = None) <=> (at[l] \in {"off", "poll"})

PastTypeOK ==
  /\ runs \in [Msg -> Nat] /\ served \subseteq Msg /\ replied \subseteq Call
  /\ acked \subseteq Msg /\ expired \in BOOLEAN
  /\ faults \in 0..MaxFaults /\ slow \in 0..MaxSlow /\ stops \in 0..MaxStops

Served(m) == m \in Junk \/ (m \in served /\ (m \in Call \ Silent => m \in replied))

\* What a loop knows about the entry it has in _handle_entry; a server that is not
\* up has no loops.
LoopOK(l) ==
  /\ server[l[1]] \in {"idle", "stopped"} => at[l] = "off"
  /\ at[l] = "dispatch" => cur[l] \notin Junk
  /\ at[l] = "reply" => cur[l] \in Call \ Silent /\ cur[l] \in served
  /\ at[l] = "ack" => Served(cur[l])

LoopInv == \A l \in Loop : LoopOK(l)

\* A reply is unread, or in a future, only if its call has been served; what is in
\* the dict has a future without a result.
FutureInv ==
  /\ \A i \in 1..Len(replies) : replies[i] \in served
  /\ \A c \in Call : future[c] = "answered" => c \in served
  /\ \A c \in pending : future[c] \in {"open", "cancelled"}

\* Only what was sent reaches the stream, once; only what reached the stream
\* reaches the group and the loops.
EntryInv ==
  /\ \A m \in Call \cup Note : awaits[m] = "xadd" => ~InStream(m)
  /\ \A m \in Call \cup Note : InStream(m) => status[m] # "unsent"
  /\ \A m \in fresh \cup pel : InStream(m)
  /\ \A l \in Loop : \A m \in Held(l) : InStream(m)

\* The group, the idle entries and the loops never share an entry.
ExclusiveInv ==
  /\ fresh \cap pel = {}
  /\ \A l \in Loop : Held(l) \cap fresh = {}
  /\ slow = 0 => \A l \in Loop : Held(l) \cap idle = {}
  /\ HeldOnce

IInv ==
  /\ TypeOK /\ LoopInv /\ AckedOnlyWhenServed
  /\ FutureInv /\ DictHasTheWaiting
  /\ EntryInv /\ ExclusiveInv

USE DEF redisVars, clientVars, loopVars, serverVars, historyVars, budget

LEMMA TypeParts ==
  /\ TypeOK <=> RedisTypeOK /\ CallerTypeOK /\ LoopTypeOK /\ PastTypeOK
  /\ TypeOK' <=> RedisTypeOK' /\ CallerTypeOK' /\ LoopTypeOK' /\ PastTypeOK'
BY DEF TypeOK, CallerTypeOK, LoopTypeOK, PastTypeOK, Phase

-----------------------------------------------------------------------------
(* What each part of the next-state relation leaves alone.                 *)

\* The client changes no server, no pending entry and no history.
LEMMA ClientFrame ==
  ClientNext => UNCHANGED <<group, pel, idle, serverVars, historyVars, slow, stops>>
BY DEF ClientNext, Send, Return, TimerFires, TimesOut, Notify, XaddDone, XaddFails, Cancel,
       ReplyLoop, Stop, StopRejects, StopDeletes, AddCommand, MaybeAdded

\* Time and other programs change only the command stream and the idle entries.
LEMMA RedisFrame ==
  RedisNext => UNCHANGED <<group, pel, replies, replyKey, clientVars, serverVars,
                           historyVars, faults, stops>>
BY DEF RedisNext, ForeignAdd, OrphanTurnsIdle, HeldTurnsIdle

\* The tasks of S end in a CancelledError; an XADD one of them awaited is applied
\* or not.
CancelledTasks(S) ==
  /\ Interrupted(S)
  /\ \A m \in S : status[m] = "waiting"
  /\ UNCHANGED <<stream, fresh>> \/ \E m \in S : awaits[m] = "xadd" /\ AddCommand(m)

LEMMA HandlersEndCancels ==
  ASSUME NEW L, HandlersEnd(L) PROVE \E S \in SUBSET Call : CancelledTasks(S)
<1> DEFINE S == {c \in Call : /\ status[c] = "waiting"
                              /\ \E o \in Nested, l \in L :
                                   Inner[o] = c /\ at[l] = "dispatch" /\ cur[l] = o}
<1>1. /\ Interrupted(S)
      /\ (\E c \in S : awaits[c] = "xadd" /\ AddCommand(c)) \/ UNCHANGED <<stream, fresh>>
  BY DEF HandlersEnd
<1>2. S \in SUBSET Call /\ \A c \in S : status[c] = "waiting"
  OBVIOUS
<1> HIDE DEF S
<1>3. QED
  BY <1>1, <1>2 DEF CancelledTasks

\* A server leaves the client alone but for the calls its handlers await.
LEMMA ServerFrame ==
  ASSUME ServerNext
  PROVE  /\ UNCHANGED <<client, pending, slow>>
         /\ \/ UNCHANGED <<stream, future, awaits, status>>
            \/ (\E S \in SUBSET Call : CancelledTasks(S)) /\ UNCHANGED <<pel, idle>>
<1> DEFINE Quiet == UNCHANGED <<stream, future, awaits, status>>
           Goal == /\ UNCHANGED <<client, pending, slow>>
                   /\ \/ Quiet
                      \/ (\E S \in SUBSET Call : CancelledTasks(S)) /\ UNCHANGED <<pel, idle>>
<1>1. ASSUME NEW s \in Server,
             \/ Start(s) \/ ReadGroup(s) \/ ReadGroupFails(s) \/ AutoClaim(s)
             \/ StopServer(s) \/ CancelLoops(s) \/ CancelAgain(s) \/ StopReturns(s)
      PROVE  Goal
  BY <1>1 DEF Start, ReadGroup, ReadGroupFails, AutoClaim, StopServer, CancelLoops,
              CancelAgain, StopReturns
<1>2. ASSUME NEW s \in Server, Crash(s) PROVE Goal
  <2>1. HandlersEnd(LoopsOf(s)) /\ UNCHANGED <<client, pending, slow, pel, idle>>
    BY <1>2 DEF Crash
  <2>2. QED
    BY <2>1, HandlersEndCancels
<1>3. ASSUME NEW l \in Loop, \/ LoopStep(l) \/ DispatchRaises(l) \/ HandlerCancelled(l)
                             \/ ReplyFails(l) \/ AckFails(l) \/ LoopExits(l)
      PROVE  Goal
  BY <1>3 DEF LoopStep, Dispatch, Reply, Ack, DispatchRaises, HandlerCancelled, ReplyFails,
              AckFails, LoopExits
<1>4. ASSUME NEW l \in Loop, CancelArrives(l) PROVE Goal
  <2>1. UNCHANGED <<client, pending, slow>>
    BY <1>4 DEF CancelArrives
  <2>2. CASE at[l] = "dispatch"
    <3>1. HandlersEnd({l}) /\ UNCHANGED <<pel, idle>>
      BY <1>4, <2>2 DEF CancelArrives
    <3>2. QED
      BY <2>1, <3>1, HandlersEndCancels
  <2>3. CASE at[l] # "dispatch"
    BY <1>4, <2>1, <2>3 DEF CancelArrives
  <2>4. QED
    BY <2>2, <2>3
<1>5. QED
  BY <1>1, <1>2, <1>3, <1>4 DEF ServerNext

-----------------------------------------------------------------------------
(* Type correctness.                                                       *)

LEMMA InitType == Init => TypeOK
<1> SUFFICES ASSUME Init PROVE TypeOK
  OBVIOUS
<1>1. RedisTypeOK
  <2>1. stream \in Seq(Msg) /\ replies \in Seq(Call)
    BY DEF Init
  <2>2. QED
    BY <2>1 DEF Init, RedisTypeOK
<1>2. CallerTypeOK
  BY DEF Init, CallerTypeOK
<1>3. LoopTypeOK
  BY DEF Init, LoopTypeOK, Phase
<1>4. PastTypeOK
  <2>1. expired \in BOOLEAN
    BY DEF Init
  <2>2. runs \in [Msg -> Nat] /\ faults = 0 /\ slow = 0 /\ stops = 0
    BY DEF Init
  <2>3. QED
    BY <2>1, <2>2, PyAssumption DEF Init, PastTypeOK
<1>5. QED
  BY <1>1, <1>2, <1>3, <1>4, TypeParts

LEMMA MoveType ==
  ASSUME LoopTypeOK, NEW l \in Loop, NEW w \in Phase, NEW m \in Msg \cup {None},
         NEW S \in SUBSET Msg, (m = None) <=> (w \in {"off", "poll"}), MoveTo(l, w, m, S)
  PROVE  /\ at' \in [Loop -> Phase]
         /\ cur' \in [Loop -> Msg \cup {None}]
         /\ todo' \in [Loop -> SUBSET Msg]
         /\ \A k \in Loop : (cur'[k] = None) <=> (at'[k] \in {"off", "poll"})
         /\ at'[l] = w /\ \A k \in Loop \ {l} : at'[k] = at[k]
BY DEF LoopTypeOK, MoveTo

\* A loop that goes on to the next entry or polls, or gives up and polls.
LEMMA GoOnType ==
  ASSUME LoopTypeOK, PastTypeOK, NEW l \in Loop, NEW S \in SUBSET Msg,
         Proceed(l, S) \/ (Abandon(l) /\ runs' = runs)
  PROVE  /\ at' \in [Loop -> Phase]
         /\ cur' \in [Loop -> Msg \cup {None}]
         /\ todo' \in [Loop -> SUBSET Msg]
         /\ \A k \in Loop : (cur'[k] = None) <=> (at'[k] \in {"off", "poll"})
         /\ at'[l] # "off" /\ \A k \in Loop \ {l} : at'[k] = at[k]
         /\ runs' \in [Msg -> Nat]
<1>1. CASE MoveTo(l, "poll", None, {}) /\ runs' = runs
  BY <1>1, MoveType DEF Phase, PastTypeOK
<1>2. ASSUME NEW m \in S, MoveTo(l, IF m \in Junk THEN "ack" ELSE "dispatch", m, S \ {m}),
             runs' = [runs EXCEPT ![m] = IF m \in Junk THEN @ ELSE @ + 1]
      PROVE  /\ at' \in [Loop -> Phase]
             /\ cur' \in [Loop -> Msg \cup {None}]
             /\ todo' \in [Loop -> SUBSET Msg]
             /\ \A k \in Loop : (cur'[k] = None) <=> (at'[k] \in {"off", "poll"})
             /\ at'[l] # "off" /\ \A k \in Loop \ {l} : at'[k] = at[k]
             /\ runs' \in [Msg -> Nat]
  <2> DEFINE w == IF m \in Junk THEN "ack" ELSE "dispatch"
  <2>1. w \in Phase \ {"off", "poll"} /\ m # None /\ m \in Msg
    BY PyAssumption DEF Phase
  <2> HIDE DEF w
  <2>2. MoveTo(l, w, m, S \ {m})
    BY <1>2 DEF w
  <2>3. runs' \in [Msg -> Nat]
    BY <1>2 DEF PastTypeOK
  <2>4. S \ {m} \in SUBSET Msg
    OBVIOUS
  <2>5. QED
    BY <2>1, <2>2, <2>3, <2>4, MoveType
<1>3. QED
  BY <1>1, <1>2 DEF Proceed, Abandon

LEMMA InterruptedType ==
  ASSUME CallerTypeOK, NEW S \in SUBSET (Call \cup Note), Interrupted(S),
         UNCHANGED <<client, pending>>
  PROVE  CallerTypeOK'
BY DEF CallerTypeOK, Interrupted, Ends

\* Failures and stops are counted one at a time.
LEMMA CountsStep ==
  ASSUME Next
  PROVE  /\ faults' = faults \/ Fault
         /\ stops' = stops \/ (stops < MaxStops /\ stops' = stops + 1)
<1>1. CASE ClientNext
  BY <1>1
  DEF ClientNext, Send, Return, TimerFires, TimesOut, Notify, XaddDone, XaddFails, Cancel,
      ReplyLoop, Stop, StopRejects, StopDeletes
<1>2. CASE ServerNext
  BY <1>2
  DEF ServerNext, LoopStep, Start, ReadGroup, ReadGroupFails, AutoClaim, StopServer,
      CancelLoops, CancelAgain, StopReturns, Crash, Dispatch, Reply, Ack, DispatchRaises,
      HandlerCancelled, ReplyFails, AckFails, CancelArrives, LoopExits
<1>3. QED
  BY <1>1, <1>2, RedisFrame DEF Next

LEMMA CountsType ==
  ASSUME PastTypeOK, Next
  PROVE  faults' \in 0..MaxFaults /\ stops' \in 0..MaxStops
BY CountsStep, PyAssumption DEF PastTypeOK, Fault

LEMMA ClientType ==
  ASSUME TypeOK, ClientNext
  PROVE  TypeOK'
<1> USE TypeParts
<1>0. RedisTypeOK /\ CallerTypeOK /\ LoopTypeOK' /\ idle' = idle /\ pel' = pel /\ group' = group
  BY ClientFrame DEF LoopTypeOK
<1>1. PastTypeOK'
  <2>1. faults' \in 0..MaxFaults
    BY CountsType DEF Next
  <2>2. QED
    BY <2>1, ClientFrame DEF PastTypeOK
<1>2. RedisTypeOK'
  <2>1. /\ UNCHANGED <<stream, fresh>> \/ \E m \in Call \cup Note : AddCommand(m)
        /\ \/ UNCHANGED <<replies, replyKey>>
           \/ replies' = <<>> /\ replyKey' = FALSE
           \/ ReplyLoop
    BY DEF ClientNext, Send, Return, TimerFires, TimesOut, Notify, XaddDone, XaddFails, Cancel,
           MaybeAdded, ReplyLoop, Stop, StopRejects, StopDeletes
  <2>2. stream' \in Seq(Msg) /\ fresh' \subseteq Msg
    BY <1>0, <2>1, AddCommandType DEF RedisTypeOK, Msg
  <2>3. replies' \in Seq(Call) /\ replyKey' \in BOOLEAN
    <3>1. CASE ReplyLoop
      <4>1. PICK n \in 1..Len(replies) : replies' = SubSeq(replies, n + 1, Len(replies))
        BY <3>1 DEF ReplyLoop
      <4>2. replies \in Seq(Call) /\ n + 1 >= 1
        BY <1>0 DEF RedisTypeOK
      <4>3. QED
        BY <1>0, <3>1, <4>1, <4>2 DEF ReplyLoop, RedisTypeOK
    <3>2. replies \in Seq(Call) /\ <<>> \in Seq(Call) /\ replyKey \in BOOLEAN
      BY <1>0 DEF RedisTypeOK
    <3>3. QED
      BY <2>1, <3>1, <3>2
  <2>4. QED
    BY <1>0, <2>2, <2>3 DEF RedisTypeOK
<1>3. CallerTypeOK'
  <2> USE <1>0 DEF CallerTypeOK
  <2>1. ASSUME NEW c \in Call, Send(c) PROVE CallerTypeOK'
    BY <2>1 DEF Send
  <2>2. ASSUME NEW n \in Note, Notify(n) PROVE CallerTypeOK'
    BY <2>2 DEF Notify
  <2>3. ASSUME NEW m \in Call \cup Note, XaddDone(m) PROVE CallerTypeOK'
    BY <2>3 DEF XaddDone
  <2>4. ASSUME NEW m \in Call \cup Note, XaddFails(m) PROVE CallerTypeOK'
    BY <2>4 DEF XaddFails, Ends
  <2>5. ASSUME NEW m \in Call \cup Note, Cancel(m) PROVE CallerTypeOK'
    BY <2>5, InterruptedType DEF Cancel
  <2>6. ASSUME NEW c \in Call, Return(c) \/ TimesOut(c) PROVE CallerTypeOK'
    BY <2>6 DEF Return, TimesOut, Ends
  <2>7. ASSUME NEW c \in Call, TimerFires(c) PROVE CallerTypeOK'
    BY <2>7 DEF TimerFires
  <2>8. CASE ReplyLoop
    <3>1. PICK n \in 1..Len(replies) :
            LET S == {c \in pending : \E i \in 1..n : replies[i] = c} IN
            /\ pending' = pending \ S
            /\ future' = [c \in Call |-> IF c \in S /\ future[c] = "open" THEN "answered"
                                                                         ELSE future[c]]
      BY <2>8 DEF ReplyLoop
    <3>2. UNCHANGED <<client, awaits, status>>
      BY <2>8 DEF ReplyLoop
    <3>3. QED
      BY <3>1, <3>2
  <2>9. CASE Stop \/ StopRejects \/ StopDeletes
    BY <2>9 DEF Stop, StopRejects, StopDeletes
  <2>10. QED
    BY <2>1, <2>2, <2>3, <2>4, <2>5, <2>6, <2>7, <2>8, <2>9 DEF ClientNext
<1>4. QED
  BY <1>0, <1>1, <1>2, <1>3

\* What a server does to the group: an entry that becomes pending was undelivered.
LEMMA GroupStep ==
  ASSUME TypeOK, ServerNext
  PROVE  /\ pel' \subseteq pel \cup (fresh \ fresh')
         /\ idle' \subseteq idle
         /\ \/ stream' = stream /\ fresh' \subseteq fresh
            \/ \E S \in SUBSET Call : CancelledTasks(S)
<1>0. Batch \subseteq fresh /\ FirstOf(idle, ClaimMax) \subseteq idle
  BY FirstOfSubset DEF Batch
<1>1. ASSUME NEW s \in Server,
             \/ Start(s) \/ ReadGroup(s) \/ ReadGroupFails(s) \/ AutoClaim(s)
             \/ StopServer(s) \/ CancelLoops(s) \/ CancelAgain(s) \/ StopReturns(s)
      PROVE  /\ pel' \subseteq pel \cup (fresh \ fresh') /\ idle' \subseteq idle
             /\ stream' = stream /\ fresh' \subseteq fresh
  BY <1>0, <1>1 DEF Start, ReadGroup, ReadGroupFails, AutoClaim, StopServer, CancelLoops,
                    CancelAgain, StopReturns, Deliver
<1>2. ASSUME NEW l \in Loop, \/ LoopStep(l) \/ DispatchRaises(l) \/ HandlerCancelled(l)
                             \/ ReplyFails(l) \/ AckFails(l) \/ LoopExits(l)
      PROVE  /\ pel' \subseteq pel \cup (fresh \ fresh') /\ idle' \subseteq idle
             /\ stream' = stream /\ fresh' \subseteq fresh
  BY <1>2 DEF LoopStep, Dispatch, Reply, Ack, DispatchRaises, HandlerCancelled, ReplyFails,
              AckFails, LoopExits, RemovePending, MaybeAcked
<1>3. ASSUME NEW l \in Loop, CancelArrives(l), at[l] # "dispatch"
      PROVE  /\ pel' \subseteq pel \cup (fresh \ fresh') /\ idle' \subseteq idle
             /\ stream' = stream /\ fresh' \subseteq fresh
  BY <1>0, <1>3 DEF CancelArrives, Deliver, RemovePending, MaybeAcked
<1>4. ASSUME NEW l \in Loop, CancelArrives(l), at[l] = "dispatch"
      PROVE  UNCHANGED <<pel, idle>> /\ \E S \in SUBSET Call : CancelledTasks(S)
  BY <1>4, HandlersEndCancels DEF CancelArrives
<1>5. ASSUME NEW s \in Server, Crash(s)
      PROVE  UNCHANGED <<pel, idle>> /\ \E S \in SUBSET Call : CancelledTasks(S)
  BY <1>5, HandlersEndCancels DEF Crash
<1>6. QED
  BY <1>1, <1>2, <1>3, <1>4, <1>5 DEF ServerNext

LEMMA ServerLoopType ==
  ASSUME LoopTypeOK, PastTypeOK, LoopInv, RedisTypeOK, ServerNext
  PROVE  LoopTypeOK' /\ runs' \in [Msg -> Nat]
<1> USE DEF LoopTypeOK
<1>0. /\ Batch \subseteq Msg /\ FirstOf(idle, ClaimMax) \subseteq Msg
      /\ \A s \in Server : <<s, "consume">> \in Loop /\ <<s, "reclaim">> \in Loop
  BY FirstOfSubset DEF Batch, RedisTypeOK, Loop
<1>1. ASSUME NEW s \in Server, Start(s) PROVE LoopTypeOK' /\ runs' \in [Msg -> Nat]
  <2>1. \A l \in Loop : l[1] = s => at[l] = "off"
    BY <1>1 DEF Start, LoopInv, LoopOK
  <2>2. QED
    BY <1>1, <2>1 DEF Start, PastTypeOK, Phase
<1>2. ASSUME NEW s \in Server, ReadGroup(s) PROVE LoopTypeOK' /\ runs' \in [Msg -> Nat]
  BY <1>0, <1>2, GoOnType DEF ReadGroup
<1>3. ASSUME NEW s \in Server, AutoClaim(s) PROVE LoopTypeOK' /\ runs' \in [Msg -> Nat]
  BY <1>0, <1>3, GoOnType DEF AutoClaim
<1>4. ASSUME NEW s \in Server, ReadGroupFails(s) PROVE LoopTypeOK' /\ runs' \in [Msg -> Nat]
  BY <1>4 DEF ReadGroupFails, PastTypeOK
<1>5. ASSUME NEW s \in Server,
             StopServer(s) \/ CancelLoops(s) \/ CancelAgain(s) \/ StopReturns(s)
      PROVE  LoopTypeOK' /\ runs' \in [Msg -> Nat]
  BY <1>5 DEF StopServer, CancelLoops, CancelAgain, StopReturns, Unended, LoopsOf, PastTypeOK
<1>6. ASSUME NEW s \in Server, Crash(s) PROVE LoopTypeOK' /\ runs' \in [Msg -> Nat]
  BY <1>6 DEF Crash, LoopsOf, PastTypeOK, Phase
<1>7. ASSUME NEW l \in Loop, Dispatch(l) \/ Reply(l)
      PROVE  LoopTypeOK' /\ runs' \in [Msg -> Nat]
  BY <1>7 DEF Dispatch, Reply, PastTypeOK, Phase
<1>8. ASSUME NEW l \in Loop, Ack(l) PROVE LoopTypeOK' /\ runs' \in [Msg -> Nat]
  BY <1>8, GoOnType DEF Ack
<1>9. ASSUME NEW l \in Loop, DispatchRaises(l) \/ ReplyFails(l) \/ AckFails(l)
      PROVE  LoopTypeOK' /\ runs' \in [Msg -> Nat]
  <2>1. Abandon(l) /\ runs' = runs /\ server' = server /\ doomed' \subseteq doomed
    BY <1>9 DEF DispatchRaises, ReplyFails, AckFails
  <2>2. QED
    BY <2>1, GoOnType
<1>10. ASSUME NEW l \in Loop, HandlerCancelled(l) \/ CancelArrives(l) \/ LoopExits(l)
       PROVE  LoopTypeOK' /\ runs' \in [Msg -> Nat]
  <2>1. /\ MoveTo(l, "off", None, {}) /\ runs' = runs /\ server' = server
        /\ doomed' \subseteq doomed \ {l}
    BY <1>10 DEF HandlerCancelled, CancelArrives, LoopExits
  <2>2. "off" \in Phase /\ None \in Msg \cup {None} /\ {} \in SUBSET Msg
    BY DEF Phase
  <2>3. QED
    BY <2>1, <2>2, MoveType DEF PastTypeOK
<1>11. QED
  BY <1>1, <1>2, <1>3, <1>4, <1>5, <1>6, <1>7, <1>8, <1>9, <1>10 DEF ServerNext, LoopStep

LEMMA ServerType ==
  ASSUME TypeOK, LoopInv, ServerNext
  PROVE  TypeOK'
<1> USE TypeParts
<1>1. LoopTypeOK' /\ runs' \in [Msg -> Nat]
  BY ServerLoopType
<1>2. CallerTypeOK'
  <2>1. CASE UNCHANGED <<stream, future, awaits, status>>
    BY <2>1, ServerFrame DEF CallerTypeOK
  <2>2. CASE \E S \in SUBSET Call : CancelledTasks(S)
    BY <2>2, ServerFrame, InterruptedType DEF CancelledTasks
  <2>3. QED
    BY <2>1, <2>2, ServerFrame
<1>3. /\ UNCHANGED <<replies, replyKey, replied>> \/ \E c \in Call : AddReply(c)
      /\ UNCHANGED acked \/ \E m \in Msg : acked' = acked \cup {m}
      /\ UNCHANGED served \/ \E m \in Msg : served' = served \cup {m}
      /\ expired' \in BOOLEAN /\ group' \in BOOLEAN
      /\ idle' \subseteq pel'
  <2> DEFINE Goal ==
        /\ UNCHANGED <<replies, replyKey, replied>> \/ \E c \in Call : AddReply(c)
        /\ UNCHANGED acked \/ \E m \in Msg : acked' = acked \cup {m}
        /\ UNCHANGED served \/ \E m \in Msg : served' = served \cup {m}
        /\ expired' \in BOOLEAN /\ group' \in BOOLEAN
        /\ idle' \subseteq pel'
  <2>0. /\ Batch \subseteq fresh
        /\ \A l \in Loop : /\ at[l] = "reply" => cur[l] \in Call
                           /\ at[l] \in {"dispatch", "reply", "ack"} => cur[l] \in Msg
    BY FirstOfSubset DEF LoopInv, LoopOK, LoopTypeOK, Batch
  <2> USE <2>0 DEF PastTypeOK, RedisTypeOK
  <2>1. ASSUME NEW s \in Server, Start(s) \/ ReadGroup(s) \/ ReadGroupFails(s) \/ AutoClaim(s)
        PROVE  Goal
    BY <2>1 DEF Start, ReadGroup, ReadGroupFails, AutoClaim, Deliver
  <2>2. ASSUME NEW s \in Server, StopServer(s) \/ CancelLoops(s) \/ CancelAgain(s) \/ StopReturns(s)
        PROVE  Goal
    BY <2>2 DEF StopServer, CancelLoops, CancelAgain, StopReturns, Busy
  <2>3. ASSUME NEW s \in Server, Crash(s) PROVE Goal
    BY <2>3 DEF Crash
  <2>4. ASSUME NEW l \in Loop, Dispatch(l) \/ DispatchRaises(l) \/ HandlerCancelled(l) \/ LoopExits(l)
        PROVE  Goal
    BY <2>4 DEF Dispatch, DispatchRaises, HandlerCancelled, LoopExits
  <2>5. ASSUME NEW l \in Loop, Reply(l) \/ ReplyFails(l) PROVE Goal
    BY <2>5 DEF Reply, ReplyFails, MaybeReplied
  <2>6. ASSUME NEW l \in Loop, Ack(l) \/ AckFails(l) PROVE Goal
    BY <2>6 DEF Ack, AckFails, MaybeAcked, RemovePending
  <2>7. ASSUME NEW l \in Loop, CancelArrives(l) PROVE Goal
    BY <2>7 DEF CancelArrives, MaybeAcked, MaybeReplied, RemovePending, Deliver
  <2>8. QED
    BY <2>1, <2>2, <2>3, <2>4, <2>5, <2>6, <2>7 DEF ServerNext, LoopStep
<1>4. PastTypeOK'
  BY <1>1, <1>3, ServerFrame, CountsType DEF PastTypeOK, AddReply, Next
<1>5. RedisTypeOK'
  <2>1. stream' \in Seq(Msg) /\ fresh' \subseteq Msg
    BY GroupStep, AddCommandType DEF RedisTypeOK, CancelledTasks, Msg
  <2>2. pel' \subseteq Msg
    BY GroupStep DEF RedisTypeOK
  <2>3. replies' \in Seq(Call) /\ replyKey' \in BOOLEAN
    BY <1>3, AddReplyType DEF RedisTypeOK
  <2>4. QED
    BY <1>3, <2>1, <2>2, <2>3 DEF RedisTypeOK
<1>6. QED
  BY <1>1, <1>2, <1>4, <1>5

LEMMA TypeStep ==
  ASSUME TypeOK, LoopInv, [Next]_vars
  PROVE  TypeOK'
<1>1. CASE RedisNext
  <2>1. /\ CallerTypeOK' /\ LoopTypeOK'
    BY <1>1, TypeParts, RedisFrame DEF CallerTypeOK, LoopTypeOK
  <2>2. ASSUME NEW j \in Junk, ForeignAdd(j) PROVE RedisTypeOK' /\ PastTypeOK'
    BY <2>2, TypeParts, AddCommandType DEF ForeignAdd, RedisTypeOK, PastTypeOK, Msg
  <2>3. ASSUME NEW m \in Msg, OrphanTurnsIdle(m) \/ HeldTurnsIdle(m)
        PROVE  RedisTypeOK' /\ PastTypeOK'
    BY <2>3, TypeParts, PyAssumption
    DEF OrphanTurnsIdle, HeldTurnsIdle, RedisTypeOK, PastTypeOK
  <2>4. QED
    BY <1>1, <2>1, <2>2, <2>3, TypeParts DEF RedisNext
<1>2. CASE UNCHANGED vars
  BY <1>2 DEF vars, TypeOK, RedisTypeOK
<1>3. QED
  BY <1>1, <1>2, ClientType, ServerType DEF Next

-----------------------------------------------------------------------------
(* Nothing is acknowledged before it is served.                            *)

\* Only a dispatcher serves, only a loop at its reply answers, only a loop at its
\* acknowledgement acknowledges.
LEMMA HistoryStep ==
  ASSUME ServerNext
  PROVE  /\ served' = served \/ \E l \in Loop : Dispatch(l)
         /\ \/ UNCHANGED <<replies, replied>>
            \/ \E l \in Loop : at[l] = "reply" /\ AddReply(cur[l])
         /\ acked' = acked \/ \E l \in Loop : at[l] = "ack" /\ acked' = acked \cup {cur[l]}
BY DEF ServerNext, LoopStep, Start, ReadGroup, ReadGroupFails, AutoClaim, StopServer,
       CancelLoops, CancelAgain, StopReturns, Crash, Dispatch, Reply, Ack, DispatchRaises,
       HandlerCancelled, ReplyFails, AckFails, CancelArrives, LoopExits, MaybeReplied,
       MaybeAcked, RemovePending

LEMMA ServedMonotone ==
  ASSUME [Next]_vars
  PROVE  served \subseteq served' /\ replied \subseteq replied'
<1>1. CASE ServerNext
  BY <1>1, HistoryStep DEF Dispatch, AddReply
<1>2. CASE ClientNext \/ RedisNext
  BY <1>2, ClientFrame, RedisFrame
<1>3. QED
  BY <1>1, <1>2 DEF Next, vars

\* A loop that is not the one that moves keeps what it knows.
LEMMA LoopKept ==
  ASSUME LoopInv, [Next]_vars, NEW k \in Loop,
         server'[k[1]] \in {"idle", "stopped"} =>
           server[k[1]] \in {"idle", "stopped"} \/ at[k] = "off",
         at'[k] = at[k], cur'[k] = cur[k]
  PROVE  LoopOK(k)'
BY ServedMonotone DEF LoopInv, LoopOK, Served

\* What Proceed leaves a loop with: the next entry, or none.
LEMMA ProceedLoop ==
  ASSUME LoopTypeOK, NEW l \in Loop, NEW S, Proceed(l, S)
  PROVE  /\ at'[l] \in {"poll", "dispatch", "ack"}
         /\ at'[l] = "dispatch" => cur'[l] \notin Junk
         /\ at'[l] = "ack" => cur'[l] \in Junk
         /\ \A k \in Loop \ {l} : at'[k] = at[k] /\ cur'[k] = cur[k] /\ todo'[k] = todo[k]
BY DEF Proceed, Abandon, MoveTo, LoopTypeOK

LEMMA LoopStepInv ==
  ASSUME TypeOK, LoopInv, [Next]_vars
  PROVE  LoopInv'
<1>0. LoopTypeOK /\ PastTypeOK
  BY TypeParts
<1> USE DEF LoopTypeOK
<1>1. CASE ClientNext \/ RedisNext \/ UNCHANGED vars
  <2>1. UNCHANGED <<server, at, cur>>
    BY <1>1, ClientFrame, RedisFrame DEF vars
  <2>2. QED
    BY <2>1, LoopKept DEF LoopInv
<1>2. CASE ServerNext
  <2> SUFFICES ASSUME NEW k \in Loop PROVE LoopOK(k)'
    BY DEF LoopInv
  <2>0. LoopOK(k) /\ k[1] \in Server
    BY DEF LoopInv, Loop
  <2> USE <1>0, <2>0
  <2>1. ASSUME NEW s \in Server, Start(s) PROVE LoopOK(k)'
    <3>1. CASE k[1] = s
      BY <2>1, <3>1 DEF Start, LoopOK
    <3>2. CASE k[1] # s
      BY <2>1, <3>2, LoopKept DEF Start
    <3>3. QED
      BY <3>1, <3>2
  <2>2. ASSUME NEW l \in Loop, NEW S, Proceed(l, S), server' = server,
               server[l[1]] \notin {"idle", "stopped"}
        PROVE  LoopOK(k)'
    <3>1. CASE k = l
      BY <2>2, <3>1, ProceedLoop DEF LoopOK, Served
    <3>2. CASE k # l
      BY <2>2, <3>2, ProceedLoop, LoopKept
    <3>3. QED
      BY <3>1, <3>2
  <2>3. ASSUME NEW s \in Server, ReadGroup(s) \/ AutoClaim(s) PROVE LoopOK(k)'
    <3>1. \E l \in Loop, S \in SUBSET (fresh \cup idle) : l[1] = s /\ Proceed(l, S)
      <4>1. /\ <<s, "consume">> \in Loop /\ <<s, "reclaim">> \in Loop
            /\ Batch \subseteq fresh /\ FirstOf(idle, ClaimMax) \subseteq idle
        BY FirstOfSubset DEF Loop, Batch
      <4>2. QED
        BY <2>3, <4>1 DEF ReadGroup, AutoClaim
    <3>2. server' = server /\ server[s] \in {"started", "draining"}
      BY <2>3 DEF ReadGroup, AutoClaim, Running
    <3>3. QED
      BY <2>2, <3>1, <3>2
  <2>4. ASSUME NEW s \in Server, \/ ReadGroupFails(s) \/ StopServer(s) \/ CancelLoops(s)
                                 \/ CancelAgain(s) \/ StopReturns(s)
        PROVE  LoopOK(k)'
    <3>1. at' = at /\ cur' = cur
      BY <2>4 DEF ReadGroupFails, StopServer, CancelLoops, CancelAgain, StopReturns
    <3>2. \/ server' = server
          \/ \E v \in {"draining", "cancelled", "expired"} : server' = [server EXCEPT ![s] = v]
          \/ server' = [server EXCEPT ![s] = "stopped"] /\ Unended(s) = {}
      BY <2>4 DEF ReadGroupFails, StopServer, CancelLoops, CancelAgain, StopReturns
    <3>3. server'[k[1]] \in {"idle", "stopped"} =>
            server[k[1]] \in {"idle", "stopped"} \/ at[k] = "off"
      BY <3>2 DEF Unended, LoopsOf
    <3>4. QED
      BY <3>1, <3>3, LoopKept
  <2>5. ASSUME NEW s \in Server, Crash(s) PROVE LoopOK(k)'
    <3>1. CASE k[1] = s
      BY <2>5, <3>1 DEF Crash, LoopOK
    <3>2. CASE k[1] # s
      BY <2>5, <3>2, LoopKept DEF Crash
    <3>3. QED
      BY <3>1, <3>2
  <2>6. ASSUME NEW l \in Loop, Dispatch(l) PROVE LoopOK(k)'
    <3>1. CASE k = l
      BY <2>6, <3>1 DEF Dispatch, LoopOK, Served, Msg
    <3>2. CASE k # l
      BY <2>6, <3>2, LoopKept DEF Dispatch
    <3>3. QED
      BY <3>1, <3>2
  <2>7. ASSUME NEW l \in Loop, Reply(l) PROVE LoopOK(k)'
    <3>1. CASE k = l
      BY <2>7, <3>1 DEF Reply, AddReply, LoopOK, Served
    <3>2. CASE k # l
      BY <2>7, <3>2, LoopKept DEF Reply
    <3>3. QED
      BY <3>1, <3>2
  <2>8. ASSUME NEW l \in Loop, Ack(l) PROVE LoopOK(k)'
    <3>1. server[l[1]] \notin {"idle", "stopped"}
      BY <2>8 DEF Ack, LoopInv, LoopOK
    <3>2. QED
      BY <2>2, <2>8, <3>1 DEF Ack
  <2>9. ASSUME NEW l \in Loop, \/ DispatchRaises(l) \/ ReplyFails(l) \/ AckFails(l)
                               \/ HandlerCancelled(l) \/ CancelArrives(l) \/ LoopExits(l)
        PROVE  LoopOK(k)'
    <3>1. /\ server' = server /\ at[l] # "off" 
          /\ \E w \in {"poll", "off"} : MoveTo(l, w, None, {})
      BY <2>9 DEF DispatchRaises, ReplyFails, AckFails, HandlerCancelled, CancelArrives,
                  LoopExits, Abandon
    <3>2. CASE k = l
      BY <3>1, <3>2 DEF MoveTo, LoopOK
    <3>3. CASE k # l
      <4>1. at'[k] = at[k] /\ cur'[k] = cur[k]
        BY <3>1, <3>3 DEF MoveTo
      <4>2. QED
        BY <3>1, <4>1, LoopKept
    <3>4. QED
      BY <3>2, <3>3
  <2>10. QED
    BY <1>2, <2>1, <2>3, <2>4, <2>5, <2>6, <2>7, <2>8, <2>9 DEF ServerNext, LoopStep
<1>3. QED
  BY <1>1, <1>2 DEF Next

LEMMA AckedStep ==
  ASSUME LoopInv, AckedOnlyWhenServed, [Next]_vars
  PROVE  AckedOnlyWhenServed'
<1>1. \A m \in acked : Served(m)
  BY DEF AckedOnlyWhenServed, Served
<1>2. \A m \in acked' : Served(m)
  <2>1. CASE ServerNext
    BY <1>1, <2>1, HistoryStep DEF LoopInv, LoopOK
  <2>2. CASE ClientNext \/ RedisNext \/ UNCHANGED vars
    BY <1>1, <2>2, ClientFrame, RedisFrame DEF vars
  <2>3. QED
    BY <2>1, <2>2 DEF Next
<1>3. QED
  BY <1>2, ServedMonotone DEF AckedOnlyWhenServed, Served

-----------------------------------------------------------------------------
(* Replies, futures and the dict.                                          *)

LEMMA UnreadStep ==
  ASSUME TypeOK, LoopInv, FutureInv, [Next]_vars
  PROVE  \A i \in 1..Len(replies') : replies'[i] \in served'
<1>0. replies \in Seq(Call) /\ served \subseteq served'
  BY ServedMonotone DEF TypeOK, RedisTypeOK
<1>1. CASE UNCHANGED replies
  BY <1>0, <1>1 DEF FutureInv
<1>2. ASSUME NEW l \in Loop, at[l] = "reply", AddReply(cur[l])
      PROVE  \A i \in 1..Len(replies') : replies'[i] \in served'
  <2>1. cur[l] \in Call /\ cur[l] \in served
    BY <1>2 DEF LoopInv, LoopOK
  <2>2. PICK k \in 0..Len(replies) :
          replies' = Append(SubSeq(replies, k + 1, Len(replies)), cur[l])
    BY <1>2 DEF AddReply
  <2> DEFINE rest == SubSeq(replies, k + 1, Len(replies))
  <2>3. rest \in Seq(Call) /\ \A i \in 1..Len(rest) : rest[i] = replies[k + i] /\ k + i \in 1..Len(replies)
    BY <1>0
  <2> HIDE DEF rest
  <2>4. \A i \in 1..Len(rest) : rest[i] \in served
    BY <2>3 DEF FutureInv
  <2>5. /\ Len(replies') = Len(rest) + 1
        /\ \A i \in 1..Len(rest) : replies'[i] = rest[i]
        /\ replies'[Len(rest) + 1] = cur[l]
    <3>1. rest \in Seq(Call) /\ replies' = Append(rest, cur[l])
      BY <2>2, <2>3 DEF rest
    <3>2. QED
      BY <2>1, <3>1
  <2>6. Len(rest) \in Nat
    BY <2>3
  <2>7. ASSUME NEW i \in 1..Len(replies') PROVE replies'[i] \in served
    <3>1. i \in 1..Len(rest) \/ i = Len(rest) + 1
      BY <2>5, <2>6, <2>7
    <3>2. QED
      BY <2>1, <2>4, <2>5, <3>1
  <2>8. QED
    BY <1>0, <2>7
<1>3. CASE ReplyLoop
  <2>1. PICK n \in 1..Len(replies) : replies' = SubSeq(replies, n + 1, Len(replies))
    BY <1>3 DEF ReplyLoop
  <2>2. \A i \in 1..Len(replies') : replies'[i] = replies[n + i] /\ n + i \in 1..Len(replies)
    BY <1>0, <2>1
  <2>3. QED
    BY <1>0, <2>2 DEF FutureInv
<1>4. CASE replies' = <<>>
  BY <1>4
<1>5. CASE ClientNext
  BY <1>1, <1>3, <1>4, <1>5
  DEF ClientNext, Send, Return, TimerFires, TimesOut, Notify, XaddDone, XaddFails, Cancel,
      Stop, StopRejects, StopDeletes
<1>6. CASE ServerNext
  BY <1>1, <1>2, <1>6, HistoryStep
<1>7. QED
  BY <1>1, <1>5, <1>6, RedisFrame DEF Next, vars

FutureOK(c) ==
  /\ future[c] = "answered" => c \in served
  /\ c \in pending => future[c] \in {"open", "cancelled"} /\ status[c] \in {"waiting", "cancelled"}
  /\ status[c] = "waiting" /\ future[c] = "open" => c \in pending

LEMMA FutureStep ==
  ASSUME TypeOK, FutureInv, DictHasTheWaiting, [Next]_vars, NEW c \in Call
  PROVE  FutureOK(c)'
<1>0. CallerTypeOK /\ FutureOK(c) /\ served \subseteq served'
  BY TypeParts, ServedMonotone DEF FutureInv, DictHasTheWaiting, FutureOK
<1> USE <1>0 DEF CallerTypeOK, FutureOK
<1>1. ASSUME NEW S \in SUBSET (Call \cup Note), Interrupted(S), UNCHANGED pending,
             \A m \in S : status[m] = "waiting"
      PROVE  FutureOK(c)'
  BY <1>1 DEF Interrupted, Ends
<1>2. CASE UNCHANGED <<pending, future, status>>
  BY <1>2
<1>3. CASE ClientNext
  <2>1. ASSUME NEW d \in Call, Send(d) PROVE FutureOK(c)'
    BY <2>1 DEF Send
  <2>2. ASSUME NEW n \in Note, Notify(n) PROVE FutureOK(c)'
    BY <2>2, PyAssumption DEF Notify
  <2>3. ASSUME NEW m \in Call \cup Note, XaddDone(m) PROVE FutureOK(c)'
    BY <2>3, PyAssumption DEF XaddDone
  <2>4. ASSUME NEW m \in Call \cup Note, XaddFails(m) PROVE FutureOK(c)'
    BY <2>4 DEF XaddFails, Ends
  <2>5. ASSUME NEW m \in Call \cup Note, Cancel(m) PROVE FutureOK(c)'
    BY <1>1, <2>5 DEF Cancel
  <2>6. ASSUME NEW d \in Call, Return(d) PROVE FutureOK(c)'
    BY <2>6 DEF Return, Ends
  <2>7. ASSUME NEW d \in Call, TimesOut(d) PROVE FutureOK(c)'
    BY <2>7 DEF TimesOut, Ends
  <2>8. ASSUME NEW d \in Call, TimerFires(d) PROVE FutureOK(c)'
    BY <2>8 DEF TimerFires
  <2>9. CASE ReplyLoop
    <3>1. PICK n \in 1..Len(replies) :
            LET S == {d \in pending : \E i \in 1..n : replies[i] = d} IN
            /\ pending' = pending \ S
            /\ future' = [d \in Call |-> IF d \in S /\ future[d] = "open" THEN "answered"
                                                                         ELSE future[d]]
      BY <2>9 DEF ReplyLoop
    <3> DEFINE S == {d \in pending : \E i \in 1..n : replies[i] = d}
    <3>2. \A d \in S : d \in served
      BY DEF FutureInv
    <3>3. status' = status /\ pending' = pending \ S
          /\ future'[c] = IF c \in S /\ future[c] = "open" THEN "answered" ELSE future[c]
      BY <2>9, <3>1 DEF ReplyLoop
    <3> HIDE DEF S
    <3>4. QED
      BY <3>2, <3>3
  <2>10. CASE StopRejects
    BY <2>10 DEF StopRejects
  <2>11. CASE Stop \/ StopDeletes
    BY <1>2, <2>11 DEF Stop, StopDeletes
  <2>12. QED
    BY <1>3, <2>1, <2>2, <2>3, <2>4, <2>5, <2>6, <2>7, <2>8, <2>9, <2>10, <2>11 DEF ClientNext
<1>4. CASE ServerNext
  BY <1>1, <1>2, <1>4, ServerFrame DEF CancelledTasks
<1>5. CASE RedisNext \/ UNCHANGED vars
  BY <1>2, <1>5, RedisFrame DEF vars
<1>6. QED
  BY <1>3, <1>4, <1>5 DEF Next

LEMMA PromiseStep ==
  ASSUME TypeOK, TypeOK', LoopInv, FutureInv, DictHasTheWaiting, [Next]_vars
  PROVE  FutureInv' /\ DictHasTheWaiting'
<1>1. pending' \subseteq Call
  BY TypeParts DEF CallerTypeOK
<1>2. QED
  BY <1>1, UnreadStep, FutureStep DEF FutureOK, FutureInv, DictHasTheWaiting

-----------------------------------------------------------------------------
(* Where an entry can be.                                                  *)

OnlyTakes(l, S) ==
  /\ Held(l)' \subseteq S
  /\ \A k \in Loop \ {l} : Held(k)' \subseteq Held(k)

TakesFrom(S) ==
  /\ \E l \in Loop : OnlyTakes(l, S)
  /\ stream' = stream /\ fresh' \subseteq fresh

\* What a server does to the entries in its loops' hands: either no loop gets a new
\* one, or one loop takes undelivered entries, or one loop takes idle entries.
LEMMA HeldStep ==
  ASSUME TypeOK, ServerNext
  PROVE  \/ \A k \in Loop : Held(k)' \subseteq Held(k)
         \/ TakesFrom(fresh \ fresh')
         \/ TakesFrom(idle \ idle')
<1>0. LoopTypeOK /\ \A s \in Server : <<s, "consume">> \in Loop /\ <<s, "reclaim">> \in Loop
  BY TypeParts DEF Loop
<1> USE <1>0 DEF LoopTypeOK
<1> DEFINE Keeps == \A k \in Loop : Held(k)' \subseteq Held(k)
<1>1. ASSUME NEW s \in Server, \/ Start(s) \/ StopServer(s) \/ CancelLoops(s) \/ CancelAgain(s)
                               \/ StopReturns(s) \/ ReadGroupFails(s) \/ Crash(s)
      PROVE  Keeps
  BY <1>1 DEF Start, StopServer, CancelLoops, CancelAgain, StopReturns, ReadGroupFails,
              Crash, Held
<1>2. ASSUME NEW l \in Loop, NEW S, Proceed(l, S)
      PROVE  OnlyTakes(l, S)
  BY <1>2 DEF Proceed, Abandon, MoveTo, IsFirst, Held, OnlyTakes
<1>3. ASSUME NEW s \in Server, ReadGroup(s) PROVE TakesFrom(fresh \ fresh')
  <2>1. Batch \subseteq fresh \ fresh'
    BY <1>3, FirstOfSubset DEF ReadGroup, Deliver, Batch
  <2>2. OnlyTakes(<<s, "consume">>, Batch) /\ stream' = stream /\ fresh' \subseteq fresh
    BY <1>2, <1>3 DEF ReadGroup, Deliver
  <2>3. QED
    BY <2>1, <2>2 DEF OnlyTakes, TakesFrom
<1>4. ASSUME NEW s \in Server, AutoClaim(s) PROVE TakesFrom(idle \ idle')
  <2> DEFINE batch == FirstOf(idle, ClaimMax)
  <2>1. batch \subseteq idle \ idle'
    BY <1>4, FirstOfSubset DEF AutoClaim
  <2>2. OnlyTakes(<<s, "reclaim">>, batch) /\ stream' = stream /\ fresh' \subseteq fresh
    BY <1>2, <1>4 DEF AutoClaim
  <2> HIDE DEF batch
  <2>3. QED
    BY <2>1, <2>2 DEF OnlyTakes, TakesFrom
<1>5. ASSUME NEW l \in Loop, Dispatch(l) \/ Reply(l) PROVE Keeps
  BY <1>5 DEF Dispatch, Reply, Held
<1>6. ASSUME NEW l \in Loop, \/ DispatchRaises(l) \/ ReplyFails(l) \/ AckFails(l)
                             \/ HandlerCancelled(l) \/ CancelArrives(l) \/ LoopExits(l)
      PROVE  Keeps
  <2>1. \E w \in {"poll", "off"} : MoveTo(l, w, None, {})
    BY <1>6 DEF DispatchRaises, ReplyFails, AckFails, HandlerCancelled, CancelArrives,
                LoopExits, Abandon
  <2>2. QED
    BY <2>1 DEF MoveTo, Held
<1>7. ASSUME NEW l \in Loop, Ack(l) PROVE Keeps
  <2>1. OnlyTakes(l, todo[l])
    BY <1>2, <1>7 DEF Ack
  <2>2. QED
    BY <2>1 DEF OnlyTakes, Held
<1>8. QED
  BY <1>1, <1>3, <1>4, <1>5, <1>6, <1>7 DEF ServerNext, LoopStep

\* A step adds at most one entry to the stream, of an XADD that ends with it; only
\* that one is new to the group.
LEMMA StreamStep ==
  ASSUME TypeOK, EntryInv, [Next]_vars
  PROVE  /\ \A x : InStream(x) => InStream(x)'
         /\ \A x \in fresh' : x \in fresh \/ (~InStream(x) /\ InStream(x)')
         /\ \A x \in Call \cup Note : InStream(x)' =>
              InStream(x) \/ (awaits[x] = "xadd" /\ awaits'[x] # "xadd")
<1>0. RedisTypeOK /\ CallerTypeOK
  BY TypeParts
<1>1. ASSUME NEW m \in Msg, AddCommand(m), ~InStream(m),
             m \in Call \cup Note => awaits[m] = "xadd" /\ awaits'[m] # "xadd"
      PROVE  /\ \A x : InStream(x) => InStream(x)'
             /\ \A x \in fresh' : x \in fresh \/ (~InStream(x) /\ InStream(x)')
             /\ \A x \in Call \cup Note : InStream(x)' =>
                  InStream(x) \/ (awaits[x] = "xadd" /\ awaits'[x] # "xadd")
  <2>1. \A x : InStream(x)' <=> InStream(x) \/ x = m
    BY <1>0, <1>1, AddCommandInStream
  <2>2. fresh' \subseteq fresh \cup {m}
    BY <1>1 DEF AddCommand
  <2>3. QED
    BY <1>1, <2>1, <2>2
<1>2. CASE stream' = stream /\ fresh' \subseteq fresh
  BY <1>2 DEF InStream
<1>3. ASSUME NEW m \in Call \cup Note, awaits[m] = "xadd", awaits'[m] # "xadd", AddCommand(m)
      PROVE  /\ \A x : InStream(x) => InStream(x)'
             /\ \A x \in fresh' : x \in fresh \/ (~InStream(x) /\ InStream(x)')
             /\ \A x \in Call \cup Note : InStream(x)' =>
                  InStream(x) \/ (awaits[x] = "xadd" /\ awaits'[x] # "xadd")
  BY <1>1, <1>3 DEF EntryInv, Msg
<1>4. CASE ClientNext
  <2>1. \/ UNCHANGED <<stream, fresh>>
        \/ \E m \in Call \cup Note : /\ awaits[m] = "xadd" /\ AddCommand(m)
                                     /\ XaddDone(m) \/ XaddFails(m) \/ Cancel(m)
    BY <1>4
    DEF ClientNext, Send, Return, TimerFires, TimesOut, Notify, XaddDone, XaddFails, Cancel,
        MaybeAdded, ReplyLoop, Stop, StopRejects, StopDeletes
  <2>2. ASSUME NEW m \in Call \cup Note, XaddDone(m) \/ XaddFails(m) \/ Cancel(m)
        PROVE  awaits'[m] # "xadd"
    BY <1>0, <2>2 DEF XaddDone, XaddFails, Cancel, Interrupted, Ends, CallerTypeOK
  <2>3. CASE \E m \in Call \cup Note : /\ awaits[m] = "xadd" /\ AddCommand(m)
                                       /\ XaddDone(m) \/ XaddFails(m) \/ Cancel(m)
    BY <1>3, <2>2, <2>3
  <2>4. QED
    BY <1>2, <2>1, <2>3
<1>5. CASE ServerNext
  <2>1. ASSUME NEW S \in SUBSET Call, CancelledTasks(S), ~UNCHANGED <<stream, fresh>>
        PROVE  \E m \in Call \cup Note : awaits[m] = "xadd" /\ awaits'[m] # "xadd" /\ AddCommand(m)
    BY <1>0, <2>1 DEF CancelledTasks, Interrupted, Ends, CallerTypeOK
  <2>2. CASE \E m \in Call \cup Note : awaits[m] = "xadd" /\ awaits'[m] # "xadd" /\ AddCommand(m)
    BY <1>3, <2>2
  <2>3. QED
    BY <1>2, <1>5, <2>1, <2>2, GroupStep
<1>6. ASSUME NEW j \in Junk, ForeignAdd(j)
      PROVE  /\ \A x : InStream(x) => InStream(x)'
             /\ \A x \in fresh' : x \in fresh \/ (~InStream(x) /\ InStream(x)')
             /\ \A x \in Call \cup Note : InStream(x)' =>
                  InStream(x) \/ (awaits[x] = "xadd" /\ awaits'[x] # "xadd")
  BY <1>1, <1>6, PyAssumption DEF ForeignAdd, Msg
<1>7. ASSUME NEW m \in Msg, OrphanTurnsIdle(m) \/ HeldTurnsIdle(m)
      PROVE  stream' = stream /\ fresh' \subseteq fresh
  BY <1>7 DEF OrphanTurnsIdle, HeldTurnsIdle
<1>8. CASE UNCHANGED vars
  BY <1>2, <1>8 DEF vars
<1>9. CASE RedisNext
  <2>1. CASE \E j \in Junk : ForeignAdd(j)
    BY <1>6, <2>1
  <2>2. CASE ~ \E j \in Junk : ForeignAdd(j)
    BY <1>2, <1>7, <1>9, <2>2 DEF RedisNext
  <2>3. QED
    BY <2>1, <2>2
<1>10. QED
  BY <1>4, <1>5, <1>8, <1>9 DEF Next

\* A caller starts its XADD with an envelope that is new, and is never unsent again.
LEMMA CallerStep ==
  ASSUME TypeOK, [Next]_vars, NEW m \in Call \cup Note
  PROVE  /\ status[m] # "unsent" => status'[m] # "unsent"
         /\ awaits'[m] = "xadd" => awaits[m] = "xadd" \/ status[m] = "unsent"
<1>0. CallerTypeOK
  BY TypeParts
<1> USE <1>0 DEF CallerTypeOK
<1>1. ASSUME NEW S \in SUBSET (Call \cup Note), NEW o \in {"failed", "timeout", "answered", "stopped",
                                                         "cancelled"},
             Ends(S, o)
      PROVE  /\ status[m] # "unsent" => status'[m] # "unsent"
             /\ awaits'[m] = "xadd" => awaits[m] = "xadd" \/ status[m] = "unsent"
  BY <1>1 DEF Ends
<1>2. CASE ClientNext
  <2>1. ASSUME NEW x \in Call \cup Note, Send(x) \/ Notify(x) \/ XaddDone(x)
        PROVE  /\ status[m] # "unsent" => status'[m] # "unsent"
               /\ awaits'[m] = "xadd" => awaits[m] = "xadd" \/ status[m] = "unsent"
    BY <2>1 DEF Send, Notify, XaddDone, Issuable
  <2>2. ASSUME NEW x \in Call \cup Note, XaddFails(x) \/ Cancel(x)
        PROVE  Ends({x}, "failed") \/ Ends({x}, "cancelled")
    BY <2>2 DEF XaddFails, Cancel, Interrupted
  <2>3. ASSUME NEW x \in Call, Return(x) \/ TimesOut(x)
        PROVE  \E o \in {"timeout", "answered", "stopped"} : Ends({x}, o)
    BY <2>3 DEF Return, TimesOut
  <2>4. ASSUME NEW x \in Call, TimerFires(x)
        PROVE  status'[m] = status[m] /\ (awaits'[m] = "xadd" => awaits[m] = "xadd")
    BY <2>4 DEF TimerFires
  <2>5. CASE ReplyLoop \/ Stop \/ StopRejects \/ StopDeletes
    BY <2>5 DEF ReplyLoop, Stop, StopRejects, StopDeletes
  <2>6. ASSUME NEW x \in Call \cup Note, NEW o \in {"failed", "timeout", "answered", "stopped",
                                                  "cancelled"},
               Ends({x}, o)
        PROVE  /\ status[m] # "unsent" => status'[m] # "unsent"
               /\ awaits'[m] = "xadd" => awaits[m] = "xadd" \/ status[m] = "unsent"
    BY <1>1, <2>6
  <2>7. CASE \E x \in Call \cup Note : XaddFails(x) \/ Cancel(x)
    BY <2>2, <2>6, <2>7
  <2>8. CASE \E x \in Call : Return(x) \/ TimesOut(x)
    BY <2>3, <2>6, <2>8
  <2>9. QED
    BY <1>2, <2>1, <2>4, <2>5, <2>7, <2>8 DEF ClientNext
<1>3. CASE ServerNext
  BY <1>1, <1>3, ServerFrame DEF CancelledTasks, Interrupted
<1>4. CASE RedisNext \/ UNCHANGED vars
  BY <1>4, RedisFrame DEF vars
<1>5. QED
  BY <1>2, <1>3, <1>4 DEF Next

LEMMA EntryStep ==
  ASSUME TypeOK, EntryInv, [Next]_vars
  PROVE  EntryInv'
<1>1. \A m \in Call \cup Note : awaits'[m] = "xadd" => ~InStream(m)'
  BY StreamStep, CallerStep DEF EntryInv
<1>2. \A m \in Call \cup Note : InStream(m)' => status'[m] # "unsent"
  <2>1. CallerTypeOK
    BY TypeParts
  <2>2. \A m \in Call \cup Note : awaits[m] = "xadd" => status[m] # "unsent"
    BY <2>1 DEF CallerTypeOK
  <2>3. QED
    BY <2>2, StreamStep, CallerStep DEF EntryInv
<1>3. \A m \in (fresh \cup pel)' : InStream(m)'
  <2>1. \A m \in pel' : m \in pel \cup fresh
    BY ClientFrame, RedisFrame, GroupStep DEF Next, vars
  <2>2. QED
    BY <2>1, StreamStep DEF EntryInv
<1>4. \A l \in Loop : \A m \in Held(l)' : InStream(m)'
  <2>1. CASE ServerNext
    <3>1. \A l \in Loop : Held(l)' \subseteq Held(l) \cup fresh \cup idle
      BY <2>1, HeldStep DEF TakesFrom, OnlyTakes
    <3>2. idle \subseteq pel
      BY TypeParts DEF RedisTypeOK
    <3>3. QED
      BY <3>1, <3>2, StreamStep DEF EntryInv
  <2>2. CASE ClientNext \/ RedisNext \/ UNCHANGED vars
    <3>1. \A l \in Loop : Held(l)' = Held(l)
      BY <2>2, ClientFrame, RedisFrame DEF Held, vars
    <3>2. QED
      BY <3>1, StreamStep DEF EntryInv
  <2>3. QED
    BY <2>1, <2>2 DEF Next
<1>5. QED
  BY <1>1, <1>2, <1>3, <1>4 DEF EntryInv

-----------------------------------------------------------------------------
(* No entry is in two hands.                                               *)

LEMMA ExclusiveStep ==
  ASSUME TypeOK, EntryInv, ExclusiveInv, [Next]_vars
  PROVE  ExclusiveInv'
<1>0. idle \subseteq pel /\ slow \in Nat
  BY TypeParts, PyAssumption DEF RedisTypeOK, PastTypeOK
<1>1. \A x \in fresh' : x \in fresh \/ ~InStream(x)
  BY StreamStep
<1>2. ASSUME UNCHANGED <<pel, idle, todo, cur, slow>> PROVE ExclusiveInv'
  <2>1. \A l \in Loop : Held(l)' = Held(l)
    BY <1>2 DEF Held
  <2>2. fresh' \cap pel = {} /\ \A l \in Loop : Held(l) \cap fresh' = {}
    BY <1>1 DEF EntryInv, ExclusiveInv
  <2>3. QED
    BY <1>2, <2>1, <2>2 DEF ExclusiveInv, HeldOnce
<1>3. CASE ServerNext
  <2>1. idle' \subseteq idle /\ slow' = slow /\ fresh' \cap pel' = {}
    <3>1. pel' \subseteq pel \cup (fresh \ fresh') /\ idle' \subseteq idle /\ slow' = slow
      BY <1>3, GroupStep, ServerFrame
    <3>2. QED
      BY <1>1, <3>1 DEF ExclusiveInv, EntryInv
  <2>2. fresh \cap idle = {}
    BY <1>0 DEF ExclusiveInv
  <2>3. CASE \A k \in Loop : Held(k)' \subseteq Held(k)
    <3>1. \A l \in Loop : Held(l)' \cap fresh' = {}
      BY <1>1, <2>3 DEF ExclusiveInv, EntryInv
    <3>2. QED
      BY <2>1, <2>3, <3>1 DEF ExclusiveInv, HeldOnce
  <2>4. CASE TakesFrom(fresh \ fresh')
    <3>1. PICK l \in Loop : /\ Held(l)' \subseteq fresh \ fresh'
                            /\ \A k \in Loop \ {l} : Held(k)' \subseteq Held(k)
      BY <2>4 DEF TakesFrom, OnlyTakes
    <3>2. fresh' \subseteq fresh
      BY <2>4 DEF TakesFrom
    <3>3. QED
      BY <2>1, <2>2, <3>1, <3>2 DEF ExclusiveInv, HeldOnce
  <2>5. CASE TakesFrom(idle \ idle')
    <3>1. PICK l \in Loop : /\ Held(l)' \subseteq idle \ idle'
                            /\ \A k \in Loop \ {l} : Held(k)' \subseteq Held(k)
      BY <2>5 DEF TakesFrom, OnlyTakes
    <3>2. fresh' \subseteq fresh
      BY <2>5 DEF TakesFrom
    <3>3. QED
      BY <2>1, <2>2, <3>1, <3>2 DEF ExclusiveInv, HeldOnce
  <2>6. QED
    BY <1>3, <2>3, <2>4, <2>5, HeldStep
<1>4. CASE ClientNext
  BY <1>2, <1>4, ClientFrame
<1>5. ASSUME NEW j \in Junk, ForeignAdd(j) PROVE ExclusiveInv'
  BY <1>2, <1>5 DEF ForeignAdd
<1>6. ASSUME NEW m \in Msg, OrphanTurnsIdle(m) PROVE ExclusiveInv'
  <2>1. \A l \in Loop : Held(l)' = Held(l) /\ m \notin Held(l)
    BY <1>6 DEF OrphanTurnsIdle, Orphaned, Held
  <2>2. QED
    BY <1>6, <2>1 DEF OrphanTurnsIdle, ExclusiveInv, HeldOnce
<1>7. ASSUME NEW m \in Msg, HeldTurnsIdle(m) PROVE ExclusiveInv'
  <2>1. \A l \in Loop : Held(l)' = Held(l)
    BY <1>7 DEF HeldTurnsIdle, Held
  <2>2. slow' # 0
    BY <1>0, <1>7 DEF HeldTurnsIdle
  <2>3. QED
    BY <1>7, <2>1, <2>2 DEF HeldTurnsIdle, ExclusiveInv, HeldOnce
<1>8. CASE UNCHANGED vars
  BY <1>2, <1>8 DEF vars
<1>9. QED
  BY <1>3, <1>4, <1>5, <1>6, <1>7, <1>8 DEF Next, RedisNext

-----------------------------------------------------------------------------
(* The theorems.                                                           *)

LEMMA InitInv == Init => IInv
<1> SUFFICES ASSUME Init PROVE IInv
  OBVIOUS
<1>1. TypeOK
  BY InitType
<1>2. LoopInv /\ AckedOnlyWhenServed
  BY DEF Init, LoopInv, LoopOK, AckedOnlyWhenServed
<1>3. FutureInv /\ DictHasTheWaiting
  BY DEF Init, FutureInv, DictHasTheWaiting
<1>4. \A l \in Loop : Held(l) = {}
  BY DEF Init, Held
<1>5. EntryInv
  BY <1>4 DEF Init, EntryInv, InStream
<1>6. ExclusiveInv
  BY <1>4 DEF Init, ExclusiveInv, HeldOnce
<1>7. QED
  BY <1>1, <1>2, <1>3, <1>5, <1>6 DEF IInv

LEMMA InvStep == IInv /\ [Next]_vars => IInv'
<1> SUFFICES ASSUME IInv, [Next]_vars PROVE IInv'
  OBVIOUS
<1>1. TypeOK'
  BY TypeStep DEF IInv
<1>2. QED
  BY <1>1, LoopStepInv, AckedStep, PromiseStep, EntryStep, ExclusiveStep DEF IInv

\* The strengthening of the safety properties is invariant.
THEOREM Invariance == Spec => []IInv
BY InitInv, InvStep, PTL DEF Spec

\* Every variable of the Python transports keeps its type.
THEOREM TypeCorrect == Spec => []TypeOK
BY Invariance, PTL DEF IInv

\* _handle_entry acknowledges an entry only when its dispatch has returned and its
\* reply is on the stream, whatever task is cancelled and at which await.
THEOREM AtLeastOnce == Spec => []AckedOnlyWhenServed
BY Invariance, PTL DEF IInv

\* A caller whose future is open is in the _pending dict, and what is in the dict
\* without a caller that waits belongs to one that was cancelled.
THEOREM DictIsComplete == Spec => []DictHasTheWaiting
BY Invariance, PTL DEF IInv

\* No two loops hold one entry unless it turned idle in a loop's hands, whatever
\* is cancelled, restarted or dies.
THEOREM Exclusive == Spec => []HeldOnce
<1>1. IInv => HeldOnce
  BY DEF IInv, ExclusiveInv
<1>2. QED
  BY <1>1, Invariance, PTL

-----------------------------------------------------------------------------
(* The Python transports implement RpcContract.                            *)

\* Callers that stop waiting with anything but an answer give up.
LEMMA EndsGivesUp ==
  ASSUME CallerTypeOK, NEW S \in SUBSET (Call \cup Note), NEW o \in Contract!Outcome, Ends(S, o),
         \A m \in S : awaits[m] # "none", UNCHANGED served
  PROVE  Contract!Next
<1>1. Contract!Become(S, o)
  BY DEF Ends, CallerTypeOK, Contract!Become
<1>2. S \in SUBSET Contract!Waiting(Call \cup Note)
  BY DEF CallerTypeOK, Contract!Waiting
<1>3. Contract!GiveUp
  BY <1>1, <1>2 DEF Contract!GiveUp
<1>4. QED
  BY <1>3 DEF Contract!Next

\* A client step is one of the contract's, or is invisible.
LEMMA ClientImplements ==
  ASSUME IInv, ClientNext
  PROVE  Contract!Next \/ UNCHANGED <<status, served>>
<1>0. CallerTypeOK /\ UNCHANGED served
  BY TypeParts, ClientFrame DEF IInv
<1>1. ASSUME NEW m \in Call \cup Note, Send(m) \/ Notify(m) PROVE Contract!Next
  <2>1. Contract!Issue(m)
    BY <1>0, <1>1
    DEF Send, Notify, Issuable, CallerTypeOK, Contract!Issue, Contract!Become
  <2>2. QED
    BY <2>1 DEF Contract!Next
<1>2. ASSUME NEW m \in Call \cup Note, XaddDone(m)
      PROVE  Contract!Next \/ UNCHANGED <<status, served>>
  <2>1. CASE m \in Note
    <3>1. Contract!Confirm(m)
      BY <1>0, <1>2, <2>1
      DEF XaddDone, CallerTypeOK, Contract!Confirm, Contract!Become, Contract!Waiting
    <3>2. QED
      BY <2>1, <3>1 DEF Contract!Next
  <2>2. CASE m \notin Note
    BY <1>0, <1>2, <2>2 DEF XaddDone
  <2>3. QED
    BY <2>1, <2>2
<1>3. ASSUME NEW m \in Call \cup Note, XaddFails(m) \/ Cancel(m) PROVE Contract!Next
  <2>1. PICK o \in {"failed", "cancelled"} : Ends({m}, o) /\ awaits[m] # "none"
    BY <1>3 DEF XaddFails, Cancel, Interrupted
  <2>2. QED
    BY <1>0, <2>1, EndsGivesUp DEF Contract!Outcome
<1>4. ASSUME NEW c \in Call, Return(c) PROVE Contract!Next
  <2>1. CASE future[c] = "answered"
    <3>1. Contract!Become({c}, "answered") /\ {c} \in SUBSET (Contract!Waiting(Call) \cap served)
      BY <1>0, <1>4, <2>1
      DEF Return, Ends, CallerTypeOK, IInv, FutureInv, Contract!Become, Contract!Waiting
    <3>2. Contract!Answer
      BY <1>0, <3>1 DEF Contract!Answer
    <3>3. QED
      BY <3>2 DEF Contract!Next
  <2>2. CASE future[c] = "stopped"
    <3>1. Ends({c}, "stopped") /\ awaits[c] # "none"
      BY <1>4, <2>2 DEF Return
    <3>2. QED
      BY <1>0, <3>1, EndsGivesUp DEF Contract!Outcome
  <2>3. QED
    BY <1>4, <2>1, <2>2 DEF Return
<1>5. ASSUME NEW c \in Call, TimesOut(c) PROVE Contract!Next
  <2>1. Ends({c}, "timeout") /\ awaits[c] # "none"
    BY <1>5 DEF TimesOut
  <2>2. QED
    BY <1>0, <2>1, EndsGivesUp DEF Contract!Outcome
<1>6. CASE (\E c \in Call : TimerFires(c)) \/ ReplyLoop \/ Stop \/ StopRejects \/ StopDeletes
  BY <1>0, <1>6 DEF TimerFires, ReplyLoop, Stop, StopRejects, StopDeletes
<1>7. QED
  BY <1>1, <1>2, <1>3, <1>4, <1>5, <1>6 DEF ClientNext

\* A server step is a dispatch, which serves one issued message, or cancels the
\* calls of the handlers that end, or is invisible.
LEMMA ServerImplements ==
  ASSUME IInv, ServerNext
  PROVE  Contract!Next \/ UNCHANGED <<status, served>>
<1>0. CallerTypeOK /\ LoopTypeOK
  BY TypeParts DEF IInv
<1>1. ASSUME NEW l \in Loop, Dispatch(l) PROVE Contract!Next
  <2>1. cur[l] \in Call \cup Note /\ cur[l] \in Held(l)
    BY <1>0, <1>1 DEF Dispatch, IInv, LoopInv, LoopOK, LoopTypeOK, Msg, Held
  <2>2. PICK m \in Call \cup Note : m = cur[l]
    BY <2>1
  <2>3. status[m] # "unsent"
    BY <2>1, <2>2 DEF IInv, EntryInv
  <2>4. Contract!Serve(m)
    BY <1>1, <2>2, <2>3 DEF Dispatch, Contract!Serve
  <2>5. QED
    BY <2>4 DEF Contract!Next
<1>2. ASSUME NEW S \in SUBSET Call, CancelledTasks(S), UNCHANGED served PROVE Contract!Next
  <2>1. Ends(S, "cancelled") /\ \A m \in S : awaits[m] # "none"
    BY <1>0, <1>2 DEF CancelledTasks, Interrupted, CallerTypeOK
  <2>2. QED
    BY <1>0, <1>2, <2>1, EndsGivesUp DEF Contract!Outcome
<1>3. CASE served' = served
  BY <1>2, <1>3, ServerFrame
<1>4. QED
  BY <1>1, <1>3, HistoryStep

\* The Python transports and Redis implement RpcContract, under cancellation at
\* every await: a call is issued once, settles once, and is answered only when a
\* handler ran for it.
THEOREM Refinement == Spec => ImplementsContract
<1>1. Init => Contract!Init
  BY DEF Init, Contract!Init
<1>2. IInv /\ [Next]_vars => [Contract!Next]_(Contract!vars)
  <2> SUFFICES ASSUME IInv, [Next]_vars PROVE Contract!Next \/ UNCHANGED <<status, served>>
    BY DEF Contract!vars
  <2>1. CASE RedisNext \/ UNCHANGED vars
    BY <2>1, RedisFrame DEF vars
  <2>2. QED
    BY <2>1, ClientImplements, ServerImplements DEF Next
<1>3. QED
  BY <1>1, <1>2, Invariance, PTL DEF Spec, ImplementsContract, Contract!Spec

\* From the contract: a call has one outcome, although replies come late and timers,
\* cancellations and stop() race them.
THEOREM SettlesOnce == Spec => Contract!SettledOnce
<1>1. [Contract!Next]_(Contract!vars)
        => [\A m \in Call \cup Note : status[m] \notin {"unsent", "waiting"}
                                        => status'[m] = status[m]]_(Contract!vars)
  BY DEF Contract!Next, Contract!Issue, Contract!Serve, Contract!Answer, Contract!Confirm,
         Contract!GiveUp, Contract!Refuse, Contract!Become, Contract!Waiting
<1>2. QED
  BY <1>1, Refinement, PTL DEF ImplementsContract, Contract!Spec, Contract!SettledOnce

\* And a caller is answered only when a handler has completed for this very call.
THEOREM AnswersAreGenuine == Spec => []Contract!AnsweredWasServed
<1> USE DEF Contract!AnsweredWasServed
<1>1. Contract!Init => Contract!AnsweredWasServed
  BY DEF Contract!Init
<1>2. Contract!AnsweredWasServed /\ [Contract!Next]_(Contract!vars) => Contract!AnsweredWasServed'
  <2> SUFFICES ASSUME Contract!AnsweredWasServed, Contract!Next
               PROVE  Contract!AnsweredWasServed'
    BY DEF Contract!vars
  <2>1. Call \cap Note = {}
    BY PyAssumption
  <2>2. QED
    BY <2>1 DEF Contract!Next, Contract!Issue, Contract!Serve, Contract!Answer,
                Contract!Confirm, Contract!GiveUp, Contract!Refuse, Contract!Become, Contract!Waiting,
                Contract!Outcome
<1>3. QED
  BY <1>1, <1>2, Refinement, PTL DEF ImplementsContract, Contract!Spec

-----------------------------------------------------------------------------
(* The bound on runs: a handler runs once per message and once more per    *)
(* failure, slow entry or stop. As in RedisRunsProofs every message has an *)
(* account; here a run is charged when the handler starts, since it may be *)
(* cancelled, and a server that stops holds a credit for the one entry     *)
(* that the end of its loops may give back although its handler ran.       *)

\* The loops that have m in their batch and have not come to it.
Owing(m) == {l \in Loop : m \in todo[l]}

\* m is still to be added, or can be handed out by XREADGROUP, or by XAUTOCLAIM now
\* or once it is old enough.
Available(m) ==
  \/ ~InStream(m)
  \/ m \in fresh \cup idle
  \/ m \in pel /\ Orphaned(m)

\* The stopping servers that may yet give m back.
Stopping(m) ==
  {s \in Server : \/ server[s] = "draining"
                  \/ /\ server[s] \in {"cancelled", "expired"}
                     /\ \E l \in LoopsOf(s) : m \in Held(l)}

Owed(m) == Cardinality(Owing(m))
Avail(m) == IF Available(m) THEN 1 ELSE 0
Credit(m) == Cardinality(Stopping(m))
Paid == faults + (slow + stops)

Account(m) ==
  /\ IsFiniteSet(Owing(m)) /\ IsFiniteSet(Stopping(m))
  /\ runs[m] + (Owed(m) + (Avail(m) + Credit(m))) <= 1 + Paid

\* A batch never repeats the entry a loop is at, and is empty between two batches;
\* only the loops of a stopping server are cancelled.
HandsInv ==
  /\ \A l \in Loop : cur[l] \notin todo[l] /\ (at[l] \in {"off", "poll"} => todo[l] = {})
  /\ \A l \in doomed : server[l[1]] \in {"cancelled", "expired"}

RunsInv == HandsInv /\ \A m \in Msg : Account(m)

-----------------------------------------------------------------------------
(* The ways an account can change.                                         *)

LEMMA AccountType ==
  ASSUME TypeOK, TypeOK', NEW m \in Msg
  PROVE  /\ runs[m] \in Nat /\ Paid \in Nat /\ Avail(m) \in {0, 1}
         /\ Paid' \in Nat /\ Avail(m)' \in {0, 1}
         /\ faults \in Nat /\ slow \in Nat /\ stops \in Nat
<1>1. runs[m] \in Nat /\ faults \in Nat /\ slow \in Nat /\ stops \in Nat
  BY PyAssumption DEF TypeOK
<1>2. faults' \in Nat /\ slow' \in Nat /\ stops' \in Nat
  BY PyAssumption DEF TypeOK
<1>3. Avail(m) \in {0, 1} /\ Avail(m)' \in {0, 1}
  BY DEF Avail
<1>4. Paid \in Nat /\ Paid' \in Nat
  <2>1. \A x, y, z \in Nat : x + (y + z) \in Nat
    OBVIOUS
  <2>2. Paid \in Nat
    BY <1>1, <2>1 DEF Paid
  <2>3. Paid' \in Nat
    BY <1>2, <2>1 DEF Paid
  <2>4. QED
    BY <2>2, <2>3
<1>5. QED
  BY <1>1, <1>3, <1>4

\* Two sets that do not grow keep an account finite and do not raise it.
LEMMA Shrunk ==
  ASSUME NEW S, NEW T, IsFiniteSet(S), T \subseteq S
  PROVE  /\ IsFiniteSet(T) /\ Cardinality(T) \in Nat /\ Cardinality(S) \in Nat
         /\ Cardinality(T) <= Cardinality(S)
BY FS_Subset, FS_CardinalityType

LEMMA ShrunkBy ==
  ASSUME NEW S, NEW T, NEW x \in S, IsFiniteSet(S), T \subseteq S \ {x}
  PROVE  /\ IsFiniteSet(T) /\ Cardinality(T) \in Nat /\ Cardinality(S) \in Nat
         /\ Cardinality(T) + 1 <= Cardinality(S)
<1>1. IsFiniteSet(S \ {x}) /\ Cardinality(S \ {x}) = Cardinality(S) - 1
  BY FS_RemoveElement
<1>2. /\ IsFiniteSet(T) /\ Cardinality(T) \in Nat /\ Cardinality(S) \in Nat
      /\ Cardinality(T) <= Cardinality(S \ {x})
  BY <1>1, FS_Subset, FS_CardinalityType
<1>3. QED
  BY <1>1, <1>2

LEMMA GrownBy ==
  ASSUME NEW S, NEW T, NEW x, IsFiniteSet(S), T \subseteq S \cup {x}
  PROVE  /\ IsFiniteSet(T) /\ Cardinality(T) \in Nat /\ Cardinality(S) \in Nat
         /\ Cardinality(T) <= Cardinality(S) + 1
<1>1. /\ IsFiniteSet(S \cup {x}) /\ Cardinality(S) \in Nat
      /\ \/ Cardinality(S \cup {x}) = Cardinality(S)
         \/ Cardinality(S \cup {x}) = Cardinality(S) + 1
  BY FS_AddElement, FS_CardinalityType
<1>2. /\ IsFiniteSet(T) /\ Cardinality(T) \in Nat
      /\ Cardinality(T) <= Cardinality(S \cup {x})
  BY <1>1, FS_Subset, FS_CardinalityType
<1>3. QED
  BY <1>1, <1>2

\* Nothing new can happen to m, or something pays for it.
LEMMA Kept ==
  ASSUME TypeOK, TypeOK', NEW m \in Msg, Account(m), runs'[m] = runs[m],
         Owing(m)' \subseteq Owing(m), Stopping(m)' \subseteq Stopping(m),
         \/ (Available(m)' => Available(m)) /\ Paid' >= Paid
         \/ Paid' = Paid + 1
  PROVE  Account(m)'
<1>1. runs[m] \in Nat /\ Paid \in Nat /\ Avail(m) \in {0, 1} /\ Paid' \in Nat /\ Avail(m)' \in {0, 1}
  BY AccountType
<1>2. IsFiniteSet(Owing(m)') /\ Owed(m)' \in Nat /\ Owed(m) \in Nat /\ Owed(m)' <= Owed(m)
  BY Shrunk DEF Account, Owed
<1>3. IsFiniteSet(Stopping(m)') /\ Credit(m)' \in Nat /\ Credit(m) \in Nat /\ Credit(m)' <= Credit(m)
  BY Shrunk DEF Account, Credit
<1>4. (Avail(m)' <= Avail(m) /\ Paid' >= Paid) \/ Paid' = Paid + 1
  BY DEF Avail
<1>5. runs[m] + (Owed(m) + (Avail(m) + Credit(m))) <= 1 + Paid
  BY DEF Account
<1>6. runs'[m] + (Owed(m)' + (Avail(m)' + Credit(m)')) <= 1 + Paid'
  BY <1>1, <1>2, <1>3, <1>4, <1>5
<1>7. QED
  BY <1>2, <1>3, <1>6 DEF Account

\* A loop stops owing m a run: the handler starts, or the loop gives m back.
LEMMA Settled ==
  ASSUME TypeOK, TypeOK', NEW m \in Msg, Account(m), Paid' = Paid,
         NEW l \in Owing(m), Owing(m)' \subseteq Owing(m) \ {l},
         Stopping(m)' \subseteq Stopping(m),
         \/ runs'[m] = runs[m]
         \/ runs'[m] = runs[m] + 1 /\ (Available(m)' => Available(m))
  PROVE  Account(m)'
<1>1. runs[m] \in Nat /\ Paid \in Nat /\ Avail(m) \in {0, 1} /\ Avail(m)' \in {0, 1}
  BY AccountType
<1>2. IsFiniteSet(Owing(m)') /\ Owed(m)' \in Nat /\ Owed(m) \in Nat /\ Owed(m)' + 1 <= Owed(m)
  BY ShrunkBy DEF Account, Owed
<1>3. IsFiniteSet(Stopping(m)') /\ Credit(m)' \in Nat /\ Credit(m) \in Nat /\ Credit(m)' <= Credit(m)
  BY Shrunk DEF Account, Credit
<1>4. (Available(m)' => Available(m)) => Avail(m)' <= Avail(m)
  BY DEF Avail
<1>5. runs[m] + (Owed(m) + (Avail(m) + Credit(m))) <= 1 + Paid
  BY DEF Account
<1>6. runs'[m] + (Owed(m)' + (Avail(m)' + Credit(m)')) <= 1 + Paid'
  BY <1>1, <1>2, <1>3, <1>4, <1>5
<1>7. QED
  BY <1>2, <1>3, <1>6 DEF Account

\* m is handed out, to the batch of a loop or straight to its handler; nobody else
\* can then be handed it.
LEMMA Taken ==
  ASSUME TypeOK, TypeOK', NEW m \in Msg, Account(m), Paid' = Paid,
         Available(m), ~Available(m)', Stopping(m)' \subseteq Stopping(m), NEW l,
         \/ runs'[m] = runs[m] /\ Owing(m)' \subseteq Owing(m) \cup {l}
         \/ runs'[m] = runs[m] + 1 /\ Owing(m)' \subseteq Owing(m)
  PROVE  Account(m)'
<1>1. runs[m] \in Nat /\ Paid \in Nat /\ Avail(m) = 1 /\ Avail(m)' = 0
  BY AccountType DEF Avail
<1>2. /\ IsFiniteSet(Owing(m)') /\ Owed(m)' \in Nat /\ Owed(m) \in Nat
      /\ \/ runs'[m] = runs[m] /\ Owed(m)' <= Owed(m) + 1
         \/ runs'[m] = runs[m] + 1 /\ Owed(m)' <= Owed(m)
  <2>1. CASE runs'[m] = runs[m] /\ Owing(m)' \subseteq Owing(m) \cup {l}
    BY <2>1, GrownBy DEF Account, Owed
  <2>2. CASE runs'[m] = runs[m] + 1 /\ Owing(m)' \subseteq Owing(m)
    BY <2>2, Shrunk DEF Account, Owed
  <2>3. QED
    BY <2>1, <2>2
<1>3. IsFiniteSet(Stopping(m)') /\ Credit(m)' \in Nat /\ Credit(m) \in Nat /\ Credit(m)' <= Credit(m)
  BY Shrunk DEF Account, Credit
<1>4. runs[m] + (Owed(m) + (Avail(m) + Credit(m))) <= 1 + Paid
  BY DEF Account
<1>5. runs'[m] + (Owed(m)' + (Avail(m)' + Credit(m)')) <= 1 + Paid'
  BY <1>1, <1>2, <1>3, <1>4
<1>6. QED
  BY <1>2, <1>3, <1>5 DEF Account

\* A stop is paid for, and opens a credit.
LEMMA Credited ==
  ASSUME TypeOK, TypeOK', NEW m \in Msg, Account(m), Paid' = Paid + 1, runs'[m] = runs[m],
         Owing(m)' \subseteq Owing(m), NEW s, Stopping(m)' \subseteq Stopping(m) \cup {s},
         Available(m)' => Available(m)
  PROVE  Account(m)'
<1>1. runs[m] \in Nat /\ Paid \in Nat /\ Avail(m) \in {0, 1} /\ Avail(m)' \in {0, 1}
  BY AccountType
<1>2. IsFiniteSet(Owing(m)') /\ Owed(m)' \in Nat /\ Owed(m) \in Nat /\ Owed(m)' <= Owed(m)
  BY Shrunk DEF Account, Owed
<1>3. /\ IsFiniteSet(Stopping(m)') /\ Credit(m)' \in Nat /\ Credit(m) \in Nat
      /\ Credit(m)' <= Credit(m) + 1
  BY GrownBy DEF Account, Credit
<1>4. Avail(m)' <= Avail(m)
  BY DEF Avail
<1>5. runs[m] + (Owed(m) + (Avail(m) + Credit(m))) <= 1 + Paid
  BY DEF Account
<1>6. runs'[m] + (Owed(m)' + (Avail(m)' + Credit(m)')) <= 1 + Paid'
  BY <1>1, <1>2, <1>3, <1>4, <1>5
<1>7. QED
  BY <1>2, <1>3, <1>6 DEF Account

\* The credit of a stop is spent on an entry that a cancelled loop gives back.
LEMMA Returned ==
  ASSUME TypeOK, TypeOK', NEW m \in Msg, Account(m), Paid' = Paid, runs'[m] = runs[m],
         Owing(m)' \subseteq Owing(m), NEW s \in Stopping(m),
         Stopping(m)' \subseteq Stopping(m) \ {s}, ~Available(m)
  PROVE  Account(m)'
<1>1. runs[m] \in Nat /\ Paid \in Nat /\ Avail(m) = 0 /\ Avail(m)' \in {0, 1}
  BY AccountType DEF Avail
<1>2. IsFiniteSet(Owing(m)') /\ Owed(m)' \in Nat /\ Owed(m) \in Nat /\ Owed(m)' <= Owed(m)
  BY Shrunk DEF Account, Owed
<1>3. /\ IsFiniteSet(Stopping(m)') /\ Credit(m)' \in Nat /\ Credit(m) \in Nat
      /\ Credit(m)' + 1 <= Credit(m)
  BY ShrunkBy DEF Account, Credit
<1>4. runs[m] + (Owed(m) + (Avail(m) + Credit(m))) <= 1 + Paid
  BY DEF Account
<1>5. runs'[m] + (Owed(m)' + (Avail(m)' + Credit(m)')) <= 1 + Paid'
  BY <1>1, <1>2, <1>3, <1>4
<1>6. QED
  BY <1>2, <1>3, <1>5 DEF Account

-----------------------------------------------------------------------------
(* The loops' hands and the entries' availability.                         *)

LEMMA HandsStep ==
  ASSUME TypeOK, LoopInv, HandsInv, [Next]_vars
  PROVE  HandsInv'
<1>0. LoopTypeOK /\ \A l \in Loop : None \notin todo[l]
  BY TypeParts, PyAssumption DEF LoopTypeOK
<1> USE DEF LoopTypeOK
<1>1. ASSUME UNCHANGED <<at, cur, todo, doomed, server>> PROVE HandsInv'
  BY <1>1 DEF HandsInv
<1>2. ASSUME NEW l \in Loop, NEW S, Proceed(l, S), UNCHANGED <<doomed, server>> PROVE HandsInv'
  BY <1>0, <1>2 DEF Proceed, Abandon, MoveTo, HandsInv
<1>3. ASSUME NEW l \in Loop, NEW w \in {"poll", "off"}, MoveTo(l, w, None, {}),
             doomed' \subseteq doomed, server' = server
      PROVE  HandsInv'
  BY <1>0, <1>3 DEF MoveTo, HandsInv
<1>4. ASSUME NEW s \in Server, Start(s) PROVE HandsInv'
  <2>1. \A l \in Loop : l[1] = s => at[l] = "off" /\ l \notin doomed
    BY <1>0, <1>4 DEF Start, LoopInv, LoopOK
  <2>2. \A l \in doomed : server'[l[1]] = server[l[1]]
    BY <1>0, <1>4, <2>1 DEF Start
  <2>3. QED
    BY <1>0, <1>4, <2>1, <2>2 DEF Start, HandsInv
<1>5. ASSUME NEW s \in Server, Crash(s) PROVE HandsInv'
  <2>1. \A l \in doomed' : l \in doomed /\ server'[l[1]] = server[l[1]]
    BY <1>0, <1>5 DEF Crash, LoopsOf
  <2>2. QED
    BY <1>0, <1>5, <2>1 DEF Crash, HandsInv
<1>6. ASSUME NEW l \in Loop, Dispatch(l) \/ Reply(l) PROVE HandsInv'
  BY <1>0, <1>6 DEF Dispatch, Reply, HandsInv
<1>7. ASSUME NEW s \in Server, StopServer(s) \/ CancelLoops(s) \/ CancelAgain(s) \/ StopReturns(s)
      PROVE  HandsInv'
  <2>1. UNCHANGED <<at, cur, todo>>
    BY <1>7 DEF StopServer, CancelLoops, CancelAgain, StopReturns
  <2>2. ASSUME NEW l \in doomed' PROVE server'[l[1]] \in {"cancelled", "expired"}
    <3>1. l \in Loop /\ l[1] \in Server
      BY <1>0, <1>7, <2>2
      DEF StopServer, CancelLoops, CancelAgain, StopReturns, Unended, LoopsOf, Loop
    <3>2. CASE l[1] = s
      BY <1>0, <1>7, <2>2, <3>1, <3>2
      DEF StopServer, CancelLoops, CancelAgain, StopReturns, Unended, LoopsOf, HandsInv
    <3>3. CASE l[1] # s
      BY <1>0, <1>7, <2>2, <3>1, <3>3
      DEF StopServer, CancelLoops, CancelAgain, StopReturns, Unended, LoopsOf, HandsInv
    <3>4. QED
      BY <3>2, <3>3
  <2>3. QED
    BY <2>1, <2>2 DEF HandsInv
<1>8. CASE ServerNext
  <2>1. \A s \in Server : <<s, "consume">> \in Loop /\ <<s, "reclaim">> \in Loop
    BY DEF Loop
  <2>2. ASSUME NEW s \in Server, ReadGroup(s) \/ AutoClaim(s) PROVE HandsInv'
    BY <1>2, <2>1, <2>2 DEF ReadGroup, AutoClaim
  <2>3. ASSUME NEW s \in Server, ReadGroupFails(s) PROVE HandsInv'
    BY <1>1, <2>3 DEF ReadGroupFails
  <2>4. ASSUME NEW l \in Loop, \/ DispatchRaises(l) \/ HandlerCancelled(l) \/ ReplyFails(l)
                               \/ AckFails(l) \/ CancelArrives(l) \/ LoopExits(l)
        PROVE  HandsInv'
    BY <1>3, <2>4 DEF DispatchRaises, HandlerCancelled, ReplyFails, AckFails, CancelArrives,
                      LoopExits, Abandon
  <2>5. ASSUME NEW l \in Loop, Ack(l) PROVE HandsInv'
    BY <1>2, <2>5 DEF Ack
  <2>6. QED
    BY <1>4, <1>5, <1>6, <1>7, <1>8, <2>2, <2>3, <2>4, <2>5 DEF ServerNext, LoopStep
<1>9. CASE ClientNext \/ RedisNext
  BY <1>1, <1>9, ClientFrame, RedisFrame
<1>10. QED
  BY <1>1, <1>8, <1>9 DEF Next, vars

\* An entry can newly be handed out only because it turned idle, or because it is
\* pending and nobody holds it.
LEMMA AvailableStep ==
  ASSUME IInv, [Next]_vars, NEW m \in Msg, Available(m)', ~Available(m)
  PROVE  m \in idle' \/ (m \in pel' /\ Orphaned(m)')
<1>1. InStream(m)' /\ (m \in fresh' => m \in fresh)
  BY StreamStep DEF IInv, Available
<1>2. QED
  BY <1>1 DEF Available

\* A server whose loops are cancelled obtains nothing, so that no credit appears.
LEMMA StoppingKept ==
  ASSUME NEW m, server' = server,
         \A k \in Loop : server[k[1]] \in {"cancelled", "expired"} => Held(k)' \subseteq Held(k)
  PROVE  Stopping(m)' \subseteq Stopping(m)
<1>1. \A s \in Server : \A k \in LoopsOf(s) : k \in Loop /\ k[1] = s
  BY DEF LoopsOf
<1>2. QED
  BY <1>1 DEF Stopping

-----------------------------------------------------------------------------
(* Every step keeps every account.                                         *)

\* The client, other programs and time: only an entry that turns idle in a loop's
\* hands becomes available, and is paid for.
LEMMA OutsideAccount ==
  ASSUME IInv, RunsInv, [Next]_vars, ClientNext \/ RedisNext, TypeOK', NEW m \in Msg
  PROVE  Account(m)'
<1>0. TypeOK /\ Account(m)
  BY DEF IInv, RunsInv
<1>1. /\ UNCHANGED <<pel, at, cur, todo, server, runs, stops>>
      /\ Owing(m)' = Owing(m) /\ Orphaned(m)' = Orphaned(m) /\ Stopping(m)' = Stopping(m)
  <2>1. UNCHANGED <<pel, at, cur, todo, server, runs, stops>>
    BY ClientFrame, RedisFrame
  <2>2. QED
    BY <2>1 DEF Owing, Orphaned, Held, Stopping
<1>2. faults \in Nat /\ slow \in Nat /\ stops \in Nat
  BY <1>0, AccountType
<1>3. ASSUME UNCHANGED <<idle, slow>>, faults' = faults \/ faults' = faults + 1
      PROVE  Account(m)'
  <2>1. Available(m)' => Available(m)
    BY <1>1, <1>3, AvailableStep DEF Available
  <2>2. Paid' >= Paid
    BY <1>1, <1>2, <1>3 DEF Paid
  <2>3. QED
    BY <1>0, <1>1, <2>1, <2>2, Kept
<1>4. ASSUME NEW n \in Msg, OrphanTurnsIdle(n) PROVE Account(m)'
  <2>1. Available(m)' => Available(m)
    BY <1>1, <1>4 DEF OrphanTurnsIdle, Available, InStream
  <2>2. Paid' >= Paid
    BY <1>2, <1>4 DEF OrphanTurnsIdle, Paid
  <2>3. QED
    BY <1>0, <1>1, <2>1, <2>2, Kept
<1>5. ASSUME NEW n \in Msg, HeldTurnsIdle(n) PROVE Account(m)'
  <2>1. Paid' = Paid + 1
    BY <1>2, <1>5 DEF HeldTurnsIdle, Paid
  <2>2. QED
    BY <1>0, <1>1, <2>1, Kept
<1>6. CASE ClientNext
  <2>1. UNCHANGED <<idle, slow>>
    BY <1>6, ClientFrame
  <2>2. faults' = faults \/ faults' = faults + 1
    BY <1>6, CountsStep DEF Next, Fault
  <2>3. QED
    BY <1>3, <2>1, <2>2
<1>7. ASSUME NEW j \in Junk, ForeignAdd(j) PROVE Account(m)'
  BY <1>3, <1>7 DEF ForeignAdd
<1>8. QED
  BY <1>4, <1>5, <1>6, <1>7 DEF RedisNext

\* A loop that starts on a batch it has just obtained is charged with its entries, the
\* first of them as a run; a batch it gives up at once may be claimed again.
LEMMA TakeAccount ==
  ASSUME IInv, RunsInv, [Next]_vars, TypeOK', NEW m \in Msg,
         NEW l \in Loop, NEW batch \in SUBSET Msg,
         Running(l[1]), at[l] = "poll", Proceed(l, batch), batch # {},
         \A x \in batch : Available(x) /\ x \in fresh \cup pel,
         fresh' \cap batch = {}, idle' \cap batch = {},
         idle' \subseteq idle, pel' \subseteq pel \cup batch,
         UNCHANGED <<server, faults, slow, stops>>
  PROVE  Account(m)'
<1>0. TypeOK /\ Account(m) /\ LoopTypeOK /\ PastTypeOK /\ None \notin Msg /\ Paid' = Paid
  BY TypeParts, PyAssumption DEF IInv, RunsInv, Paid
<1>1. cur[l] = None /\ todo[l] = {}
  BY <1>0 DEF RunsInv, HandsInv, LoopTypeOK
<1>2. \A k \in Loop \ {l} : cur'[k] = cur[k] /\ todo'[k] = todo[k]
  BY <1>0 DEF Proceed, Abandon, MoveTo, LoopTypeOK
<1>3. Stopping(m)' \subseteq Stopping(m)
  <2>1. \A k \in Loop : server[k[1]] \in {"cancelled", "expired"} => Held(k)' \subseteq Held(k)
    BY <1>2 DEF Running, Held
  <2>2. QED
    BY <2>1, StoppingKept
<1>4. m \notin batch => (Available(m)' => Available(m))
  <2>1. Orphaned(m)' => Orphaned(m)
    BY <1>0, <1>1, <1>2 DEF Orphaned, Held
  <2>2. QED
    BY <2>1, AvailableStep DEF Available
<1>5. Paid' >= Paid
  BY <1>0, AccountType
<1>6. CASE Abandon(l) /\ runs' = runs
  <2>1. todo'[l] = {}
    BY <1>0, <1>6 DEF Abandon, MoveTo, LoopTypeOK
  <2>2. Owing(m)' \subseteq Owing(m)
    BY <1>2, <2>1 DEF Owing
  <2>3. QED
    BY <1>0, <1>3, <1>4, <1>5, <1>6, <2>2, Kept
<1>7. CASE ~(Abandon(l) /\ runs' = runs)
  <2>1. PICK x \in batch :
          /\ cur'[l] = x /\ todo'[l] = batch \ {x}
          /\ runs' = [runs EXCEPT ![x] = IF x \in Junk THEN @ ELSE @ + 1]
    BY <1>0, <1>7 DEF Proceed, MoveTo, LoopTypeOK
  <2>2. Held(l)' = batch
    BY <1>0, <2>1 DEF Held
  <2>3. CASE m \in batch
    <3>1. InStream(m)'
      BY <2>3, StreamStep DEF IInv, EntryInv
    <3>2. Available(m) /\ ~Available(m)'
      BY <2>2, <2>3, <3>1 DEF Available, Orphaned
    <3>3. CASE m = x
      <4>1. Owing(m)' \subseteq Owing(m)
        BY <1>2, <2>1, <3>3 DEF Owing
      <4>2. runs'[m] = runs[m] \/ runs'[m] = runs[m] + 1
        BY <1>0, <2>1, <3>3 DEF PastTypeOK
      <4>3. QED
        BY <1>0, <1>3, <3>2, <4>1, <4>2, Taken
    <3>4. CASE m # x
      <4>1. Owing(m)' \subseteq Owing(m) \cup {l}
        BY <1>2 DEF Owing
      <4>2. runs'[m] = runs[m]
        BY <1>0, <2>1, <3>4 DEF PastTypeOK
      <4>3. QED
        BY <1>0, <1>3, <3>2, <4>1, <4>2, Taken
    <3>5. QED
      BY <3>3, <3>4
  <2>4. CASE m \notin batch
    <3>1. Owing(m)' \subseteq Owing(m)
      BY <1>2, <2>1, <2>4 DEF Owing
    <3>2. runs'[m] = runs[m]
      BY <1>0, <2>1, <2>4 DEF PastTypeOK
    <3>3. QED
      BY <1>0, <1>3, <1>4, <1>5, <2>4, <3>1, <3>2, Kept
  <2>5. QED
    BY <2>3, <2>4
<1>8. QED
  BY <1>6, <1>7

\* A loop that acknowledges its entry goes on to one that it owes a run.
LEMMA AckAccount ==
  ASSUME IInv, RunsInv, [Next]_vars, TypeOK', NEW m \in Msg, NEW l \in Loop, Ack(l)
  PROVE  Account(m)'
<1> DEFINE GivesUp == Abandon(l) /\ runs' = runs
<1>0. TypeOK /\ Account(m) /\ LoopTypeOK /\ PastTypeOK /\ None \notin Msg
  BY TypeParts, PyAssumption DEF IInv, RunsInv
<1>1. /\ RemovePending(cur[l]) /\ Proceed(l, todo[l])
      /\ UNCHANGED <<stream, fresh, server, faults, slow, stops>>
  BY DEF Ack
<1>2. \A k \in Loop \ {l} : cur'[k] = cur[k] /\ todo'[k] = todo[k]
  BY <1>0, <1>1 DEF Proceed, Abandon, MoveTo, LoopTypeOK
<1>3. \/ GivesUp /\ cur'[l] = None /\ todo'[l] = {}
      \/ todo'[l] \cup ({cur'[l]} \ {None}) = todo[l]
  BY <1>0, <1>1 DEF Proceed, Abandon, MoveTo, IsFirst, LoopTypeOK
<1>4. Stopping(m)' \subseteq Stopping(m)
  <2>1. \A k \in Loop : Held(k)' \subseteq Held(k)
    BY <1>2, <1>3 DEF Held
  <2>2. QED
    BY <1>1, <2>1, StoppingKept
<1>5. (Available(m)' => Available(m)) \/ (m \in todo[l] /\ GivesUp)
  <2>1. m # cur[l] => (Orphaned(m)' => Orphaned(m)) \/ (m \in todo[l] /\ GivesUp)
    BY <1>2, <1>3 DEF Orphaned, Held
  <2>2. pel' \subseteq pel \ {cur[l]} /\ idle' \subseteq idle
    BY <1>1 DEF RemovePending
  <2>3. QED
    BY <2>1, <2>2, AvailableStep DEF Available
<1>6. Paid' = Paid /\ Paid \in Nat
  BY <1>0, <1>1, AccountType DEF Paid
<1>7. CASE m \in todo[l] /\ m \notin todo'[l]
  <2>1. l \in Owing(m) /\ Owing(m)' \subseteq Owing(m) \ {l}
    BY <1>2, <1>7 DEF Owing
  <2>2. runs'[m] = runs[m] \/ (runs'[m] = runs[m] + 1 /\ ~GivesUp)
    BY <1>0, <1>1 DEF Proceed, PastTypeOK
  <2>3. QED
    BY <1>0, <1>4, <1>5, <1>6, <2>1, <2>2, Settled
<1>8. CASE m \notin todo[l] \/ m \in todo'[l]
  <2>1. Owing(m)' \subseteq Owing(m)
    BY <1>2, <1>3 DEF Owing
  <2>2. runs'[m] = runs[m]
    BY <1>0, <1>1, <1>8 DEF Proceed, MoveTo, LoopTypeOK, PastTypeOK
  <2>3. ~(m \in todo[l] /\ GivesUp)
    BY <1>0, <1>8 DEF Abandon, MoveTo, LoopTypeOK
  <2>4. QED
    BY <1>0, <1>4, <1>5, <1>6, <2>1, <2>2, <2>3, Kept
<1>9. QED
  BY <1>7, <1>8

\* A loop that is cancelled gives back its batch, whose runs it owed, and the entry it
\* is at, whose run its server's stop pays for.
LEMMA CancelAccount ==
  ASSUME IInv, RunsInv, [Next]_vars, TypeOK', NEW m \in Msg, NEW l \in Loop, CancelArrives(l)
  PROVE  Account(m)'
<1>0. TypeOK /\ Account(m) /\ LoopTypeOK /\ None \notin Msg
  BY TypeParts, PyAssumption DEF IInv, RunsInv
<1>1. /\ l \in doomed /\ MoveTo(l, "off", None, {})
      /\ UNCHANGED <<server, runs, faults, slow, stops>>
  BY DEF CancelArrives
<1>2. pel' \subseteq pel \cup fresh /\ idle' \subseteq idle
  <2>1. ServerNext
    BY DEF ServerNext
  <2>2. QED
    BY <1>0, <2>1, GroupStep
<1>3. /\ cur'[l] = None /\ todo'[l] = {}
      /\ \A k \in Loop \ {l} : cur'[k] = cur[k] /\ todo'[k] = todo[k]
  BY <1>0, <1>1 DEF MoveTo, LoopTypeOK
<1>4. l[1] \in Server /\ server[l[1]] \in {"cancelled", "expired"}
  BY <1>1 DEF RunsInv, HandsInv, Loop
<1>5. Stopping(m)' \subseteq Stopping(m)
  <2>1. \A k \in Loop : Held(k)' \subseteq Held(k)
    BY <1>3 DEF Held
  <2>2. QED
    BY <1>1, <2>1, StoppingKept
<1>6. Paid' = Paid /\ Paid \in Nat /\ runs'[m] = runs[m]
  BY <1>0, <1>1, AccountType DEF Paid
<1>7. CASE m \in todo[l]
  <2>1. l \in Owing(m) /\ Owing(m)' \subseteq Owing(m) \ {l}
    BY <1>3, <1>7 DEF Owing
  <2>2. QED
    BY <1>0, <1>5, <1>6, <2>1, Settled
<1>8. CASE m \notin todo[l]
  <2>1. Owing(m)' \subseteq Owing(m)
    BY <1>3 DEF Owing
  <2>2. CASE Available(m)' => Available(m)
    BY <1>0, <1>5, <1>6, <2>1, <2>2, Kept
  <2>3. CASE Available(m)' /\ ~Available(m)
    <3>1. m \in pel /\ Orphaned(m)' /\ ~Orphaned(m)
      BY <1>2, <2>3, AvailableStep DEF Available
    <3>2. m \in Held(l)
      BY <1>3, <3>1 DEF Orphaned, Held
    <3>3. l[1] \in Stopping(m)
      BY <1>4, <3>2 DEF Stopping, LoopsOf
    <3>4. l[1] \notin Stopping(m)'
      BY <1>1, <1>4, <3>1 DEF Stopping, LoopsOf, Orphaned
    <3>5. QED
      BY <1>0, <1>5, <1>6, <2>1, <2>3, <3>3, <3>4, Returned
  <2>4. QED
    BY <2>2, <2>3
<1>9. QED
  BY <1>7, <1>8

LEMMA ServerAccount ==
  ASSUME IInv, RunsInv, ServerNext, TypeOK', NEW m \in Msg
  PROVE  Account(m)'
<1>0. /\ TypeOK /\ Account(m) /\ LoopTypeOK /\ RedisTypeOK /\ None \notin Msg
      /\ [Next]_vars /\ TypeOK'
  BY TypeParts, PyAssumption DEF IInv, RunsInv, Next
<1>1. faults \in Nat /\ slow \in Nat /\ stops \in Nat /\ Paid \in Nat
  BY <1>0, AccountType
<1>2. ASSUME UNCHANGED <<pel, cur, todo, runs, faults, slow, stops>>, idle' \subseteq idle,
             Stopping(m)' \subseteq Stopping(m)
      PROVE  Account(m)'
  <2>1. Owing(m)' \subseteq Owing(m) /\ Orphaned(m)' = Orphaned(m)
    BY <1>2 DEF Owing, Orphaned, Held
  <2>2. Available(m)' => Available(m)
    BY <1>0, <1>2, <2>1, AvailableStep DEF Available
  <2>3. Paid' >= Paid
    BY <1>1, <1>2 DEF Paid
  <2>4. QED
    BY <1>0, <1>2, <2>1, <2>2, <2>3, Kept
<1>3. ASSUME Fault, slow' = slow, stops' = stops, runs' = runs,
             \A k \in Loop : todo'[k] \subseteq todo[k],
             Stopping(m)' \subseteq Stopping(m)
      PROVE  Account(m)'
  <2>1. Paid' = Paid + 1
    BY <1>1, <1>3 DEF Fault, Paid
  <2>2. Owing(m)' \subseteq Owing(m)
    BY <1>3 DEF Owing
  <2>3. QED
    BY <1>0, <1>3, <2>1, <2>2, Kept
<1>4. ASSUME NEW s \in Server, ReadGroup(s) PROVE Account(m)'
  <2> DEFINE l == <<s, "consume">>
  <2>1. l \in Loop /\ l[1] = s /\ Batch \subseteq fresh /\ Batch \in SUBSET Msg
    BY <1>0, FirstOfSubset DEF Loop, RedisTypeOK, Batch
  <2>2. /\ Running(s) /\ at[l] = "poll" /\ Proceed(l, Batch) /\ Batch # {}
        /\ fresh' = fresh \ Batch /\ pel' = pel \cup Batch /\ idle' = idle
        /\ UNCHANGED <<server, faults, slow, stops>>
    BY <1>4 DEF ReadGroup, Deliver
  <2>3. idle \cap Batch = {}
    BY <1>0, <2>1 DEF RedisTypeOK, IInv, ExclusiveInv
  <2>4. \A x \in Batch : Available(x) /\ x \in fresh \cup pel
    BY <2>1 DEF Available
  <2> HIDE DEF l
  <2>5. QED
    BY <1>0, <2>1, <2>2, <2>3, <2>4, TakeAccount
<1>5. ASSUME NEW s \in Server, AutoClaim(s) PROVE Account(m)'
  <2> DEFINE batch == FirstOf(idle, ClaimMax)
             l == <<s, "reclaim">>
  <2>1. l \in Loop /\ l[1] = s /\ batch \subseteq idle /\ batch \in SUBSET Msg
    BY <1>0, FirstOfSubset DEF Loop, RedisTypeOK
  <2>2. /\ Running(s) /\ at[l] = "poll" /\ Proceed(l, batch) /\ batch # {}
        /\ idle' = idle \ batch
        /\ UNCHANGED <<fresh, pel, server, faults, slow, stops>>
    BY <1>5 DEF AutoClaim
  <2>3. fresh \cap batch = {} /\ batch \subseteq pel
    BY <1>0, <2>1 DEF RedisTypeOK, IInv, ExclusiveInv
  <2>4. \A x \in batch : Available(x) /\ x \in fresh \cup pel
    BY <2>1, <2>3 DEF Available
  <2> HIDE DEF batch, l
  <2>5. QED
    BY <1>0, <2>1, <2>2, <2>3, <2>4, TakeAccount
<1>6. ASSUME NEW s \in Server, StopServer(s) PROVE Account(m)'
  <2>1. Paid' = Paid + 1 /\ runs'[m] = runs[m]
    BY <1>1, <1>6 DEF StopServer, Paid
  <2>2. Owing(m)' = Owing(m) /\ (Available(m)' => Available(m))
    BY <1>6 DEF StopServer, Owing, Available, Orphaned, Held, InStream
  <2>3. Stopping(m)' \subseteq Stopping(m) \cup {s}
    BY <1>0, <1>6 DEF StopServer, Stopping, Held, LoopTypeOK
  <2>4. QED
    BY <1>0, <2>1, <2>2, <2>3, Credited
<1>7. ASSUME NEW s \in Server, Start(s) \/ CancelLoops(s) \/ CancelAgain(s) \/ StopReturns(s)
      PROVE  Account(m)'
  <2>1. UNCHANGED <<pel, idle, cur, todo, runs, faults, slow, stops>>
    BY <1>7 DEF Start, CancelLoops, CancelAgain, StopReturns
  <2>2. Stopping(m)' \subseteq Stopping(m)
    BY <1>0, <1>7, <2>1
    DEF Start, CancelLoops, CancelAgain, StopReturns, Stopping, Held, LoopTypeOK
  <2>3. QED
    BY <1>2, <2>1, <2>2
<1>8. ASSUME NEW s \in Server, ReadGroupFails(s) PROVE Account(m)'
  <2>1. Stopping(m)' = Stopping(m)
    BY <1>8 DEF ReadGroupFails, Stopping, Held
  <2>2. QED
    BY <1>3, <1>8, <2>1 DEF ReadGroupFails
<1>9. ASSUME NEW s \in Server, Crash(s) PROVE Account(m)'
  <2>1. Stopping(m)' \subseteq Stopping(m)
    <3>1. \A k \in Loop : Held(k)' \subseteq Held(k)
      BY <1>9 DEF Crash, Held
    <3>2. \A t \in Server : server'[t] = IF t = s THEN "idle" ELSE server[t]
      BY <1>0, <1>9 DEF Crash, LoopTypeOK
    <3>3. QED
      BY <3>1, <3>2 DEF Stopping, LoopsOf
  <2>2. \A k \in Loop : todo'[k] \subseteq todo[k]
    BY <1>9 DEF Crash
  <2>3. QED
    BY <1>3, <1>9, <2>1, <2>2 DEF Crash
<1>10. ASSUME NEW l \in Loop, Dispatch(l) \/ Reply(l) \/ LoopExits(l) PROVE Account(m)'
  <2>1. /\ \A k \in Loop : cur'[k] = cur[k] /\ todo'[k] = todo[k]
        /\ UNCHANGED <<pel, idle, server, runs, faults, slow, stops>>
    <3>1. CASE Dispatch(l) \/ Reply(l)
      BY <3>1 DEF Dispatch, Reply
    <3>2. CASE LoopExits(l)
      BY <1>0, <3>2 DEF LoopExits, MoveTo, LoopTypeOK, RunsInv, HandsInv
    <3>3. QED
      BY <1>10, <3>1, <3>2
  <2>2. Owing(m)' = Owing(m) /\ Orphaned(m)' = Orphaned(m) /\ Stopping(m)' \subseteq Stopping(m)
    <3>1. \A k \in Loop : Held(k)' = Held(k)
      BY <2>1 DEF Held
    <3>2. QED
      BY <2>1, <3>1, StoppingKept DEF Owing, Orphaned
  <2>3. Available(m)' => Available(m)
    BY <1>0, <2>1, <2>2, AvailableStep DEF Available
  <2>4. Paid' >= Paid
    BY <1>1, <2>1 DEF Paid
  <2>5. QED
    BY <1>0, <2>1, <2>2, <2>3, <2>4, Kept
<1>11. ASSUME NEW l \in Loop, DispatchRaises(l) \/ HandlerCancelled(l) \/ ReplyFails(l) \/ AckFails(l)
       PROVE  Account(m)'
  <2>1. /\ Fault /\ UNCHANGED <<slow, stops, runs, server>>
        /\ \E w \in {"poll", "off"} : MoveTo(l, w, None, {})
    BY <1>11 DEF DispatchRaises, HandlerCancelled, ReplyFails, AckFails, Abandon
  <2>2. \A k \in Loop : Held(k)' \subseteq Held(k) /\ todo'[k] \subseteq todo[k]
    BY <1>0, <2>1 DEF MoveTo, Held, LoopTypeOK
  <2>3. QED
    BY <1>3, <2>1, <2>2, StoppingKept
<1>12. QED
  BY <1>0, <1>4, <1>5, <1>6, <1>7, <1>8, <1>9, <1>10, <1>11, AckAccount, CancelAccount
  DEF ServerNext, LoopStep

-----------------------------------------------------------------------------
(* The theorem.                                                            *)

LEMMA RunsInit == Init => RunsInv
<1> SUFFICES ASSUME Init PROVE RunsInv
  OBVIOUS
<1>1. HandsInv /\ (\A m \in Msg : runs[m] = 0) /\ Paid = 0
  BY DEF Init, HandsInv, Paid
<1>2. ASSUME NEW m \in Msg PROVE Account(m)
  <2>1. Owing(m) = {} /\ Stopping(m) = {}
    BY DEF Init, Owing, Stopping
  <2>2. /\ IsFiniteSet(Owing(m)) /\ Owed(m) = 0
        /\ IsFiniteSet(Stopping(m)) /\ Credit(m) = 0
    BY <2>1, FS_EmptySet DEF Owed, Credit
  <2>3. Avail(m) \in {0, 1}
    BY DEF Avail
  <2>4. QED
    BY <1>1, <2>2, <2>3 DEF Account
<1>3. QED
  BY <1>1, <1>2 DEF RunsInv

LEMMA RunsStep == IInv /\ RunsInv /\ [Next]_vars => RunsInv'
<1> SUFFICES ASSUME IInv, RunsInv, [Next]_vars PROVE RunsInv'
  OBVIOUS
<1>1. TypeOK /\ TypeOK' /\ LoopInv
  BY InvStep DEF IInv
<1>2. HandsInv'
  BY <1>1, HandsStep DEF RunsInv
<1>3. ASSUME NEW m \in Msg PROVE Account(m)'
  <2>1. CASE UNCHANGED vars
    <3>1. /\ Owing(m)' = Owing(m) /\ Stopping(m)' = Stopping(m)
          /\ Available(m)' = Available(m) /\ Paid' = Paid /\ runs' = runs
      BY <2>1 DEF vars, Owing, Stopping, Available, Orphaned, Held, InStream, Paid
    <3>2. QED
      BY <3>1 DEF RunsInv, Account, Owed, Credit, Avail
  <2>2. QED
    BY <1>1, <2>1, OutsideAccount, ServerAccount DEF Next
<1>4. QED
  BY <1>2, <1>3 DEF RunsInv

\* _handle_entry runs a handler once per message, and again only for a failure, for an
\* entry whose idle time ran out in a loop's hands, or for a stop that cancelled the
\* loop before the acknowledgement: a stop repeats no run twice, although it cancels
\* two loops.
THEOREM BoundedRuns == Spec => []RunsAreBounded
<1>1. IInv /\ RunsInv => RunsAreBounded
  <2> SUFFICES ASSUME IInv, RunsInv, NEW m \in Msg PROVE runs[m] <= 1 + faults + slow + stops
    BY DEF RunsAreBounded
  <2>1. runs[m] \in Nat /\ faults \in Nat /\ slow \in Nat /\ stops \in Nat
    BY PyAssumption DEF IInv, TypeOK
  <2>2. Owed(m) \in Nat /\ Credit(m) \in Nat /\ Avail(m) \in {0, 1}
    BY FS_CardinalityType DEF RunsInv, Account, Owed, Credit, Avail
  <2>3. runs[m] + (Owed(m) + (Avail(m) + Credit(m))) <= 1 + (faults + (slow + stops))
    BY DEF RunsInv, Account, Paid
  <2>4. QED
    BY <2>1, <2>2, <2>3
<1>2. QED
  BY <1>1, RunsInit, RunsStep, Invariance, PTL DEF Spec
=============================================================================
