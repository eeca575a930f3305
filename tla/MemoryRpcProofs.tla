-------------------------- MODULE MemoryRpcProofs ---------------------------
(***************************************************************************)
(* Proofs about MemoryRpc in both languages, for every set of servers,     *)
(* services and messages: the inductive invariant IInv, the safety         *)
(* properties that follow from it, and that every step is one that         *)
(* RpcContract allows.                                                     *)
(***************************************************************************)
EXTENDS MemoryRpc, TLAPS

-----------------------------------------------------------------------------
(* The inductive invariant.                                                *)

\* A message is on its way once its caller has called send or notify, only such a
\* message has an entry or a timer, and a timer means that the caller waits.
SentInv ==
  /\ \A m \in Msg : status[m] = "unsent" <=> at[m] = "new"
  /\ \A c \in pending \cup timer : at[c] \notin {"new", "unserved"}
  /\ \A c \in timer : status[c] = "waiting"

\* What stop() found in flight is never queued again.
OwedInv ==
  /\ \A s \in Server : \A m \in owed[s] : at[m] \in {"handler", "returned", "done"}
  /\ \A s \in Server \ expired : step[s] # "drain" => owed[s] \cap Inflight(s) = {}

\* What each language leaves out: TypeScript has no futures, the step in which a
\* dispatcher ends is one with the rest of its runner in Python, where an entry
\* is gone before its future is set.
LanguageInv ==
  /\ language = "ts" => \A c \in Call : future[c] = "none"
  /\ language = "py" =>
       /\ \A m \in Msg : at[m] # "returned"
       /\ \A c \in pending :
            /\ future[c] \in {"open", "cancelled"}
            /\ at[c] \in {"queued", "handler"} \/ outcome[c] = "cancelled"
       /\ \A c \in Call : future[c] = "answered" => c \in served

\* A dispatcher that came to a reply is one that completed.
OutcomeInv == \A m \in Msg : outcome[m] = "reply" => m \in served

IInv ==
  /\ TypeOK /\ SentInv /\ OwedInv /\ LanguageInv /\ OutcomeInv
  /\ PendingIsWaiting /\ BusIsOwned

USE DEF serverVars, coreVars, promiseVars, clientVars, messageVars

-----------------------------------------------------------------------------
(* Type correctness.                                                       *)

LEMMA InitType == Init => TypeOK
BY DEF Init, TypeOK, Msg

LEMMA TransportStopsType ==
  ASSUME TypeOK, NEW s \in Server, TransportStops(s)
  PROVE  /\ bus' \in [Service -> Server \cup {None}]
         /\ own' \in [Server -> SUBSET Service]
         /\ core' \in [Server -> {"idle", "started", "stopped"}]
         /\ transport' \in [Server -> {"idle", "started", "stopped"}]
         /\ step' \in [Server -> {"none", "register", "opened", "drain", "closed"}]
<1>1. /\ bus' \in [Service -> Server \cup {None}]
      /\ own' \in [Server -> SUBSET Service]
      /\ transport' \in [Server -> {"idle", "started", "stopped"}]
  BY DEF TypeOK, TransportStops
<1>2. /\ core' \in [Server -> {"idle", "started", "stopped"}]
      /\ step' \in [Server -> {"none", "register", "opened", "drain", "closed"}]
  BY DEF TypeOK, TransportStops, At
<1>3. QED
  BY <1>1, <1>2

LEMMA TypeStep ==
  ASSUME TypeOK, SentInv, [Next]_vars
  PROVE  TypeOK'
<1> USE MemoryAssumption DEF TypeOK, Msg
<1>1. CASE ClientStep
  <2>1. CASE ClientStarts \/ ClientStartReturns \/ ClientStopReturns
    BY <2>1 DEF ClientStarts, ClientStartReturns, ClientStopReturns
  <2>2. CASE ClientStops
    <3>1. CASE UNCHANGED promiseVars
      BY <2>2, <3>1 DEF ClientStops
    <3>2. CASE Settle(pending, "stopped") /\ UNCHANGED <<serverVars, messageVars>>
      BY <2>2, <3>2 DEF ClientStops, Settle, Ends
    <3>3. CASE Sets(pending, "stopped") /\ UNCHANGED <<serverVars, timer, status, messageVars>>
      <4>1. future' \in [Call -> {"none", "open", "answered", "failed", "stopped", "cancelled"}]
        BY <3>3 DEF Sets
      <4>2. QED
        BY <2>2, <3>3, <4>1 DEF ClientStops, Settle, Ends
    <3>4. QED
      BY <2>2, <3>1, <3>2, <3>3 DEF ClientStops
  <2>3. ASSUME NEW c \in Call, Send(c) PROVE TypeOK'
    BY <2>3 DEF Send
  <2>4. ASSUME NEW c \in Call, SendUnserved(c) PROVE TypeOK'
    BY <2>4 DEF SendUnserved
  <2>5. ASSUME NEW n \in Note, Notify(n) PROVE TypeOK'
    BY <2>5 DEF Notify
  <2>6. ASSUME NEW c \in Call, Timeout(c) \/ TimesOut(c) \/ Return(c) \/ Cancel(c) PROVE TypeOK'
    <3>1. CASE Timeout(c)
      BY <3>1 DEF Timeout, Settle, Ends, Sets
    <3>2. CASE TimesOut(c)
      BY <3>2 DEF TimesOut, Ends
    <3>3. CASE Return(c)
      BY <3>3 DEF Return, Ends
    <3>4. CASE Cancel(c)
      BY <3>4 DEF Cancel, Ends, Sets
    <3>5. QED
      BY <2>6, <3>1, <3>2, <3>3, <3>4
  <2>7. ASSUME NEW m \in Msg, Resolves(m) PROVE TypeOK'
    BY <2>7 DEF Resolves
  <2>8. QED
    BY <1>1, <2>1, <2>2, <2>3, <2>4, <2>5, <2>6, <2>7 DEF ClientStep
<1>2. CASE MessageStep
  <2>1. ASSUME NEW m \in Msg, Dispatch(m) PROVE TypeOK'
    BY <2>1 DEF Dispatch
  <2>2. ASSUME NEW m \in Msg, DispatcherReturns(m) PROVE TypeOK'
    BY <2>2 DEF DispatcherReturns, Came
  <2>3. ASSUME NEW m \in Msg, RunnerReturns(m) PROVE TypeOK'
    BY <2>3 DEF RunnerReturns, Came, Sets
  <2>4. ASSUME NEW c \in Call, Replied(c) PROVE TypeOK'
    BY <2>4 DEF Replied, Settle, Ends
  <2>5. QED
    BY <1>2, <2>1, <2>2, <2>3, <2>4 DEF MessageStep
<1>3. CASE ServerStep
  <2>1. ASSUME NEW s \in Server, start(s) PROVE TypeOK'
    BY <2>1 DEF start, At
  <2>2. ASSUME NEW s \in Server, RegisterFails(s) PROVE TypeOK'
    BY <2>2 DEF RegisterFails, At
  <2>3. ASSUME NEW s \in Server, TransportStarts(s) PROVE TypeOK'
    BY <2>3 DEF TransportStarts, At
  <2>4. ASSUME NEW s \in Server, StartReturns(s) \/ StopReturns(s) PROVE TypeOK'
    <3>1. core' \in [Server -> {"idle", "started", "stopped"}]
          /\ step' \in [Server -> {"none", "register", "opened", "drain", "closed"}]
      BY <2>4 DEF StartReturns, StopReturns, At
    <3>2. UNCHANGED <<language, bus, transport, own, left, owed, expired, clientVars, messageVars>>
      BY <2>4 DEF StartReturns, StopReturns
    <3>3. QED
      BY <3>1, <3>2
  <2>5. ASSUME NEW s \in Server, Registers(s) PROVE TypeOK'
    BY <2>5 DEF Registers, Takes, Free
  <2>6. ASSUME NEW s \in Server, StartAtOnce(s) PROVE TypeOK'
    <3>1. PICK S \in SUBSET Service : Takes(s, S)
      BY <2>6 DEF StartAtOnce, Free
    <3>2. bus' \in [Service -> Server \cup {None}] /\ own' \in [Server -> SUBSET Service]
      BY <3>1 DEF Takes
    <3>3. core' \in [Server -> {"idle", "started", "stopped"}]
          /\ transport' \in [Server -> {"idle", "started", "stopped"}]
      BY <2>6 DEF StartAtOnce
    <3>4. QED
      BY <2>6, <3>2, <3>3 DEF StartAtOnce
  <2>7. ASSUME NEW s \in Server, stop(s) PROVE TypeOK'
    <3>1. CASE core[s] # "started"
      <4>1. core' \in [Server -> {"idle", "started", "stopped"}]
        BY <2>7, <3>1 DEF stop
      <4>2. UNCHANGED <<language, bus, transport, own, step, left, owed, expired, clientVars,
                        messageVars>>
        BY <2>7, <3>1 DEF stop
      <4>3. QED
        BY <4>1, <4>2
    <3>2. CASE core[s] = "started"
      <4>1. owed' \in [Server -> SUBSET Msg]
        BY <2>7, <3>2 DEF stop, Inflight
      <4>2. CASE TransportStops(s)
        BY <2>7, <3>2, <4>1, <4>2, TransportStopsType DEF stop
      <4>3. CASE At(s, "drain") /\ UNCHANGED <<bus, core, transport, own>>
        BY <2>7, <3>2, <4>1, <4>3 DEF stop, At
      <4>4. QED
        BY <2>7, <3>2, <4>2, <4>3 DEF stop
    <3>3. QED
      BY <3>1, <3>2
  <2>8. ASSUME NEW s \in Server, Drained(s) \/ DrainExpires(s) PROVE TypeOK'
    BY <2>8, TransportStopsType DEF Drained, DrainExpires
  <2>9. QED
    BY <1>3, <2>1, <2>2, <2>3, <2>4, <2>5, <2>6, <2>7, <2>8 DEF ServerStep
<1>4. CASE UNCHANGED vars
  BY <1>4 DEF vars
<1>5. QED
  BY <1>1, <1>2, <1>3, <1>4 DEF Next

-----------------------------------------------------------------------------
(* The ways of the messages.                                               *)

LEMMA InitInv == Init => IInv
<1> SUFFICES ASSUME Init PROVE IInv
  OBVIOUS
<1>1. TypeOK
  BY InitType
<1>2. SentInv /\ OwedInv /\ LanguageInv /\ OutcomeInv
  BY DEF Init, SentInv, OwedInv, LanguageInv, OutcomeInv, Inflight, Msg
<1>3. PendingIsWaiting /\ BusIsOwned
  BY MemoryAssumption DEF Init, PendingIsWaiting, BusIsOwned, Msg
<1>4. QED
  BY <1>1, <1>2, <1>3 DEF IInv

\* Servers leave the client and the messages alone.
LEMMA ServerFrame == ServerStep => UNCHANGED <<clientVars, messageVars, language>>
BY DEF ServerStep, start, StartAtOnce, Registers, RegisterFails, TransportStarts, StartReturns,
       stop, Drained, DrainExpires, StopReturns

\* Client and messages leave the servers alone.
LEMMA ClientFrame == ClientStep \/ MessageStep => UNCHANGED serverVars
BY DEF ClientStep, MessageStep, ClientStarts, ClientStartReturns, ClientStops, ClientStopReturns,
       Send, SendUnserved, Timeout, TimesOut, Return, Cancel, Notify, Resolves, Dispatch,
       DispatcherReturns, RunnerReturns, Replied

LEMMA SentStep ==
  ASSUME TypeOK, SentInv, [Next]_vars
  PROVE  SentInv'
<1> USE DEF TypeOK, SentInv, Msg
<1>1. CASE ClientStep
  <2>1. CASE ClientStarts \/ ClientStartReturns \/ ClientStopReturns
    BY <2>1 DEF ClientStarts, ClientStartReturns, ClientStopReturns
  <2>2. CASE ClientStops
    BY <2>2 DEF ClientStops, Settle, Ends, Sets
  <2>3. ASSUME NEW c \in Call, Send(c) \/ SendUnserved(c) PROVE SentInv'
    BY <2>3 DEF Send, SendUnserved
  <2>4. ASSUME NEW n \in Note, Notify(n) PROVE SentInv'
    BY <2>4 DEF Notify
  <2>5. ASSUME NEW c \in Call, Timeout(c) \/ TimesOut(c) \/ Return(c) \/ Cancel(c)
        PROVE  SentInv'
    BY <2>5 DEF Timeout, TimesOut, Return, Cancel, Settle, Ends, Sets
  <2>6. ASSUME NEW m \in Msg, Resolves(m) PROVE SentInv'
    BY <2>6, MemoryAssumption DEF Resolves
  <2>7. QED
    BY <1>1, <2>1, <2>2, <2>3, <2>4, <2>5, <2>6 DEF ClientStep
<1>2. CASE MessageStep
  <2>1. ASSUME NEW m \in Msg, Dispatch(m) \/ DispatcherReturns(m) \/ RunnerReturns(m)
        PROVE  SentInv'
    BY <2>1 DEF Dispatch, DispatcherReturns, RunnerReturns
  <2>2. ASSUME NEW c \in Call, Replied(c) PROVE SentInv'
    BY <2>2 DEF Replied, Settle, Ends
  <2>3. QED
    BY <1>2, <2>1, <2>2 DEF MessageStep
<1>3. CASE ServerStep
  BY <1>3, ServerFrame
<1>4. CASE UNCHANGED vars
  BY <1>4 DEF vars
<1>5. QED
  BY <1>1, <1>2, <1>3, <1>4 DEF Next

LEMMA LanguageStep ==
  ASSUME TypeOK, SentInv, LanguageInv, OutcomeInv, [Next]_vars
  PROVE  LanguageInv' /\ OutcomeInv'
<1> USE DEF TypeOK, SentInv, LanguageInv, OutcomeInv, Msg
<1>1. CASE ClientStep
  <2>1. CASE ClientStarts \/ ClientStartReturns \/ ClientStopReturns
    BY <2>1 DEF ClientStarts, ClientStartReturns, ClientStopReturns
  <2>2. CASE ClientStops
    BY <2>2 DEF ClientStops, Settle, Ends, Sets
  <2>3. ASSUME NEW c \in Call, Send(c) \/ SendUnserved(c) PROVE LanguageInv' /\ OutcomeInv'
    BY <2>3 DEF Send, SendUnserved
  <2>4. ASSUME NEW n \in Note, Notify(n) PROVE LanguageInv' /\ OutcomeInv'
    BY <2>4, MemoryAssumption DEF Notify
  <2>5. ASSUME NEW c \in Call, Timeout(c) \/ TimesOut(c) \/ Return(c) \/ Cancel(c)
        PROVE  LanguageInv' /\ OutcomeInv'
    BY <2>5 DEF Timeout, TimesOut, Return, Cancel, Settle, Ends, Sets
  <2>6. ASSUME NEW m \in Msg, Resolves(m) PROVE LanguageInv' /\ OutcomeInv'
    BY <2>6 DEF Resolves
  <2>7. QED
    BY <1>1, <2>1, <2>2, <2>3, <2>4, <2>5, <2>6 DEF ClientStep
<1>2. CASE MessageStep
  <2>1. ASSUME NEW m \in Msg, Dispatch(m) PROVE LanguageInv' /\ OutcomeInv'
    BY <2>1 DEF Dispatch
  <2>2. ASSUME NEW m \in Msg, DispatcherReturns(m) PROVE LanguageInv' /\ OutcomeInv'
    BY <2>2 DEF DispatcherReturns, Came
  <2>3. ASSUME NEW m \in Msg, RunnerReturns(m) PROVE LanguageInv' /\ OutcomeInv'
    BY <2>3 DEF RunnerReturns, Came, Sets
  <2>4. ASSUME NEW c \in Call, Replied(c) PROVE LanguageInv' /\ OutcomeInv'
    BY <2>4 DEF Replied, Settle, Ends
  <2>5. QED
    BY <1>2, <2>1, <2>2, <2>3, <2>4 DEF MessageStep
<1>3. CASE ServerStep
  BY <1>3, ServerFrame
<1>4. CASE UNCHANGED vars
  BY <1>4 DEF vars
<1>5. QED
  BY <1>1, <1>2, <1>3, <1>4 DEF Next

-----------------------------------------------------------------------------
(* The pending map.                                                        *)

LEMMA SettlePending ==
  ASSUME TypeOK, PendingIsWaiting, language = "ts", language' = language,
         NEW S \in SUBSET Call, NEW o \in {"answered", "failed", "stopped", "timeout"},
         Settle(S, o), \A c \in Call : at'[c] = "unserved" <=> at[c] = "unserved"
  PROVE  PendingIsWaiting'
<1>1. \A c \in Call : status'[c] = "waiting" <=> status[c] = "waiting" /\ c \notin S
  BY DEF Settle, Ends, Msg
<1>2. pending' = pending \ S /\ timer' = timer \ S
  BY DEF Settle, Ends
<1>3. QED
  BY <1>1, <1>2 DEF PendingIsWaiting

LEMMA PendingStep ==
  ASSUME TypeOK, SentInv, LanguageInv, PendingIsWaiting, [Next]_vars
  PROVE  PendingIsWaiting'
<1> USE DEF TypeOK, SentInv, LanguageInv, PendingIsWaiting, Msg
<1>1. CASE ClientStep
  <2>1. CASE ClientStarts \/ ClientStartReturns \/ ClientStopReturns
    BY <2>1 DEF ClientStarts, ClientStartReturns, ClientStopReturns
  <2>2. CASE ClientStops
    <3>1. CASE UNCHANGED promiseVars /\ UNCHANGED <<language, messageVars>>
      BY <3>1
    <3>2. CASE language = "ts" /\ Settle(pending, "stopped") /\ UNCHANGED <<language, messageVars>>
      BY <3>2 DEF Settle, Ends
    <3>3. CASE /\ language = "py" /\ Sets(pending, "stopped") /\ pending' = {}
               /\ UNCHANGED <<language, timer, status, messageVars>>
      BY <3>3 DEF Sets
    <3>4. QED
      BY <2>2, <3>1, <3>2, <3>3 DEF ClientStops
  <2>3. ASSUME NEW c \in Call, Send(c) PROVE PendingIsWaiting'
    BY <2>3 DEF Send
  <2>4. ASSUME NEW c \in Call, SendUnserved(c) PROVE PendingIsWaiting'
    BY <2>4 DEF SendUnserved
  <2>5. ASSUME NEW n \in Note, Notify(n) PROVE PendingIsWaiting'
    BY <2>5, MemoryAssumption DEF Notify
  <2>6. ASSUME NEW c \in Call, Timeout(c) PROVE PendingIsWaiting'
    <3>1. CASE language = "ts"
      BY <2>6, <3>1, SettlePending DEF Timeout
    <3>2. CASE language = "py"
      BY <2>6, <3>2 DEF Timeout, Sets
    <3>3. QED
      BY <3>1, <3>2
  <2>7. ASSUME NEW c \in Call, TimesOut(c) \/ Return(c) \/ Cancel(c) PROVE PendingIsWaiting'
    <3>1. language = "py"
      BY <2>7 DEF TimesOut, Return, Cancel
    <3>2. CASE TimesOut(c)
      BY <3>1, <3>2 DEF TimesOut, Ends
    <3>3. CASE Return(c)
      <4>1. c \notin pending
        BY <3>1, <3>3 DEF Return
      <4>2. UNCHANGED <<pending, future, at, outcome, language>>
        BY <3>3 DEF Return
      <4>3. /\ \A d \in Call : d # c => status'[d] = status[d]
            /\ status'[c] # "waiting"
        BY <3>3 DEF Return, Ends
      <4>4. QED
        BY <3>1, <4>1, <4>2, <4>3
    <3>4. CASE Cancel(c)
      BY <3>1, <3>4 DEF Cancel, Ends, Sets
    <3>5. QED
      BY <2>7, <3>2, <3>3, <3>4
  <2>8. ASSUME NEW m \in Msg, Resolves(m) PROVE PendingIsWaiting'
    BY <2>8, MemoryAssumption DEF Resolves
  <2>9. QED
    BY <1>1, <2>1, <2>2, <2>3, <2>4, <2>5, <2>6, <2>7, <2>8 DEF ClientStep
<1>2. CASE MessageStep
  <2>1. ASSUME NEW m \in Msg, Dispatch(m) PROVE PendingIsWaiting'
    BY <2>1 DEF Dispatch
  <2>2. ASSUME NEW m \in Msg, DispatcherReturns(m) PROVE PendingIsWaiting'
    BY <2>2 DEF DispatcherReturns, Came
  <2>3. ASSUME NEW m \in Msg, RunnerReturns(m) PROVE PendingIsWaiting'
    BY <2>3 DEF RunnerReturns, Came, Sets
  <2>4. ASSUME NEW c \in Call, Replied(c) PROVE PendingIsWaiting'
    <3>1. language = "ts"
      BY <2>4 DEF Replied
    <3>2. CASE c \in pending
      BY <2>4, <3>1, <3>2, SettlePending DEF Replied
    <3>3. CASE c \notin pending
      BY <2>4, <3>1, <3>3 DEF Replied
    <3>4. QED
      BY <3>2, <3>3
  <2>5. QED
    BY <1>2, <2>1, <2>2, <2>3, <2>4 DEF MessageStep
<1>3. CASE ServerStep
  BY <1>3, ServerFrame
<1>4. CASE UNCHANGED vars
  BY <1>4 DEF vars
<1>5. QED
  BY <1>1, <1>2, <1>3, <1>4 DEF Next

-----------------------------------------------------------------------------
(* The bus, and the drain.                                                 *)

\* What leaves the bus is one's own, all of it.
LEMMA TransportStopsOwned ==
  ASSUME TypeOK, BusIsOwned, NEW s \in Server, TransportStops(s)
  PROVE  BusIsOwned'
BY MemoryAssumption DEF TypeOK, BusIsOwned, TransportStops

LEMMA TakesOwned ==
  ASSUME TypeOK, BusIsOwned, NEW s \in Server, NEW S \in SUBSET Service,
         \A x \in S : bus[x] = None, Takes(s, S)
  PROVE  BusIsOwned'
BY MemoryAssumption DEF TypeOK, BusIsOwned, Takes

LEMMA OwnedStep ==
  ASSUME TypeOK, BusIsOwned, [Next]_vars
  PROVE  BusIsOwned'
<1>1. CASE ClientStep \/ MessageStep
  BY <1>1, ClientFrame DEF BusIsOwned
<1>2. ASSUME NEW s \in Server, UNCHANGED <<bus, own>> PROVE BusIsOwned'
  BY <1>2 DEF BusIsOwned
<1>3. ASSUME NEW s \in Server, Registers(s) PROVE BusIsOwned'
  <2>1. PICK x \in Free(left[s]) : Takes(s, {x})
    BY <1>3 DEF Registers
  <2>2. x \in Service /\ bus[x] = None
    BY DEF Free, TypeOK
  <2>3. QED
    BY <2>1, <2>2, TakesOwned
<1>4. ASSUME NEW s \in Server, StartAtOnce(s) PROVE BusIsOwned'
  <2>1. Free(Provides[s]) \subseteq Service /\ \A x \in Free(Provides[s]) : bus[x] = None
    BY MemoryAssumption DEF Free
  <2>2. PICK S \in SUBSET Free(Provides[s]) : Takes(s, S)
    BY <1>4 DEF StartAtOnce
  <2>3. QED
    BY <2>1, <2>2, TakesOwned
<1>5. ASSUME NEW s \in Server, stop(s) PROVE BusIsOwned'
  BY <1>5, <1>2, TransportStopsOwned DEF stop
<1>6. ASSUME NEW s \in Server, Drained(s) \/ DrainExpires(s) PROVE BusIsOwned'
  BY <1>6, TransportStopsOwned DEF Drained, DrainExpires
<1>7. CASE ServerStep
  BY <1>7, <1>2, <1>3, <1>4, <1>5, <1>6
  DEF ServerStep, start, RegisterFails, TransportStarts, StartReturns, StopReturns
<1>8. CASE UNCHANGED vars
  BY <1>8 DEF vars, BusIsOwned
<1>9. QED
  BY <1>1, <1>7, <1>8 DEF Next

\* Nothing gets into a handler's hands twice, and only new messages get on their way.
LEMMA AtStep ==
  ASSUME TypeOK, SentInv, ClientStep \/ MessageStep, NEW m \in Msg
  PROVE  /\ at[m] \in {"handler", "returned", "done"} =>
              at'[m] \in {"handler", "returned", "done"} /\ via'[m] = via[m]
         /\ at'[m] = "handler" => at[m] \in {"queued", "handler"} /\ via'[m] = via[m]
<1> USE DEF TypeOK, SentInv, Msg
<1>1. CASE UNCHANGED <<via, at>>
  BY <1>1
<1>2. ASSUME NEW c \in Call, Send(c) \/ SendUnserved(c), m # c \/ m = c
      PROVE  /\ at[m] \in {"handler", "returned", "done"} =>
                  at'[m] \in {"handler", "returned", "done"} /\ via'[m] = via[m]
             /\ at'[m] = "handler" => at[m] \in {"queued", "handler"} /\ via'[m] = via[m]
  BY <1>2 DEF Send, SendUnserved
<1>3. ASSUME NEW n \in Note, Notify(n)
      PROVE  /\ at[m] \in {"handler", "returned", "done"} =>
                  at'[m] \in {"handler", "returned", "done"} /\ via'[m] = via[m]
             /\ at'[m] = "handler" => at[m] \in {"queued", "handler"} /\ via'[m] = via[m]
  BY <1>3 DEF Notify
<1>4. ASSUME NEW n \in Msg, Dispatch(n) \/ DispatcherReturns(n) \/ RunnerReturns(n)
      PROVE  /\ at[m] \in {"handler", "returned", "done"} =>
                  at'[m] \in {"handler", "returned", "done"} /\ via'[m] = via[m]
             /\ at'[m] = "handler" => at[m] \in {"queued", "handler"} /\ via'[m] = via[m]
  BY <1>4 DEF Dispatch, DispatcherReturns, RunnerReturns
<1>5. ASSUME NEW c \in Call, Replied(c)
      PROVE  /\ at[m] \in {"handler", "returned", "done"} =>
                  at'[m] \in {"handler", "returned", "done"} /\ via'[m] = via[m]
             /\ at'[m] = "handler" => at[m] \in {"queued", "handler"} /\ via'[m] = via[m]
  BY <1>5 DEF Replied
<1>6. CASE ClientStep
  BY <1>1, <1>2, <1>3, <1>6
  DEF ClientStep, ClientStarts, ClientStartReturns, ClientStops, ClientStopReturns, Timeout,
      TimesOut, Return, Cancel, Resolves
<1>7. CASE MessageStep
  BY <1>4, <1>5, <1>7 DEF MessageStep
<1>8. QED
  BY <1>6, <1>7

LEMMA OwedStep ==
  ASSUME TypeOK, SentInv, OwedInv, [Next]_vars
  PROVE  OwedInv'
<1>1. CASE ClientStep \/ MessageStep
  <2>1. UNCHANGED <<owed, expired, step>>
    BY <1>1, ClientFrame
  <2>2. \A s \in Server : owed[s] \subseteq Msg
    BY DEF TypeOK
  <2>3. ASSUME NEW s \in Server, NEW m \in owed[s]
        PROVE  at'[m] \in {"handler", "returned", "done"}
    BY <1>1, <2>2, AtStep DEF OwedInv
  <2>4. ASSUME NEW s \in Server \ expired, step[s] # "drain"
        PROVE  owed[s] \cap Inflight(s)' = {}
    <3> SUFFICES ASSUME NEW m \in owed[s], m \in Inflight(s)' PROVE FALSE
      OBVIOUS
    <3>1. m \in Msg /\ at'[m] = "handler" /\ via'[m] = s
      BY DEF Inflight
    <3>2. at[m] = "handler" /\ via[m] = s
      BY <1>1, <3>1, AtStep DEF OwedInv
    <3>3. QED
      BY <2>4, <3>1, <3>2 DEF OwedInv, Inflight
  <2>5. QED
    BY <2>1, <2>3, <2>4 DEF OwedInv
<1>2. CASE ServerStep
  <2>1. UNCHANGED <<at, via>> /\ \A s \in Server : Inflight(s)' = Inflight(s)
    BY <1>2, ServerFrame DEF Inflight
  <2>2. PICK s \in Server :
          \/ start(s) \/ StartAtOnce(s) \/ Registers(s) \/ RegisterFails(s)
          \/ TransportStarts(s) \/ StartReturns(s) \/ StopReturns(s)
          \/ stop(s) \/ Drained(s) \/ DrainExpires(s)
    BY <1>2 DEF ServerStep
  <2>3. \A t \in Server \ {s} : owed'[t] = owed[t] /\ step'[t] = step[t]
                               /\ (t \in expired' <=> t \in expired)
    BY <2>2 DEF TypeOK, start, StartAtOnce, Registers, RegisterFails, TransportStarts,
         StartReturns, StopReturns, stop, Drained, DrainExpires, TransportStops, At
  <2>4. CASE stop(s) /\ core[s] = "started" /\ owed'[s] = Inflight(s)
    <3>1. \A m \in owed'[s] : at'[m] \in {"handler", "returned", "done"}
      BY <2>1, <2>4 DEF Inflight
    <3>2. step'[s] # "drain" => owed'[s] = {}
      BY <2>4 DEF TypeOK, stop, At
    <3>3. QED
      BY <2>1, <2>3, <3>1, <3>2 DEF OwedInv
  <2>5. CASE owed'[s] = owed[s] /\ expired' = expired /\ (step'[s] # "drain" => step[s] # "drain")
    BY <2>1, <2>3, <2>5 DEF OwedInv
  <2>6. CASE Drained(s)
    <3>1. owed'[s] = owed[s] /\ Inflight(s) = {}
      BY <2>6 DEF Drained
    <3>2. QED
      BY <2>1, <2>3, <3>1 DEF OwedInv
  <2>7. CASE DrainExpires(s)
    <3>1. owed'[s] = owed[s] /\ s \in expired'
      BY <2>7 DEF DrainExpires
    <3>2. QED
      BY <2>1, <2>3, <3>1 DEF OwedInv
  <2>8. CASE stop(s) /\ core[s] = "started"
    <3>1. owed'[s] = Inflight(s)
      BY <2>8 DEF stop, TypeOK
    <3>2. QED
      BY <2>4, <2>8, <3>1
  <2>9. CASE stop(s) /\ core[s] # "started"
    BY <2>5, <2>9 DEF stop
  <2>10. CASE \/ start(s) \/ StartAtOnce(s) \/ Registers(s) \/ RegisterFails(s)
              \/ TransportStarts(s) \/ StartReturns(s) \/ StopReturns(s)
    BY <2>5, <2>10 DEF start, StartAtOnce, Registers, RegisterFails, TransportStarts,
         StartReturns, StopReturns, At
  <2>11. QED
    BY <2>2, <2>6, <2>7, <2>8, <2>9, <2>10
<1>3. CASE UNCHANGED vars
  BY <1>3 DEF vars, OwedInv, Inflight
<1>4. QED
  BY <1>1, <1>2, <1>3 DEF Next

-----------------------------------------------------------------------------
(* The theorems.                                                           *)

LEMMA InvStep == IInv /\ [Next]_vars => IInv'
BY TypeStep, SentStep, OwedStep, LanguageStep, PendingStep, OwnedStep DEF IInv

\* The inductive invariant holds, for any servers, services and messages and in
\* both languages.
THEOREM Invariance == Spec => []IInv
BY InitInv, InvStep, PTL DEF Spec

\* Type correctness of bus, servers, client and messages.
THEOREM TypeCorrect == Spec => []TypeOK
<1>1. IInv => TypeOK
  BY DEF IInv
<1>2. QED
  BY <1>1, Invariance, PTL

\* Who waits for a reply is found by the reply and by stop(), and nothing else is
\* left in the pending map (transport.ts, transport.py).
THEOREM PendingMap == Spec => []PendingIsWaiting
<1>1. IInv => PendingIsWaiting
  BY DEF IInv
<1>2. QED
  BY <1>1, Invariance, PTL

\* Bus and transports agree on who owns a service, whatever was refused before.
THEOREM Ownership == Spec => []BusIsOwned
<1>1. IInv => BusIsOwned
  BY DEF IInv
<1>2. QED
  BY <1>1, Invariance, PTL

\* stop() returns after the handlers it found in flight, or after its grace.
THEOREM Drain == Spec => []DrainedStop
<1>1. IInv => DrainedStop
  BY DEF IInv, OwedInv, DrainedStop
<1>2. QED
  BY <1>1, Invariance, PTL

-----------------------------------------------------------------------------
(* The refinement: what the caller sees, and what dispatchers complete.     *)

LEMMA ClientImplements ==
  ASSUME TypeOK, SentInv, LanguageInv, PendingIsWaiting, ClientStep
  PROVE  Contract!Next \/ UNCHANGED <<status, served>>
<1> USE DEF TypeOK, Msg
<1>1. CASE UNCHANGED <<status, served>>
  BY <1>1
<1>2. ASSUME NEW m \in Msg, status[m] = "unsent", status' = [status EXCEPT ![m] = "waiting"],
             UNCHANGED served
      PROVE  Contract!Next
  <2>1. Contract!Issue(m)
    BY <1>2 DEF Contract!Issue, Contract!Become
  <2>2. QED
    BY <2>1 DEF Contract!Next
<1>3. ASSUME NEW S \in SUBSET Msg, NEW o \in Contract!Outcome, \A m \in S : status[m] = "waiting",
             Ends(S, o), UNCHANGED served
      PROVE  Contract!Next
  BY <1>3 DEF Ends, Contract!Next, Contract!GiveUp, Contract!Become, Contract!Waiting
<1>4. ASSUME NEW c \in Call, Return(c), status[c] = "waiting" PROVE Contract!Next
  <2>1. CASE future[c] = "answered"
    <3>1. language = "py" /\ c \in served
      BY <2>1 DEF LanguageInv
    <3>2. {c} \in SUBSET (Contract!Waiting(Call) \cap served) /\ Contract!Become({c}, "answered")
      BY <1>4, <2>1, <3>1 DEF Return, Ends, Contract!Become, Contract!Waiting
    <3>3. QED
      BY <1>4, <3>2 DEF Return, Contract!Next, Contract!Answer
  <2>2. CASE future[c] \in {"failed", "stopped"}
    BY <1>3, <1>4, <2>2 DEF Return, Contract!Outcome
  <2>3. QED
    BY <1>4, <2>1, <2>2 DEF Return
<1>5. ASSUME NEW m \in Msg, Resolves(m) PROVE Contract!Next
  <2>1. CASE m \in Note /\ status' = [status EXCEPT ![m] = "sent"]
    <3>1. Contract!Confirm(m)
      BY <1>5, <2>1 DEF Resolves, Contract!Confirm, Contract!Become, Contract!Waiting
    <3>2. QED
      BY <2>1, <3>1 DEF Contract!Next
  <2>2. CASE status' = [status EXCEPT ![m] = "failed"]
    <3>1. {m} \in SUBSET Contract!Waiting(Call \cup Note) /\ Contract!Become({m}, "failed")
      BY <1>5, <2>2 DEF Resolves, Contract!Become, Contract!Waiting
    <3>2. QED
      BY <1>5, <3>1 DEF Resolves, Contract!Next, Contract!GiveUp, Contract!Outcome
  <2>3. QED
    BY <1>5, <2>1, <2>2 DEF Resolves
<1>6. CASE ClientStops
  <2>1. CASE Settle(pending, "stopped") /\ language = "ts" /\ UNCHANGED served
    <3>1. \A c \in pending : status[c] = "waiting"
      BY <2>1 DEF PendingIsWaiting
    <3>2. QED
      BY <1>3, <2>1, <3>1 DEF Settle, Contract!Outcome
  <2>2. QED
    BY <1>1, <1>6, <2>1 DEF ClientStops
<1>7. ASSUME NEW c \in Call, Send(c) \/ SendUnserved(c) PROVE Contract!Next
  BY <1>2, <1>7 DEF Send, SendUnserved
<1>8. ASSUME NEW n \in Note, Notify(n) PROVE Contract!Next
  BY <1>2, <1>8 DEF Notify
<1>9. ASSUME NEW c \in Call, Timeout(c) \/ TimesOut(c) \/ Cancel(c)
      PROVE  Contract!Next \/ UNCHANGED <<status, served>>
  <2>1. CASE Timeout(c)
    BY <1>1, <1>3, <2>1 DEF Timeout, Settle, SentInv, Contract!Outcome
  <2>2. CASE TimesOut(c)
    BY <1>3, <2>2 DEF TimesOut, Contract!Outcome
  <2>3. CASE Cancel(c)
    BY <1>3, <2>3 DEF Cancel, Contract!Outcome
  <2>4. QED
    BY <1>9, <2>1, <2>2, <2>3
<1>10. ASSUME NEW c \in Call, Return(c) PROVE Contract!Next
  BY <1>4, <1>10 DEF Return, SentInv
<1>11. QED
  BY <1>1, <1>5, <1>6, <1>7, <1>8, <1>9, <1>10
  DEF ClientStep, ClientStarts, ClientStartReturns, ClientStopReturns

LEMMA MessageImplements ==
  ASSUME TypeOK, SentInv, LanguageInv, OutcomeInv, PendingIsWaiting, MessageStep
  PROVE  Contract!Next \/ UNCHANGED <<status, served>>
<1> USE DEF TypeOK, Msg
<1>1. ASSUME NEW m \in Msg, at[m] = "handler", UNCHANGED status,
             served' = served \cup {m} \/ served' = served
      PROVE  Contract!Next \/ UNCHANGED <<status, served>>
  <2>1. status[m] # "unsent"
    BY <1>1 DEF SentInv
  <2>2. served' = served \cup {m} => Contract!Serve(m)
    BY <1>1, <2>1 DEF Contract!Serve
  <2>3. QED
    BY <1>1, <2>2 DEF Contract!Next
<1>2. ASSUME NEW m \in Msg, DispatcherReturns(m) \/ RunnerReturns(m)
      PROVE  Contract!Next \/ UNCHANGED <<status, served>>
  BY <1>1, <1>2 DEF DispatcherReturns, RunnerReturns, Came
<1>3. ASSUME NEW c \in Call, Replied(c), c \in pending
      PROVE  Contract!Next
  <2>1. status[c] = "waiting"
    BY <1>3 DEF PendingIsWaiting, LanguageInv, Replied
  <2>2. CASE outcome[c] = "reply"
    <3>1. {c} \in SUBSET (Contract!Waiting(Call) \cap served) /\ Contract!Become({c}, "answered")
      BY <1>3, <2>1, <2>2
      DEF OutcomeInv, Replied, Settle, Ends, Contract!Become, Contract!Waiting
    <3>2. QED
      BY <1>3, <3>1 DEF Replied, Contract!Next, Contract!Answer
  <2>3. CASE outcome[c] # "reply"
    <3>1. {c} \in SUBSET Contract!Waiting(Call \cup Note) /\ Contract!Become({c}, "failed")
      BY <1>3, <2>1, <2>3 DEF Replied, Settle, Ends, Contract!Become, Contract!Waiting
    <3>2. QED
      BY <1>3, <3>1 DEF Replied, Contract!Next, Contract!GiveUp, Contract!Outcome
  <2>4. QED
    BY <2>2, <2>3
<1>4. ASSUME NEW c \in Call, Replied(c) PROVE Contract!Next \/ UNCHANGED <<status, served>>
  BY <1>3, <1>4 DEF Replied
<1>5. QED
  BY <1>2, <1>4 DEF MessageStep, Dispatch

\* Both in-process transports implement RpcContract: every call is issued and
\* settles once, and is answered only when a dispatcher completed for it. That it
\* settles is left to the runs.
THEOREM Refinement == Spec => Contract!Spec
<1>1. Init => Contract!Init
  BY DEF Init, Contract!Init, Msg
<1>2. IInv /\ [Next]_vars => [Contract!Next]_(Contract!vars)
  <2> SUFFICES ASSUME IInv, [Next]_vars PROVE Contract!Next \/ UNCHANGED <<status, served>>
    BY DEF Contract!vars
  <2>1. CASE ServerStep
    BY <2>1, ServerFrame
  <2>2. CASE UNCHANGED vars
    BY <2>2 DEF vars
  <2>3. QED
    BY <2>1, <2>2, ClientImplements, MessageImplements DEF IInv, Next
<1>3. QED
  BY <1>1, <1>2, Invariance, PTL DEF Spec, Contract!Spec

\* From the contract: a call has one outcome, although replies come late and timers,
\* cancellations and stop() race them.
THEOREM SettlesOnce == Spec => Contract!SettledOnce
<1>1. [Contract!Next]_(Contract!vars)
        => [\A m \in Call \cup Note : status[m] \notin {"unsent", "waiting"}
                                        => status'[m] = status[m]]_(Contract!vars)
  BY DEF Contract!Next, Contract!Issue, Contract!Serve, Contract!Answer, Contract!Confirm,
         Contract!GiveUp, Contract!Refuse, Contract!Become, Contract!Waiting
<1>2. QED
  BY <1>1, Refinement, PTL DEF Contract!Spec, Contract!SettledOnce

\* And a caller is answered only when a handler has completed for this very call.
THEOREM AnswersAreGenuine == Spec => []Contract!AnsweredWasServed
<1> USE DEF Contract!AnsweredWasServed
<1>1. Contract!Init => Contract!AnsweredWasServed
  BY DEF Contract!Init
<1>2. Contract!AnsweredWasServed /\ [Contract!Next]_(Contract!vars) => Contract!AnsweredWasServed'
  <2> SUFFICES ASSUME Contract!AnsweredWasServed, Contract!Next
               PROVE  Contract!AnsweredWasServed'
    BY DEF Contract!vars
  <2>1. Call \cap Note = {}
    BY MemoryAssumption
  <2>2. QED
    BY <2>1 DEF Contract!Next, Contract!Issue, Contract!Serve, Contract!Answer,
                Contract!Confirm, Contract!GiveUp, Contract!Refuse, Contract!Become, Contract!Waiting,
                Contract!Outcome
<1>3. QED
  BY <1>1, <1>2, Refinement, PTL DEF Contract!Spec
=============================================================================
