-------------------------- MODULE RedisRunsProofs --------------------------
(***************************************************************************)
(* A proof, for every pool of servers and every bound, that a handler runs *)
(* once per message and once more per failure or slow entry. The argument  *)
(* keeps an account of every message: the runs it has had, the loops that  *)
(* still owe it a run, and whether Redis may hand it out again never add   *)
(* up to more than one plus the failures and the slow entries so far.      *)
(* With it comes a bound on the replies that are unread at one time, and   *)
(* from that a proof that no reply is lost.                                *)
(***************************************************************************)
EXTENDS RedisRpcProofs, FiniteSetTheorems

\* The loops that have m in their hands and have not dispatched it.
Owing(m) == {l \in Loop : m \in todo[l] \/ (cur[l] = m /\ at[l] = "dispatch")}

\* m can be handed out by XREADGROUP, or by XAUTOCLAIM now or once it is old enough.
Available(m) == m \in fresh \cup idle \/ (m \in pel /\ Orphaned(m))

Account(m) ==
  /\ IsFiniteSet(Owing(m))
  /\ runs[m] + Cardinality(Owing(m)) + (IF Available(m) THEN 1 ELSE 0)
       <= 1 + (faults + slow)

\* A batch never repeats the entry a loop is at, and is empty between two batches.
HandsInv ==
  \A l \in Loop : cur[l] \notin todo[l] /\ (at[l] \in {"off", "poll"} => todo[l] = {})

RunsInv ==
  /\ HandsInv
  /\ \A m \in Msg : runs[m] > 0 => InStream(m)
  /\ \A m \in Msg : Account(m)

USE DEF redisVars, clientVars, loopVars, historyVars, budget

-----------------------------------------------------------------------------
(* The ways an account can change.                                         *)

LEMMA AccountType ==
  ASSUME TypeOK, NEW m \in Msg
  PROVE  /\ runs[m] \in Nat /\ faults \in Nat /\ slow \in Nat
         /\ IsFiniteSet(Owing(m)) => Cardinality(Owing(m)) \in Nat
BY FS_CardinalityType, BoundsAssumption DEF TypeOK, HistoryTypeOK

\* Nothing new can happen to m, or a failure pays for it.
LEMMA AccountKept ==
  ASSUME TypeOK, TypeOK', NEW m \in Msg, Account(m), runs'[m] = runs[m],
         Owing(m)' \subseteq Owing(m),
         \/ (Available(m)' => Available(m)) /\ faults' + slow' >= faults + slow
         \/ faults' + slow' = faults + slow + 1
  PROVE  Account(m)'
<1>1. IsFiniteSet(Owing(m)') /\ Cardinality(Owing(m)') <= Cardinality(Owing(m))
  BY FS_Subset DEF Account
<1>2. /\ runs[m] \in Nat /\ faults \in Nat /\ slow \in Nat /\ faults' \in Nat
      /\ slow' \in Nat /\ Cardinality(Owing(m)) \in Nat /\ Cardinality(Owing(m)') \in Nat
  BY <1>1, AccountType, FS_CardinalityType, BoundsAssumption
  DEF Account, TypeOK, HistoryTypeOK
<1> DEFINE a == IF Available(m) THEN 1 ELSE 0
           b == IF Available(m)' THEN 1 ELSE 0
           p == faults + slow
           q == faults' + slow'
<1>3. a \in {0, 1} /\ b \in {0, 1} /\ p \in Nat /\ q \in Nat
  BY <1>2
<1>4. (b <= a /\ q >= p) \/ q = p + 1
  OBVIOUS
<1>5. runs[m] + Cardinality(Owing(m)) + a <= 1 + p
  BY DEF Account
<1> HIDE DEF a, b, p, q
<1>6. runs'[m] + Cardinality(Owing(m)') + b <= 1 + q
  BY <1>1, <1>2, <1>3, <1>4, <1>5
<1>7. QED
  BY <1>1, <1>6 DEF Account, b, q

\* A loop stops owing m a run: it has run it, or gives it back.
LEMMA AccountSettled ==
  ASSUME TypeOK, TypeOK', NEW m \in Msg, Account(m), UNCHANGED <<faults, slow>>,
         NEW l \in Owing(m), Owing(m)' \subseteq Owing(m) \ {l},
         \/ runs'[m] = runs[m]
         \/ runs'[m] = runs[m] + 1 /\ (Available(m)' => Available(m))
  PROVE  Account(m)'
<1>1. /\ IsFiniteSet(Owing(m) \ {l})
      /\ Cardinality(Owing(m) \ {l}) = Cardinality(Owing(m)) - 1
  BY FS_RemoveElement DEF Account
<1>2. IsFiniteSet(Owing(m)') /\ Cardinality(Owing(m)') <= Cardinality(Owing(m)) - 1
  BY <1>1, FS_Subset
<1>3. /\ runs[m] \in Nat /\ faults \in Nat /\ slow \in Nat
      /\ Cardinality(Owing(m)) \in Nat /\ Cardinality(Owing(m)') \in Nat
  BY <1>2, AccountType, FS_CardinalityType DEF Account
<1> DEFINE a == IF Available(m) THEN 1 ELSE 0
           b == IF Available(m)' THEN 1 ELSE 0
<1>5. runs[m] + Cardinality(Owing(m)) + a <= 1 + (faults + slow)
  BY DEF Account
<1>6. a \in {0, 1} /\ b \in {0, 1}
  OBVIOUS
<1>7. (Available(m)' => Available(m)) => b <= a
  OBVIOUS
<1> HIDE DEF a, b
<1>8. runs'[m] + Cardinality(Owing(m)') + b <= 1 + (faults + slow)
  BY <1>2, <1>3, <1>5, <1>6, <1>7
<1>9. QED
  BY <1>2, <1>8 DEF Account, b

\* A loop is handed m, which nobody else can then be handed.
LEMMA AccountTaken ==
  ASSUME TypeOK, TypeOK', NEW m \in Msg, Account(m), UNCHANGED <<faults, slow>>,
         runs'[m] = runs[m], Available(m), ~Available(m)',
         NEW l, Owing(m)' \subseteq Owing(m) \cup {l}
  PROVE  Account(m)'
<1>0. IsFiniteSet(Owing(m)) /\ Cardinality(Owing(m)) \in Nat
  BY AccountType DEF Account
<1>1. /\ IsFiniteSet(Owing(m) \cup {l})
      /\ Cardinality(Owing(m) \cup {l}) <= Cardinality(Owing(m)) + 1
  <2>1. /\ IsFiniteSet(Owing(m) \cup {l})
        /\ \/ Cardinality(Owing(m) \cup {l}) = Cardinality(Owing(m))
           \/ Cardinality(Owing(m) \cup {l}) = Cardinality(Owing(m)) + 1
    BY <1>0, FS_AddElement
  <2>2. QED
    BY <1>0, <2>1
<1>2. /\ IsFiniteSet(Owing(m)')
      /\ Cardinality(Owing(m)') <= Cardinality(Owing(m) \cup {l})
  BY <1>1, FS_Subset
<1>3. /\ runs[m] \in Nat /\ faults \in Nat /\ slow \in Nat
      /\ Cardinality(Owing(m)) \in Nat /\ Cardinality(Owing(m)') \in Nat
      /\ Cardinality(Owing(m) \cup {l}) \in Nat
  BY <1>1, <1>2, AccountType, FS_CardinalityType DEF Account
<1>4. runs[m] + Cardinality(Owing(m)) + 1 <= 1 + (faults + slow)
  BY DEF Account
<1>5. runs'[m] + Cardinality(Owing(m)') + 0 <= 1 + (faults + slow)
  BY <1>1, <1>2, <1>3, <1>4
<1>6. QED
  BY <1>2, <1>5 DEF Account

-----------------------------------------------------------------------------
(* The loops' hands.                                                       *)

LEMMA HandsStep ==
  ASSUME TypeOK, LoopInv, HandsInv, [Next]_vars
  PROVE  HandsInv'
<1> USE DEF TypeOK, ServerTypeOK
<1>0. \A l \in Loop : None \notin todo[l]
  BY MessagesAssumption
<1>1. ASSUME UNCHANGED <<at, cur, todo>> PROVE HandsInv'
  BY <1>1 DEF HandsInv
<1>2. ASSUME NEW l \in Loop, NEW S, Proceed(l, S) PROVE HandsInv'
  BY <1>2 DEF Proceed, HandsInv
<1>3. ASSUME NEW l \in Loop, Abandon(l) PROVE HandsInv'
  BY <1>3 DEF Abandon, HandsInv
<1>4. ASSUME NEW s \in Server, Start(s) PROVE HandsInv'
  <2>1. \A l \in Loop : l[1] = s => at[l] = "off"
    BY <1>4 DEF Start, LoopInv, LoopOK
  <2>2. QED
    BY <1>4, <2>1 DEF Start, HandsInv
<1>5. ASSUME NEW s \in Server, Crash(s) PROVE HandsInv'
  BY <1>5 DEF Crash, HandsInv
<1>6. ASSUME NEW l \in Loop, Dispatch(l) \/ Reply(l) \/ LoopExits(l) PROVE HandsInv'
  BY <1>6 DEF Dispatch, Reply, LoopExits, HandsInv
<1>7. CASE ServerNext
  <2>1. \A s \in Server : <<s, "consume">> \in Loop /\ <<s, "reclaim">> \in Loop
    BY DEF Loop
  <2>2. ASSUME NEW s \in Server, ReadGroup(s) \/ AutoClaim(s) PROVE HandsInv'
    BY <1>2, <2>1, <2>2 DEF ReadGroup, AutoClaim
  <2>3. ASSUME NEW s \in Server, ReadGroupFails(s) \/ StopServer(s) \/ StopServerReturns(s)
        PROVE  HandsInv'
    BY <1>1, <2>3 DEF ReadGroupFails, StopServer, StopServerReturns
  <2>4. ASSUME NEW l \in Loop, DispatchThrows(l) \/ ReplyFails(l) \/ AckFails(l)
        PROVE  HandsInv'
    BY <1>3, <2>4 DEF DispatchThrows, ReplyFails, AckFails
  <2>5. ASSUME NEW l \in Loop, Ack(l) PROVE HandsInv'
    BY <1>2, <2>5 DEF Ack
  <2>6. QED
    BY <1>4, <1>5, <1>6, <1>7, <2>2, <2>3, <2>4, <2>5 DEF ServerNext, LoopStep
<1>8. CASE ClientNext \/ RedisNext
  BY <1>1, <1>8, ClientFrame, RedisFrame
<1>9. QED
  BY <1>1, <1>7, <1>8 DEF Next, vars

\* What has run has been added to the stream.
LEMMA RanInStream ==
  ASSUME IInv, \A m \in Msg : runs[m] > 0 => InStream(m), [Next]_vars,
         NEW m \in Msg, runs'[m] > 0
  PROVE  InStream(m)'
<1> USE DEF IInv, TypeOK, ServerTypeOK, HistoryTypeOK
<1>1. CASE ServerNext
  <2>1. InStream(m)' <=> InStream(m)
    BY <1>1, ServerFrame DEF InStream
  <2>2. runs'[m] = runs[m] \/ \E l \in Loop : m \in Held(l)
    BY <1>1, HistoryStep, MessagesAssumption DEF Dispatch, Held
  <2>3. QED
    BY <2>1, <2>2 DEF EntryInv
<1>2. CASE ClientNext \/ RedisNext
  <2>1. UNCHANGED stream \/ \E n \in Msg : AddCommand(n)
    BY <1>2
    DEF ClientNext, RedisNext, SendThrows, Send, Timeout, Notify, XaddDone, XaddFails,
        RunReplyLoop,
        Stop, StopRejects, StopDeletes, StopReturns, ForeignAdd, OrphanTurnsIdle,
        HeldTurnsIdle, Msg
  <2>2. InStream(m) /\ RedisTypeOK
    BY <1>2, ClientFrame, RedisFrame
  <2>3. QED
    BY <2>1, <2>2, AddCommandInStream DEF InStream
<1>3. CASE UNCHANGED vars
  BY <1>3 DEF vars, InStream
<1>4. QED
  BY <1>1, <1>2, <1>3 DEF Next

-----------------------------------------------------------------------------
(* Every step keeps every account.                                         *)

\* Time and other programs, and the client: an entry that becomes available was
\* available, or is new, or is paid for.
LEMMA OutsideAccount ==
  ASSUME IInv, RunsInv, ClientNext \/ RedisNext, TypeOK', NEW m \in Msg
  PROVE  Account(m)'
<1> USE DEF IInv, RunsInv
<1>0. /\ UNCHANGED <<pel, at, cur, todo, runs>>
      /\ Owing(m)' = Owing(m) /\ Orphaned(m)' = Orphaned(m)
  <2>1. UNCHANGED <<pel, at, cur, todo, runs>>
    BY ClientFrame, RedisFrame
  <2>2. QED
    BY <2>1 DEF Owing, Orphaned, Held
<1>1. ASSUME UNCHANGED <<fresh, idle>>, faults' + slow' >= faults + slow
      PROVE  Account(m)'
  BY <1>0, <1>1, AccountKept DEF Available
<1>2. faults \in Nat /\ slow \in Nat
  BY AccountType
<1>3. ASSUME NEW n \in Msg, AddCommand(n), ~InStream(n), UNCHANGED <<idle, slow>>,
             faults' = faults \/ faults' = faults + 1
      PROVE  Account(m)'
  <2>1. CASE m # n
    <3>1. Available(m)' => Available(m)
      BY <1>0, <1>3, <2>1 DEF AddCommand, Available
    <3>2. QED
      BY <1>0, <1>2, <1>3, <3>1, AccountKept
  <2>2. CASE m = n
    <3>1. runs[m] = 0
      BY <1>3, <2>2, AccountType
    <3>2. Owing(m) = {}
      BY <1>3, <2>2, MessagesAssumption DEF EntryInv, Owing, Held
    <3>3. IsFiniteSet(Owing(m)') /\ Cardinality(Owing(m)') = 0
      BY <1>0, <3>2, FS_EmptySet
    <3>4. 0 + 0 + (IF Available(m)' THEN 1 ELSE 0) <= 1 + (faults' + slow')
      BY <1>2, <1>3
    <3>5. QED
      BY <1>0, <3>1, <3>3, <3>4 DEF Account
  <2>3. QED
    BY <2>1, <2>2
<1>4. CASE ClientNext
  <2>1. ASSUME NEW n \in Call \cup Note, XaddDone(n) \/ XaddFails(n) PROVE Account(m)'
    <3>1. n \in Msg /\ ~InStream(n) /\ UNCHANGED <<idle, slow>>
      BY <2>1 DEF XaddDone, XaddFails, EntryInv, Msg
    <3>2. faults' = faults \/ faults' = faults + 1
      BY <2>1 DEF XaddDone, XaddFails, Fault
    <3>3. CASE AddCommand(n)
      BY <1>3, <3>1, <3>2, <3>3
    <3>4. CASE UNCHANGED <<stream, fresh>>
      BY <1>1, <1>2, <3>1, <3>2, <3>4
    <3>5. QED
      BY <2>1, <3>3, <3>4 DEF XaddDone, XaddFails
  <2>2. ASSUME ~ \E n \in Call \cup Note : XaddDone(n) \/ XaddFails(n)
        PROVE  UNCHANGED <<fresh, idle, slow>> /\ (faults' = faults \/ faults' = faults + 1)
    BY <1>4, <2>2
    DEF ClientNext, Issuable, Send, SendThrows, Timeout, Notify, RunReplyLoop, Stop,
        StopRejects, StopDeletes, StopReturns, Fault
  <2>3. QED
    BY <1>1, <1>2, <2>1, <2>2
<1>5. ASSUME NEW j \in Junk, ForeignAdd(j) PROVE Account(m)'
  BY <1>3, <1>5 DEF ForeignAdd, Msg
<1>6. ASSUME NEW n \in Msg, OrphanTurnsIdle(n) PROVE Account(m)'
  <2>1. Available(m)' => Available(m)
    BY <1>0, <1>6 DEF OrphanTurnsIdle, Available
  <2>2. QED
    BY <1>0, <1>2, <1>6, <2>1, AccountKept DEF OrphanTurnsIdle
<1>7. ASSUME NEW n \in Msg, HeldTurnsIdle(n) PROVE Account(m)'
  <2>1. faults' + slow' = faults + slow + 1
    BY <1>2, <1>7 DEF HeldTurnsIdle
  <2>2. QED
    BY <1>0, <2>1, AccountKept
<1>8. QED
  BY <1>4, <1>5, <1>6, <1>7 DEF RedisNext

\* A loop that starts a batch it has taken from S owes a run for what it took only.
LEMMA TakeAccount ==
  ASSUME IInv, RunsInv, TypeOK', NEW m \in Msg,
         NEW l \in Loop, NEW batch \in SUBSET Msg, at[l] = "poll", Proceed(l, batch),
         batch # {}, \A x \in batch : Available(x),
         fresh' \cap batch = {} /\ idle' \cap batch = {},
         fresh' \subseteq fresh /\ idle' \subseteq idle,
         pel' \subseteq pel \cup batch,
         UNCHANGED <<runs, faults, slow>>
  PROVE  Account(m)'
<1> USE DEF IInv, RunsInv, TypeOK, ServerTypeOK
<1>1. cur[l] = None /\ todo[l] = {}
  BY DEF HandsInv
<1>2. \A k \in Loop \ {l} : at'[k] = at[k] /\ cur'[k] = cur[k] /\ todo'[k] = todo[k]
  BY DEF Proceed
<1>3. todo'[l] \subseteq batch /\ cur'[l] \in batch /\ batch \subseteq Held(l)'
  BY MessagesAssumption DEF Proceed, IsFirst, Held
<1>4. CASE m \in batch
  <2>1. Owing(m)' \subseteq Owing(m) \cup {l}
    BY <1>2 DEF Owing
  <2>2. ~Available(m)'
    BY <1>3, <1>4 DEF Available, Orphaned
  <2>3. QED
    BY <1>4, <2>1, <2>2, AccountTaken
<1>5. CASE m \notin batch
  <2>1. Owing(m)' \subseteq Owing(m)
    BY <1>2, <1>3, <1>5 DEF Owing
  <2>2. Orphaned(m)' => Orphaned(m)
    BY <1>1, <1>2 DEF Orphaned, Held
  <2>3. Available(m)' => Available(m)
    BY <1>5, <2>2 DEF Available
  <2>4. QED
    BY <2>1, <2>3, AccountKept, AccountType
<1>6. QED
  BY <1>4, <1>5

\* A step of loop l that takes nothing from Redis changes no other loop's account.
LEMMA LoopAccount ==
  ASSUME IInv, RunsInv, TypeOK', NEW m \in Msg, NEW l \in Loop,
         LoopStep(l) \/ LoopExits(l)
  PROVE  Account(m)'
<1> USE DEF IInv, RunsInv, TypeOK, ServerTypeOK
<1>0. faults \in Nat /\ slow \in Nat /\ None # m
  BY AccountType, MessagesAssumption
<1>1. CASE Dispatch(l)
  <2>1. Available(m)' => Available(m)
    BY <1>1 DEF Dispatch, Available, Orphaned, Held
  <2>2. CASE m = cur[l]
    <3>1. l \in Owing(m)
      BY <1>1, <2>2 DEF Dispatch, Owing
    <3>2. Owing(m)' \subseteq Owing(m) \ {l}
      BY <1>1, <2>2 DEF Dispatch, Owing, HandsInv
    <3>3. runs'[m] = runs[m] + 1
      BY <1>1, <2>2 DEF Dispatch, HistoryTypeOK
    <3>4. QED
      BY <1>1, <2>1, <3>1, <3>2, <3>3, AccountSettled DEF Dispatch
  <2>3. CASE m # cur[l]
    <3>1. runs'[m] = runs[m] /\ Owing(m)' \subseteq Owing(m)
      BY <1>1, <2>3 DEF Dispatch, Owing, HistoryTypeOK
    <3>2. faults' + slow' >= faults + slow
      BY <1>0, <1>1 DEF Dispatch
    <3>3. QED
      BY <2>1, <3>1, <3>2, AccountKept
  <2>4. QED
    BY <2>2, <2>3
<1>2. CASE DispatchThrows(l)
  <2>0. Abandon(l) /\ UNCHANGED <<fresh, pel, idle, runs, faults, slow>>
    BY <1>2 DEF DispatchThrows
  <2>1. CASE m \in Held(l)
    <3>1. l \in Owing(m)
      BY <1>2, <2>1 DEF DispatchThrows, Held, Owing
    <3>2. Owing(m)' \subseteq Owing(m) \ {l}
      BY <1>0, <2>0 DEF Abandon, Owing
    <3>3. QED
      BY <2>0, <3>1, <3>2, AccountSettled
  <2>2. CASE m \notin Held(l)
    <3>1. Owing(m)' \subseteq Owing(m)
      BY <1>0, <2>0 DEF Abandon, Owing
    <3>2. Orphaned(m)' => Orphaned(m)
      BY <2>0, <2>2 DEF Abandon, Orphaned, Held
    <3>3. Available(m)' => Available(m)
      BY <2>0, <3>2 DEF Available
    <3>4. faults' + slow' >= faults + slow
      BY <1>0, <2>0
    <3>5. QED
      BY <2>0, <3>1, <3>3, <3>4, AccountKept
  <2>3. QED
    BY <2>1, <2>2
<1>3. CASE Reply(l) \/ LoopExits(l)
  <2>1. UNCHANGED <<fresh, pel, idle, cur, todo, runs, faults, slow>>
    BY <1>3 DEF Reply, LoopExits
  <2>2. Owing(m)' \subseteq Owing(m)
    BY <1>3, <2>1 DEF Reply, LoopExits, Owing
  <2>3. Available(m)' => Available(m)
    BY <2>1 DEF Available, Orphaned, Held
  <2>4. faults' + slow' >= faults + slow
    BY <1>0, <2>1
  <2>5. QED
    BY <2>1, <2>2, <2>3, <2>4, AccountKept
<1>4. CASE Ack(l)
  <2>0. /\ at[l] = "ack" /\ RemovePending(cur[l]) /\ Proceed(l, todo[l])
        /\ UNCHANGED <<fresh, runs, faults, slow>>
    BY <1>4 DEF Ack
  <2>1. \A k \in Loop \ {l} : at'[k] = at[k] /\ cur'[k] = cur[k] /\ todo'[k] = todo[k]
    BY <2>0 DEF Proceed
  <2>2. todo'[l] \cup ({cur'[l]} \ {None}) = todo[l]
    BY <1>0, <2>0, MessagesAssumption DEF Proceed, IsFirst
  <2>3. Owing(m)' \subseteq Owing(m)
    BY <1>0, <2>1, <2>2 DEF Owing
  <2>4. m # cur[l] => (Orphaned(m)' => Orphaned(m))
    BY <2>1, <2>2 DEF Orphaned, Held
  <2>5. Available(m)' => Available(m)
    BY <2>0, <2>4 DEF Available, RemovePending
  <2>6. faults' + slow' >= faults + slow
    BY <1>0, <2>0
  <2>7. QED
    BY <2>0, <2>3, <2>5, <2>6, AccountKept
<1>5. QED
  BY <1>1, <1>2, <1>3, <1>4 DEF LoopStep

LEMMA ServerAccount ==
  ASSUME IInv, RunsInv, ServerNext, TypeOK', NEW m \in Msg
  PROVE  Account(m)'
<1> USE DEF IInv, RunsInv, TypeOK, ServerTypeOK
<1>0. faults \in Nat /\ slow \in Nat /\ None # m /\ idle \subseteq pel
  BY AccountType, MessagesAssumption DEF RedisTypeOK
<1>1. ASSUME NEW s \in Server, Start(s) \/ StopServer(s) \/ StopServerReturns(s)
      PROVE  Account(m)'
  <2>1. UNCHANGED <<fresh, pel, idle, cur, todo, runs, faults, slow>>
    BY <1>1 DEF Start, StopServer, StopServerReturns
  <2>2. Owing(m)' \subseteq Owing(m)
    BY <1>1, <2>1 DEF Start, StopServer, StopServerReturns, Owing
  <2>3. Available(m)' => Available(m)
    BY <2>1 DEF Available, Orphaned, Held
  <2>4. faults' + slow' >= faults + slow
    BY <1>0, <2>1
  <2>5. QED
    BY <2>1, <2>2, <2>3, <2>4, AccountKept
<1>2. ASSUME NEW s \in Server, ReadGroup(s) PROVE Account(m)'
  <2> DEFINE batch == FirstOf(fresh, BatchMax)
             l == <<s, "consume">>
  <2>1. l \in Loop /\ batch \subseteq fresh /\ fresh \subseteq Msg
    BY FirstOfSubset DEF Loop, RedisTypeOK
  <2>2. /\ at[l] = "poll" /\ Proceed(l, batch) /\ batch # {}
        /\ fresh' = fresh \ batch /\ pel' = pel \cup batch /\ idle' = idle
        /\ UNCHANGED <<runs, faults, slow>>
    BY <1>2 DEF ReadGroup
  <2>3. idle \cap batch = {}
    BY <1>0, <2>1 DEF ExclusiveInv
  <2>4. \A x \in batch : Available(x)
    BY <2>1 DEF Available
  <2> HIDE DEF batch, l
  <2>5. QED
    BY <2>1, <2>2, <2>3, <2>4, TakeAccount
<1>3. ASSUME NEW s \in Server, AutoClaim(s) PROVE Account(m)'
  <2> DEFINE batch == FirstOf(idle, ClaimMax)
             l == <<s, "reclaim">>
  <2>1. l \in Loop /\ batch \subseteq idle /\ idle \subseteq Msg
    BY FirstOfSubset DEF Loop, RedisTypeOK
  <2>2. /\ at[l] = "poll" /\ Proceed(l, batch) /\ batch # {}
        /\ idle' = idle \ batch /\ UNCHANGED <<fresh, pel, runs, faults, slow>>
    BY <1>3 DEF AutoClaim
  <2>3. fresh \cap batch = {}
    BY <1>0, <2>1 DEF ExclusiveInv
  <2>4. \A x \in batch : Available(x)
    BY <2>1 DEF Available
  <2> HIDE DEF batch, l
  <2>5. QED
    BY <2>1, <2>2, <2>3, <2>4, TakeAccount
<1>4. ASSUME Fault, slow' = slow, runs' = runs, Owing(m)' \subseteq Owing(m)
      PROVE  Account(m)'
  <2>1. faults' + slow' = faults + slow + 1
    BY <1>0, <1>4 DEF Fault
  <2>2. QED
    BY <1>4, <2>1, AccountKept
<1>5. ASSUME NEW s \in Server, ReadGroupFails(s) \/ Crash(s) PROVE Account(m)'
  <2>1. Fault /\ slow' = slow /\ runs' = runs
    BY <1>5 DEF ReadGroupFails, Crash
  <2>2. Owing(m)' \subseteq Owing(m)
    BY <1>0, <1>5 DEF ReadGroupFails, Crash, Owing
  <2>3. QED
    BY <1>4, <2>1, <2>2
<1>6. ASSUME NEW l \in Loop, ReplyFails(l) \/ AckFails(l) PROVE Account(m)'
  <2>1. Fault /\ slow' = slow /\ runs' = runs /\ Abandon(l)
    BY <1>6 DEF ReplyFails, AckFails
  <2>2. Owing(m)' \subseteq Owing(m)
    BY <1>0, <2>1 DEF Abandon, Owing
  <2>3. QED
    BY <1>4, <2>1, <2>2
<1>7. QED
  BY <1>1, <1>2, <1>3, <1>5, <1>6, LoopAccount DEF ServerNext

-----------------------------------------------------------------------------
(* The bound on runs.                                                      *)

LEMMA RunsInit == Init => RunsInv
<1> SUFFICES ASSUME Init PROVE RunsInv
  OBVIOUS
<1>1. HandsInv /\ \A m \in Msg : runs[m] = 0
  BY DEF Init, HandsInv
<1>2. ASSUME NEW m \in Msg PROVE Account(m)
  <2>1. Owing(m) = {}
    BY DEF Init, Owing
  <2>2. 0 + 0 + (IF Available(m) THEN 1 ELSE 0) <= 1 + (0 + 0)
    OBVIOUS
  <2>3. IsFiniteSet(Owing(m)) /\ Cardinality(Owing(m)) = 0
    BY <2>1, FS_EmptySet
  <2>4. faults = 0 /\ slow = 0
    BY DEF Init
  <2>5. QED
    BY <1>1, <2>2, <2>3, <2>4 DEF Account
<1>3. QED
  BY <1>1, <1>2 DEF RunsInv

LEMMA RunsStep == IInv /\ RunsInv /\ [Next]_vars => RunsInv'
<1> SUFFICES ASSUME IInv, RunsInv, [Next]_vars PROVE RunsInv'
  OBVIOUS
<1>1. TypeOK /\ TypeOK' /\ LoopInv
  BY InvStep DEF IInv
<1>2. HandsInv'
  BY <1>1, HandsStep DEF RunsInv
<1>3. \A m \in Msg : runs'[m] > 0 => InStream(m)'
  BY RanInStream DEF RunsInv
<1>4. ASSUME NEW m \in Msg PROVE Account(m)'
  <2>1. CASE UNCHANGED vars
    BY <2>1 DEF vars, RunsInv, Account, Owing, Available, Orphaned, Held
  <2>2. QED
    BY <1>1, <2>1, OutsideAccount, ServerAccount DEF Next
<1>5. QED
  BY <1>2, <1>3, <1>4 DEF RunsInv

LEMMA RunsOfAMessage ==
  ASSUME IInv, RunsInv, NEW m \in Msg
  PROVE  runs[m] <= 1 + faults + slow
<1>1. /\ runs[m] \in Nat /\ faults \in Nat /\ slow \in Nat
      /\ Cardinality(Owing(m)) \in Nat
  BY AccountType DEF IInv, RunsInv, Account
<1>2. ASSUME NEW a \in {0, 1},
             runs[m] + Cardinality(Owing(m)) + a <= 1 + (faults + slow)
      PROVE  runs[m] <= 1 + faults + slow
  BY <1>1, <1>2
<1>3. (IF Available(m) THEN 1 ELSE 0) \in {0, 1}
  OBVIOUS
<1>4. QED
  BY <1>2, <1>3 DEF RunsInv, Account

\* handleEntry completes the dispatch of a message once, and again only for a failure
\* (of a command, of a process, or to write a reply) or for an entry whose idle time ran
\* out in a loop's hands: the group, XAUTOCLAIM and a batch abandoned because of another
\* message never repeat it by themselves.
THEOREM BoundedRuns == Spec => []RunsAreBounded
<1>1. IInv /\ RunsInv => RunsAreBounded
  BY RunsOfAMessage DEF RunsAreBounded
<1>2. QED
  BY <1>1, RunsInit, RunsStep, Invariance, PTL DEF Spec

-----------------------------------------------------------------------------
(* No reply is lost: each reply that is unread, or that a loop is about to *)
(* write, is of a run of its own.                                          *)

\* The unread replies to c, and the loops about to write one.
Unread(c) == {i \in 1..Len(replies) : replies[i] = c}
Replying(c) == {l \in Loop : at[l] = "reply" /\ cur[l] = c}

\* Every reply to c, unread or about to be written, is of a run of its own.
UnreadOK(c) ==
  /\ IsFiniteSet(Replying(c))
  /\ Cardinality(Unread(c)) + Cardinality(Replying(c)) <= runs[c]

UnreadInv ==
  /\ \A c \in replied : runs[c] > 0
  /\ \A c \in Call : UnreadOK(c)

\* MAXLEN leaves room for one more reply.
RepliesFit == Len(replies) < ReplyMaxLen

LEMMA UnreadFinite ==
  ASSUME replies \in Seq(Call), NEW c
  PROVE  IsFiniteSet(Unread(c)) /\ Cardinality(Unread(c)) \in Nat
<1>1. IsFiniteSet(1..Len(replies))
  BY FS_Interval
<1>2. Unread(c) \in SUBSET (1..Len(replies))
  BY DEF Unread
<1>3. QED
  BY <1>1, <1>2, FS_Subset, FS_CardinalityType

\* A set of positions that can all be shifted into a finite one is no larger.
LEMMA ShiftBound ==
  ASSUME NEW n \in Nat, NEW S \in SUBSET Int, NEW T, IsFiniteSet(T),
         \A i \in S : i + n \in T
  PROVE  IsFiniteSet(S) /\ Cardinality(S) <= Cardinality(T)
<1> DEFINE f == [i \in S |-> i + n]
<1>1. f \in Injection(S, T)
  BY DEF Injection, IsInjective
<1> HIDE DEF f
<1>2. QED
  BY <1>1, FS_Injection

\* What is left of the replies after the first n of them holds no more replies to c.
LEMMA UnreadShrinks ==
  ASSUME replies \in Seq(Call), NEW c, NEW n \in 0..Len(replies),
         NEW rest, rest = SubSeq(replies, n + 1, Len(replies)),
         NEW S, S = {i \in 1..Len(rest) : rest[i] = c}
  PROVE  IsFiniteSet(S) /\ Cardinality(S) <= Cardinality(Unread(c))
<1>1. n \in Nat /\ S \in SUBSET Int /\ \A i \in S : i + n \in Unread(c)
  BY DEF Unread
<1>2. IsFiniteSet(Unread(c))
  BY UnreadFinite
<1>3. QED
  BY <1>1, <1>2, ShiftBound, Zenon

\* Nothing is written, and no loop comes to owe a reply.
LEMMA UnreadKept ==
  ASSUME TypeOK, TypeOK', NEW c \in Call, UnreadOK(c), runs'[c] >= runs[c],
         Replying(c)' \subseteq Replying(c),
         NEW n \in Nat, \A i \in Unread(c)' : i + n \in Unread(c)
  PROVE  UnreadOK(c)'
<1>1. replies \in Seq(Call)
  BY DEF TypeOK, RedisTypeOK
<1>2. IsFiniteSet(Unread(c)') /\ Cardinality(Unread(c)') <= Cardinality(Unread(c))
  <2>1. Unread(c)' \in SUBSET Int
    BY DEF Unread
  <2>2. IsFiniteSet(Unread(c))
    BY <1>1, UnreadFinite
  <2>3. QED
    BY <2>1, <2>2, ShiftBound, Zenon
<1>3. IsFiniteSet(Replying(c)') /\ Cardinality(Replying(c)') <= Cardinality(Replying(c))
  BY FS_Subset DEF UnreadOK
<1>4. /\ Cardinality(Unread(c)) \in Nat /\ Cardinality(Unread(c)') \in Nat
      /\ Cardinality(Replying(c)) \in Nat /\ Cardinality(Replying(c)') \in Nat
      /\ runs[c] \in Nat /\ runs'[c] \in Nat
  BY <1>1, <1>2, <1>3, UnreadFinite, FS_CardinalityType
  DEF UnreadOK, TypeOK, HistoryTypeOK, Msg
<1>5. Cardinality(Unread(c)) + Cardinality(Replying(c)) <= runs[c]
  BY DEF UnreadOK
<1>6. Cardinality(Unread(c)') + Cardinality(Replying(c)') <= runs'[c]
  BY <1>2, <1>3, <1>4, <1>5
<1>7. QED
  BY <1>3, <1>6 DEF UnreadOK

\* A loop writes the reply it owed.
LEMMA UnreadWritten ==
  ASSUME TypeOK, TypeOK', NEW c \in Call, UnreadOK(c), runs'[c] = runs[c],
         NEW l \in Replying(c), Replying(c)' \subseteq Replying(c) \ {l},
         NEW n \in 0..Len(replies),
         replies' = Append(SubSeq(replies, n + 1, Len(replies)), c)
  PROVE  UnreadOK(c)'
<1> DEFINE rest == SubSeq(replies, n + 1, Len(replies))
           left == {i \in 1..Len(rest) : rest[i] = c}
<1>1. replies \in Seq(Call) /\ rest \in Seq(Call) /\ replies' = Append(rest, c)
  BY DEF TypeOK, RedisTypeOK
<1>2. IsFiniteSet(left) /\ Cardinality(left) <= Cardinality(Unread(c))
  BY <1>1, UnreadShrinks
<1> HIDE DEF rest
<1>3. Unread(c)' = left \cup {Len(rest) + 1} /\ Len(rest) + 1 \notin left
  <2>1. /\ Len(Append(rest, c)) = Len(rest) + 1 /\ Append(rest, c)[Len(rest) + 1] = c
        /\ \A i \in 1..Len(rest) : Append(rest, c)[i] = rest[i]
        /\ Len(rest) \in Nat
    BY <1>1
  <2>2. Unread(c)' = {i \in 1..Len(Append(rest, c)) : Append(rest, c)[i] = c}
    BY <1>1 DEF Unread
  <2>3. \A i : i \in 1..(Len(rest) + 1) <=> i \in 1..Len(rest) \/ i = Len(rest) + 1
    BY <2>1
  <2>4. Len(rest) + 1 \notin 1..Len(rest)
    BY <2>1
  <2>5. QED
    BY <2>1, <2>2, <2>3, <2>4
<1> HIDE DEF left
<1>4. Cardinality(Unread(c)') = Cardinality(left) + 1
  BY <1>2, <1>3, FS_AddElement
<1>5. /\ IsFiniteSet(Replying(c) \ {l})
      /\ Cardinality(Replying(c) \ {l}) = Cardinality(Replying(c)) - 1
  BY FS_RemoveElement DEF UnreadOK
<1>6. /\ IsFiniteSet(Replying(c)')
      /\ Cardinality(Replying(c)') <= Cardinality(Replying(c)) - 1
  BY <1>5, FS_Subset
<1>7. /\ Cardinality(Unread(c)) \in Nat /\ Cardinality(left) \in Nat
      /\ Cardinality(Replying(c)) \in Nat /\ Cardinality(Replying(c)') \in Nat
      /\ runs[c] \in Nat
  BY <1>1, <1>2, <1>6, UnreadFinite, FS_CardinalityType
  DEF UnreadOK, TypeOK, HistoryTypeOK, Msg
<1>8. Cardinality(Unread(c)) + Cardinality(Replying(c)) <= runs[c]
  BY DEF UnreadOK
<1>9. Cardinality(Unread(c)') + Cardinality(Replying(c)') <= runs'[c]
  BY <1>2, <1>4, <1>6, <1>7, <1>8
<1>10. QED
  BY <1>6, <1>9 DEF UnreadOK

\* A dispatch that returns a reply leaves one to be written.
LEMMA UnreadOwed ==
  ASSUME TypeOK, NEW c \in Call, UnreadOK(c), runs'[c] = runs[c] + 1,
         NEW l, Replying(c)' \subseteq Replying(c) \cup {l}, replies' = replies
  PROVE  UnreadOK(c)'
<1>1. Unread(c)' = Unread(c)
  BY DEF Unread
<1>2. replies \in Seq(Call)
  BY DEF TypeOK, RedisTypeOK
<1>3. /\ IsFiniteSet(Replying(c)) /\ Cardinality(Replying(c)) \in Nat
      /\ Cardinality(Unread(c)) \in Nat /\ runs[c] \in Nat
  BY <1>2, UnreadFinite, FS_CardinalityType DEF UnreadOK, TypeOK, HistoryTypeOK, Msg
<1>4. /\ IsFiniteSet(Replying(c) \cup {l})
      /\ \/ Cardinality(Replying(c) \cup {l}) = Cardinality(Replying(c))
         \/ Cardinality(Replying(c) \cup {l}) = Cardinality(Replying(c)) + 1
  BY <1>3, FS_AddElement
<1>5. /\ IsFiniteSet(Replying(c)') /\ Cardinality(Replying(c)') \in Nat
      /\ Cardinality(Replying(c)') <= Cardinality(Replying(c) \cup {l})
  BY <1>4, FS_Subset, FS_CardinalityType
<1>6. Cardinality(Unread(c)) + Cardinality(Replying(c)) <= runs[c]
  BY DEF UnreadOK
<1>7. Cardinality(Unread(c)) + Cardinality(Replying(c)') <= runs[c] + 1
  BY <1>3, <1>4, <1>5, <1>6
<1>8. QED
  BY <1>1, <1>5, <1>7 DEF UnreadOK

\* What a server does to the replies: it leaves them, or one loop adds its own.
LEMMA ServerReplies ==
  ASSUME TypeOK, ServerNext
  PROVE  \/ replies' = replies
         \/ \E l \in Loop :
              /\ at[l] = "reply" /\ AddReply(cur[l]) /\ at'[l] # "reply"
              /\ runs' = runs
              /\ \A k \in Loop : at'[k] = "reply" => at[k] = "reply" /\ cur'[k] = cur[k]
<1> USE DEF TypeOK, ServerTypeOK
<1>1. ASSUME NEW l \in Loop, Reply(l) \/ ReplyFails(l)
      PROVE  \/ replies' = replies
             \/ /\ at[l] = "reply" /\ AddReply(cur[l]) /\ at'[l] # "reply"
                /\ runs' = runs
                /\ \A k \in Loop :
                     at'[k] = "reply" => at[k] = "reply" /\ cur'[k] = cur[k]
  BY <1>1 DEF Reply, ReplyFails, Abandon
<1>2. ASSUME ~ \E l \in Loop : Reply(l) \/ ReplyFails(l) PROVE replies' = replies
  BY <1>2 DEF ServerNext, LoopStep, Start, ReadGroup, ReadGroupFails, AutoClaim,
              StopServer, StopServerReturns, Crash, Dispatch, DispatchThrows, Ack,
              AckFails, LoopExits
<1>3. QED
  BY <1>1, <1>2

\* A loop comes to owe a reply only by the dispatch it is for.
LEMMA ServerReplying ==
  ASSUME TypeOK, ServerNext, NEW c \in Call
  PROVE  \/ Replying(c)' \subseteq Replying(c) /\ runs'[c] >= runs[c]
         \/ /\ \E l \in Loop : Replying(c)' \subseteq Replying(c) \cup {l}
            /\ runs'[c] = runs[c] + 1 /\ replies' = replies
<1> USE DEF TypeOK, ServerTypeOK, HistoryTypeOK
<1>1. c \in Msg /\ runs[c] \in Nat
  BY DEF Msg
<1>2. ASSUME NEW l \in Loop, Dispatch(l)
      PROVE  \/ Replying(c)' \subseteq Replying(c) /\ runs'[c] >= runs[c]
             \/ /\ Replying(c)' \subseteq Replying(c) \cup {l}
                /\ runs'[c] = runs[c] + 1 /\ replies' = replies
  <2>1. \A k \in Loop \ {l} : at'[k] = at[k] /\ cur'[k] = cur[k]
    BY <1>2 DEF Dispatch
  <2>2. Replying(c)' \subseteq Replying(c) \cup {l}
    BY <2>1 DEF Replying
  <2>3. CASE cur[l] = c
    BY <1>1, <1>2, <2>2, <2>3 DEF Dispatch
  <2>4. CASE cur[l] # c
    <3>1. runs'[c] = runs[c] /\ cur'[l] # c
      BY <1>1, <1>2, <2>4 DEF Dispatch
    <3>2. QED
      BY <1>1, <2>2, <3>1 DEF Replying
  <2>5. QED
    BY <2>3, <2>4
<1>3. ASSUME ~ \E l \in Loop : Dispatch(l)
      PROVE  Replying(c)' \subseteq Replying(c) /\ runs'[c] >= runs[c]
  <2>1. runs' = runs
    BY <1>3, HistoryStep
  <2>2. \A k \in Loop : at'[k] = "reply" => at[k] = "reply" /\ cur'[k] = cur[k]
    <3>1. ASSUME NEW t \in Server,
                 \/ Start(t) \/ ReadGroup(t) \/ ReadGroupFails(t) \/ AutoClaim(t)
                 \/ StopServer(t) \/ StopServerReturns(t) \/ Crash(t),
                 NEW k \in Loop, at'[k] = "reply"
          PROVE  at[k] = "reply" /\ cur'[k] = cur[k]
      BY <3>1 DEF Start, ReadGroup, ReadGroupFails, AutoClaim, StopServer,
                  StopServerReturns, Crash, Proceed
    <3>2. ASSUME NEW l \in Loop,
                 \/ DispatchThrows(l) \/ Reply(l) \/ Ack(l) \/ ReplyFails(l)
                 \/ AckFails(l) \/ LoopExits(l),
                 NEW k \in Loop, at'[k] = "reply"
          PROVE  at[k] = "reply" /\ cur'[k] = cur[k]
      BY <3>2 DEF DispatchThrows, Reply, Ack, ReplyFails, AckFails, LoopExits, Abandon,
                  Proceed
    <3>3. QED
      BY <1>3, <3>1, <3>2 DEF ServerNext, LoopStep
  <2>3. QED
    BY <1>1, <2>1, <2>2 DEF Replying
<1>4. QED
  BY <1>2, <1>3

LEMMA UnreadStep ==
  ASSUME IInv, UnreadInv, TypeOK', [Next]_vars
  PROVE  UnreadInv'
<1> USE DEF IInv
<1>0. replies \in Seq(Call)
  BY DEF TypeOK, RedisTypeOK
<1>1. ASSUME NEW c \in replied' PROVE runs'[c] > 0
  <2>1. c \in Call
    BY DEF TypeOK, HistoryTypeOK
  <2>2. CASE Next
    <3>1. runs[c] > 0 => runs'[c] > 0
      BY <2>1, <2>2, ServedMonotone DEF Msg
    <3>2. c \in replied \/ runs[c] > 0
      <4>1. CASE ServerNext
        BY <4>1, HistoryStep DEF LoopInv, LoopOK
      <4>2. CASE ClientNext \/ RedisNext
        BY <4>2, ClientFrame, RedisFrame
      <4>3. QED
        BY <2>2, <4>1, <4>2 DEF Next
    <3>3. QED
      BY <3>1, <3>2 DEF UnreadInv
  <2>3. CASE UNCHANGED vars
    BY <2>3 DEF vars, UnreadInv
  <2>4. QED
    BY <2>2, <2>3
<1>2. ASSUME NEW c \in Call PROVE UnreadOK(c)'
  <2>0. UnreadOK(c) /\ c \in Msg /\ runs[c] \in Nat
    BY DEF UnreadInv, Msg, TypeOK, HistoryTypeOK
  <2>1. ASSUME replies' = replies, Replying(c)' \subseteq Replying(c), runs'[c] >= runs[c]
        PROVE  UnreadOK(c)'
    <3>1. Unread(c)' = Unread(c) /\ \A i \in Unread(c) : i + 0 = i
      BY <2>1 DEF Unread
    <3>2. 0 \in Nat /\ \A i \in Unread(c)' : i + 0 \in Unread(c)
      BY <3>1
    <3>3. QED
      BY <2>0, <2>1, <3>2, UnreadKept
  <2>2. CASE ClientNext \/ RedisNext
    <3>1. UNCHANGED <<at, cur, runs>>
      BY <2>2, ClientFrame, RedisFrame
    <3>2. Replying(c)' \subseteq Replying(c) /\ runs'[c] >= runs[c]
      BY <2>0, <3>1 DEF Replying
    <3>3. \/ replies' = replies
          \/ replies' = <<>>
          \/ \E n \in 1..Len(replies) : replies' = SubSeq(replies, n + 1, Len(replies))
      BY <2>2, RedisFrame
      DEF ClientNext, Issuable, Send, SendThrows, Timeout, Notify, XaddDone, XaddFails,
          RunReplyLoop, Stop, StopRejects, StopDeletes, StopReturns
    <3>4. CASE replies' = <<>>
      <4>1. 0 \in Nat /\ \A i \in Unread(c)' : i + 0 \in Unread(c)
        BY <3>4 DEF Unread
      <4>2. QED
        BY <2>0, <3>2, <4>1, UnreadKept
    <3>5. ASSUME NEW n \in 1..Len(replies), replies' = SubSeq(replies, n + 1, Len(replies))
          PROVE  UnreadOK(c)'
      <4>1. n \in Nat /\ \A i \in Unread(c)' : i + n \in Unread(c)
        BY <1>0, <3>5 DEF Unread
      <4>2. QED
        BY <2>0, <3>2, <4>1, UnreadKept
    <3>6. QED
      BY <2>1, <3>2, <3>3, <3>4, <3>5
  <2>3. CASE ServerNext
    <3>1. CASE replies' = replies
      BY <2>0, <2>1, <2>3, <3>1, ServerReplying, UnreadOwed
    <3>2. ASSUME NEW l \in Loop, at[l] = "reply", AddReply(cur[l]), at'[l] # "reply",
                 runs' = runs,
                 \A k \in Loop : at'[k] = "reply" => at[k] = "reply" /\ cur'[k] = cur[k]
          PROVE  UnreadOK(c)'
      <4>1. PICK n \in 0..Len(replies) :
               replies' = Append(SubSeq(replies, n + 1, Len(replies)), cur[l])
        BY <3>2 DEF AddReply
      <4>2. Replying(c)' \subseteq Replying(c) \ {l}
        BY <3>2 DEF Replying
      <4>3. CASE c = cur[l]
        <5>1. l \in Replying(c)
          BY <3>2, <4>3 DEF Replying
        <5>2. QED
          BY <2>0, <3>2, <4>1, <4>2, <4>3, <5>1, UnreadWritten
      <4>4. CASE c # cur[l]
        <5>0. cur[l] \in Call
          BY <3>2 DEF LoopInv, LoopOK
        <5>1. n \in Nat /\ \A i \in Unread(c)' : i + n \in Unread(c)
          BY <1>0, <4>1, <4>4, <5>0 DEF Unread
        <5>2. QED
          BY <2>0, <3>2, <4>2, <5>1, UnreadKept
      <4>5. QED
        BY <4>3, <4>4
    <3>3. QED
      BY <2>3, <3>1, <3>2, ServerReplies
  <2>4. CASE UNCHANGED vars
    <3>1. replies' = replies /\ Replying(c)' \subseteq Replying(c) /\ runs'[c] >= runs[c]
      BY <2>0, <2>4 DEF vars, Replying
    <3>2. QED
      BY <2>1, <3>1
  <2>5. QED
    BY <2>2, <2>3, <2>4 DEF Next
<1>3. QED
  BY <1>1, <1>2 DEF UnreadInv

LEMMA UnreadInit == Init => UnreadInv
<1> SUFFICES ASSUME Init, NEW c \in Call PROVE UnreadOK(c)
  BY DEF Init, UnreadInv
<1>1. Unread(c) = {} /\ Replying(c) = {} /\ runs[c] = 0
  BY DEF Init, Unread, Replying, Msg
<1>2. QED
  BY <1>1, FS_EmptySet DEF UnreadOK

\* As long as MAXLEN leaves room for it, a reply to a waiting call stays unread until
\* the reply loop comes to it.
LEMMA NoReplyLostStep ==
  ASSUME IInv, RunsInv, UnreadInv, RepliesFit, NoReplyLost, [Next]_vars
  PROVE  NoReplyLost'
<1> USE DEF IInv
<1> SUFFICES ASSUME client' \in {"started", "aborting"}, NEW c \in replied',
                    status'[c] = "waiting"
             PROVE  \E i \in 1..Len(replies') : replies'[i] = c
  BY DEF NoReplyLost
<1>0. replies \in Seq(Call) /\ DOMAIN status = Call \cup Note /\ replied \subseteq Call
  BY DEF TypeOK, RedisTypeOK, ClientTypeOK, HistoryTypeOK
<1>1. ASSUME c \in replied, status[c] = "waiting", client \in {"started", "aborting"}
      PROVE  \E i \in 1..Len(replies) : replies[i] = c
  BY <1>1 DEF NoReplyLost
<1>2. CASE ClientNext
  <2>1. c \in replied /\ c \in Call
    BY <1>0, <1>2, ClientFrame
  <2>2. status[c] # "unsent"
    BY <2>1 DEF UnreadInv, RunsInv, EntryInv, Msg
  <2>3. client \in {"started", "aborting"} /\ status[c] = "waiting"
    BY <1>0, <1>2, <2>1, <2>2, MessagesAssumption
    DEF ClientNext, Issuable, Send, SendThrows, Timeout, Notify, XaddDone, XaddFails,
        RunReplyLoop, Stop, StopRejects, StopDeletes, StopReturns, Settle
  <2>4. CASE RunReplyLoop
    <3>1. PICK n \in 1..Len(replies) :
             /\ replies' = SubSeq(replies, n + 1, Len(replies))
             /\ Settle({d \in pending : \E i \in 1..n : replies[i] = d}, "answered")
      BY <2>4 DEF RunReplyLoop
    <3>2. c \in pending \ Refused
      BY <2>1, <2>3 DEF PendingIsWaiting
    <3>3. \A i \in 1..n : replies[i] # c
      BY <1>0, <2>1, <3>1, <3>2 DEF Settle
    <3>4. PICK i \in 1..Len(replies) : replies[i] = c
      BY <1>1, <2>1, <2>3
    <3>5. i - n \in 1..Len(replies') /\ replies'[i - n] = c
      BY <1>0, <3>1, <3>3, <3>4
    <3>6. QED
      BY <3>5
  <2>5. CASE ~RunReplyLoop
    <3>1. replies' = replies
      BY <1>2, <2>3, <2>5
      DEF ClientNext, Issuable, Send, SendThrows, Timeout, Notify, XaddDone, XaddFails,
          Stop, StopRejects, StopDeletes, StopReturns
    <3>2. QED
      BY <1>1, <2>1, <2>3, <3>1
  <2>6. QED
    BY <2>4, <2>5
<1>3. CASE ServerNext
  <2>1. UNCHANGED <<client, status>>
    BY <1>3, ServerFrame
  <2>2. CASE replies' = replies /\ replied' = replied
    BY <1>1, <2>1, <2>2
  <2>3. ASSUME NEW l \in Loop, at[l] = "reply", AddReply(cur[l])
        PROVE  \E i \in 1..Len(replies') : replies'[i] = c
    <3>1. replies' = Append(replies, cur[l]) /\ cur[l] \in Call
      <4>1. PICK k \in 0..Len(replies) :
              /\ k = 0 \/ Len(replies) + 1 - k >= ReplyMaxLen
              /\ replies' = Append(SubSeq(replies, k + 1, Len(replies)), cur[l])
        BY <2>3 DEF AddReply
      <4>2. k = 0
        BY <1>0, <4>1, BoundsAssumption DEF RepliesFit
      <4>3. SubSeq(replies, 1, Len(replies)) = replies
        BY <1>0
      <4>4. cur[l] \in Call
        BY <2>3 DEF LoopInv, LoopOK
      <4>5. QED
        BY <4>1, <4>2, <4>3, <4>4
    <3>2. CASE c = cur[l]
      <4>1. Len(replies) + 1 \in 1..Len(replies') /\ replies'[Len(replies) + 1] = c
        BY <1>0, <3>1, <3>2
      <4>2. QED
        BY <4>1
    <3>3. CASE c # cur[l]
      <4>1. c \in replied
        BY <2>3, <3>3 DEF AddReply
      <4>2. PICK i \in 1..Len(replies) : replies[i] = c
        BY <1>1, <2>1, <4>1
      <4>3. i \in 1..Len(replies') /\ replies'[i] = c
        BY <1>0, <3>1, <4>2
      <4>4. QED
        BY <4>3
    <3>4. QED
      BY <3>2, <3>3
  <2>4. \/ replies' = replies /\ replied' = replied
        \/ \E l \in Loop : at[l] = "reply" /\ AddReply(cur[l])
    BY <1>3 DEF ServerNext, LoopStep, Start, ReadGroup, ReadGroupFails, AutoClaim,
                StopServer, StopServerReturns, Crash, Dispatch, DispatchThrows, Reply,
                Ack, ReplyFails, AckFails, LoopExits
  <2>5. QED
    BY <2>2, <2>3, <2>4
<1>4. CASE RedisNext
  BY <1>1, <1>4, RedisFrame
<1>5. CASE UNCHANGED vars
  BY <1>1, <1>5 DEF vars
<1>6. QED
  BY <1>2, <1>3, <1>4, <1>5 DEF Next

\* There are no more unread replies than calls times runs of a call: each has its
\* call and its place among the replies to that call.
LEMMA RepliesBounded ==
  ASSUME TypeOK, UnreadInv, IsFiniteSet(Call), NEW most \in Nat,
         \A c \in Call : runs[c] <= most
  PROVE  Len(replies) <= Cardinality(Call) * most
<1> DEFINE upto(i) == Unread(replies[i]) \cap (1..i)
           place == [i \in 1..Len(replies) |-> <<replies[i], Cardinality(upto(i))>>]
<1>0. replies \in Seq(Call) /\ Len(replies) \in Nat
  BY DEF TypeOK, RedisTypeOK
<1>1. ASSUME NEW i \in 1..Len(replies)
      PROVE  /\ replies[i] \in Call /\ i \in upto(i) /\ upto(i) \subseteq Unread(replies[i])
             /\ IsFiniteSet(upto(i)) /\ Cardinality(upto(i)) \in 1..most
  <2>1. replies[i] \in Call /\ i \in upto(i) /\ upto(i) \in SUBSET Unread(replies[i])
    BY <1>0 DEF Unread
  <2>2. IsFiniteSet(Unread(replies[i])) /\ Cardinality(Unread(replies[i])) \in Nat
    BY <1>0, UnreadFinite
  <2>3. /\ IsFiniteSet(upto(i)) /\ Cardinality(upto(i)) \in Nat
        /\ Cardinality(upto(i)) <= Cardinality(Unread(replies[i]))
    BY <2>1, <2>2, FS_Subset, FS_CardinalityType
  <2>4. Cardinality(upto(i)) # 0
    BY <2>1, <2>3, FS_EmptySet
  <2>5. UnreadOK(replies[i]) /\ runs[replies[i]] \in Nat /\ runs[replies[i]] <= most
    BY <2>1 DEF UnreadInv, TypeOK, HistoryTypeOK, Msg
  <2>6. Cardinality(Replying(replies[i])) \in Nat
    BY <2>5, FS_CardinalityType DEF UnreadOK
  <2>7. Cardinality(Unread(replies[i])) + Cardinality(Replying(replies[i])) <= runs[replies[i]]
    BY <2>5 DEF UnreadOK
  <2> HIDE DEF upto
  <2>8. Cardinality(upto(i)) <= most
    BY <2>2, <2>3, <2>5, <2>6, <2>7
  <2>9. QED
    BY <2>1, <2>3, <2>4, <2>8
<1>2. ASSUME NEW i \in 1..Len(replies), NEW j \in 1..Len(replies), i < j,
             replies[i] = replies[j]
      PROVE  Cardinality(upto(i)) # Cardinality(upto(j))
  <2>1. upto(i) \subseteq upto(j)
    <3>1. 1..i \subseteq 1..j
      BY <1>0, <1>2
    <3>2. QED
      BY <1>2, <3>1
  <2>2. j \notin upto(i)
    <3>1. j \notin 1..i
      BY <1>0, <1>2
    <3>2. QED
      BY <3>1
  <2>3. j \in upto(j) /\ IsFiniteSet(upto(j))
    BY <1>1
  <2> HIDE DEF upto
  <2>4. QED
    BY <2>1, <2>2, <2>3, FS_Subset
<1>3. place \in Injection(1..Len(replies), Call \X (1..most))
  <2>1. place \in [1..Len(replies) -> Call \X (1..most)]
    BY <1>1
  <2>2. ASSUME NEW i \in 1..Len(replies), NEW j \in 1..Len(replies), place[i] = place[j]
        PROVE  i = j
    <3>1. replies[i] = replies[j] /\ Cardinality(upto(i)) = Cardinality(upto(j))
      BY <2>2
    <3>2. i \in Int /\ j \in Int /\ ~(i < j) /\ ~(j < i)
      BY <1>2, <3>1
    <3>3. QED
      BY <3>2
  <2> HIDE DEF place
  <2>3. QED
    BY <2>1, <2>2 DEF Injection, IsInjective
<1>4. /\ IsFiniteSet(Call \X (1..most))
      /\ Cardinality(Call \X (1..most)) = Cardinality(Call) * most
  <2>1. IsFiniteSet(1..most) /\ Cardinality(1..most) = most
    BY FS_Interval
  <2>2. QED
    BY <2>1, FS_Product
<1> HIDE DEF place, upto
<1>5. Cardinality(1..Len(replies)) = Len(replies)
  <2>1. \A n \in Nat : Cardinality(1..n) = n
    BY FS_Interval
  <2>2. QED
    BY <1>0, <2>1
<1>6. Cardinality(1..Len(replies)) <= Cardinality(Call \X (1..most))
  BY <1>3, <1>4, FS_Injection
<1>7. QED
  BY <1>4, <1>5, <1>6

LEMMA CountingInvariance == Spec => [](IInv /\ RunsInv /\ UnreadInv)
<1>1. Init => IInv /\ RunsInv /\ UnreadInv
  BY InitInv, RunsInit, UnreadInit
<1>2. (IInv /\ RunsInv /\ UnreadInv) /\ [Next]_vars => (IInv /\ RunsInv /\ UnreadInv)'
  <2>1. IInv' => TypeOK'
    BY DEF IInv
  <2>2. QED
    BY <2>1, InvStep, RunsStep, UnreadStep
<1>3. QED
  BY <1>1, <1>2, PTL DEF Spec

\* While the unread replies are fewer than MAXLEN, XADD with MAXLEN ~ drops none that a
\* waiting call still needs, and neither does the reply loop (runReplyLoop).
THEOREM RepliesKept == Spec /\ []RepliesFit => []NoReplyLost
<1>1. Init => NoReplyLost
  BY DEF Init, NoReplyLost
<1>2. (IInv /\ RunsInv /\ UnreadInv) /\ RepliesFit /\ NoReplyLost /\ [Next]_vars
        => NoReplyLost'
  BY NoReplyLostStep
<1>3. QED
  BY <1>1, <1>2, CountingInvariance, PTL DEF Spec

\* A replyStreamMaxLen above the calls times the runs a call can have is enough, whatever
\* fails (handleEntry writes one reply a run).
THEOREM RepliesAreKept ==
  ASSUME IsFiniteSet(Call), ReplyMaxLen > Cardinality(Call) * (1 + MaxFaults + MaxSlow)
  PROVE  Spec => []NoReplyLost
<1>1. IInv /\ RunsInv /\ UnreadInv => RepliesFit
  <2> SUFFICES ASSUME IInv, RunsInv, UnreadInv PROVE Len(replies) < ReplyMaxLen
    BY DEF RepliesFit
  <2>1. TypeOK
    BY DEF IInv
  <2>2. /\ 1 + MaxFaults + MaxSlow \in Nat /\ faults \in Nat /\ slow \in Nat
        /\ faults <= MaxFaults /\ slow <= MaxSlow
    BY <2>1, BoundsAssumption DEF TypeOK, HistoryTypeOK
  <2>3. \A c \in Call : runs[c] <= 1 + MaxFaults + MaxSlow
    <3>1. ASSUME NEW c \in Call PROVE runs[c] <= 1 + MaxFaults + MaxSlow
      <4>1. runs[c] \in Nat /\ runs[c] <= 1 + faults + slow
        BY <2>1, RunsOfAMessage DEF TypeOK, HistoryTypeOK, Msg
      <4>2. QED
        BY <2>2, <4>1, BoundsAssumption
    <3>2. QED
      BY <3>1
  <2>4. Len(replies) <= Cardinality(Call) * (1 + MaxFaults + MaxSlow)
    BY <2>1, <2>2, <2>3, RepliesBounded
  <2>5. /\ Len(replies) \in Nat /\ ReplyMaxLen \in Nat
        /\ Cardinality(Call) * (1 + MaxFaults + MaxSlow) \in Int
    BY <2>1, <2>2, FS_CardinalityType, BoundsAssumption DEF TypeOK, RedisTypeOK
  <2>6. QED
    BY <2>4, <2>5
<1>2. QED
  BY <1>1, RepliesKept, CountingInvariance, PTL
=============================================================================
