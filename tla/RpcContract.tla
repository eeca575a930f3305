---------------------------- MODULE RpcContract ----------------------------
(***************************************************************************)
(* What a clamator transport promises its user, without saying how: a call *)
(* is issued, or refused, once and settles once; it is answered only if a  *)
(* handler ran for it; a handler runs, possibly more than once and         *)
(* possibly after the caller gave up, only for what was issued; every      *)
(* issued call settles. The promises are those of the Transport interface  *)
(* (send, notify) and of the design's at-least-once delivery; transports   *)
(* implement this module.                                                  *)
(***************************************************************************)
CONSTANTS Call, Note

VARIABLES
  status,   \* what each caller has seen
  served    \* the messages a handler has completed for

vars == <<status, served>>

Outcome == {"timeout", "failed", "stopped", "cancelled"}

Init ==
  /\ status = [m \in Call \cup Note |-> "unsent"]
  /\ served = {}

Become(S, outcome) == status' = [m \in Call \cup Note |-> IF m \in S THEN outcome ELSE status[m]]

Waiting(M) == {m \in M : status[m] = "waiting"}

Issue(m) ==
  /\ status[m] = "unsent"
  /\ Become({m}, "waiting")
  /\ UNCHANGED served

\* the envelope cannot be sent at all
Refuse(m) ==
  /\ status[m] = "unsent"
  /\ Become({m}, "refused")
  /\ UNCHANGED served

\* at-least-once: nothing forbids serving again what is served or settled
Serve(m) ==
  /\ status[m] # "unsent"
  /\ served' = served \cup {m}
  /\ UNCHANGED status

\* replies arrive in batches
Answer ==
  /\ \E S \in SUBSET (Waiting(Call) \cap served) : Become(S, "answered")
  /\ UNCHANGED served

Confirm(n) ==
  /\ n \in Waiting(Note)
  /\ Become({n}, "sent")
  /\ UNCHANGED served

GiveUp ==
  /\ \E S \in SUBSET Waiting(Call \cup Note), outcome \in Outcome : Become(S, outcome)
  /\ UNCHANGED served

Next ==
  \/ \E m \in Call \cup Note : Issue(m) \/ Refuse(m) \/ Serve(m)
  \/ \E n \in Note : Confirm(n)
  \/ Answer
  \/ GiveUp

Settle(c) == status[c] = "waiting" /\ Next /\ status'[c] # "waiting"

Spec == Init /\ [][Next]_vars

FairSpec == Spec /\ \A c \in Call : WF_vars(Settle(c))

-----------------------------------------------------------------------------
(* What a user of any transport may conclude.                              *)

\* The first outcome of a call stands: a late reply, a timeout that races it and
\* stop() change nothing any more.
SettledOnce ==
  [][\A m \in Call \cup Note : status[m] \notin {"unsent", "waiting"}
                                 => status'[m] = status[m]]_vars

\* Who got an answer got it from a handler that ran for this very call.
AnsweredWasServed == \A c \in Call : status[c] = "answered" => c \in served
=============================================================================
