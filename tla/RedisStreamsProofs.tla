------------------------- MODULE RedisStreamsProofs -------------------------
(***************************************************************************)
(* Lemmas about the operations of RedisStreams, for the proofs about the   *)
(* transports of both languages.                                           *)
(***************************************************************************)
EXTENDS RedisStreams, TLAPS

\* What XADD leaves of the command stream and the group has its type.
LEMMA AddCommandType ==
  ASSUME RedisTypeOK, NEW m \in Msg, AddCommand(m)
  PROVE  stream' \in Seq(Msg) /\ fresh' \subseteq Msg
BY DEF RedisTypeOK, AddCommand

\* What XADD leaves of the reply stream has its type.
LEMMA AddReplyType ==
  ASSUME RedisTypeOK, NEW c \in Call, AddReply(c)
  PROVE  replies' \in Seq(Call) /\ replyKey' = TRUE /\ replied' = replied \cup {c}
BY DEF RedisTypeOK, AddReply

\* A batch holds nothing but what it was taken from.
LEMMA FirstOfSubset ==
  ASSUME NEW S, NEW k PROVE FirstOf(S, k) \subseteq S
BY DEF FirstOf

\* XADD adds its entry and no other.
LEMMA AddCommandInStream ==
  ASSUME RedisTypeOK, NEW m \in Msg, AddCommand(m), NEW x
  PROVE  InStream(x)' <=> InStream(x) \/ x = m
<1>1. /\ stream \in Seq(Msg) /\ Len(stream') = Len(stream) + 1
      /\ \A i \in 1..Len(stream) : stream'[i] = stream[i]
      /\ stream'[Len(stream) + 1] = m
  BY DEF RedisTypeOK, AddCommand
<1>2. InStream(x) => InStream(x)'
  BY <1>1 DEF InStream
<1>3. x = m => InStream(x)'
  BY <1>1 DEF InStream
<1>4. InStream(x)' => InStream(x) \/ x = m
  BY <1>1 DEF InStream
<1>5. QED
  BY <1>2, <1>3, <1>4
=============================================================================
