---------------------------- MODULE RedisStreams ----------------------------
(***************************************************************************)
(* What the Redis transports of both languages use of Redis for one        *)
(* service and one client: the entries of the command stream in order, the *)
(* consumer group's undelivered entries, its pending entries list, which   *)
(* pending entries have been idle for the claim time, and the unread part  *)
(* of the client's reply stream. The name of a consumer is never read by   *)
(* the code, so the pending entries list has no owners here. A message     *)
(* stands for an envelope.                                                 *)
(***************************************************************************)
EXTENDS Integers, Sequences, FiniteSets

CONSTANTS
  Call,         \* request envelopes the client sends, one per call
  Note,         \* notification envelopes: no reply-to field
  Junk,         \* entries of other programs that a server does not dispatch
  ReplyMaxLen   \* MAXLEN of the reply stream

Msg == Call \cup Note \cup Junk

VARIABLES
  stream,    \* command stream, never trimmed
  group,     \* does the consumer group exist
  fresh,     \* entries past the group's last-delivered-id
  pel,       \* the group's pending entries list
  idle,      \* pending entries idle for at least the claim time
  replies,   \* unread entries of the reply stream
  replyKey,  \* does the reply stream's key exist
  \* history
  replied,   \* calls for which a reply entry has been added
  acked      \* messages XACKed

redisVars  == <<stream, group, fresh, pel, idle, replies, replyKey>>

InStream(m) == \E i \in 1..Len(stream) : stream[i] = m

Before(m, n) ==
  \E j \in 1..Len(stream) : stream[j] = n /\ \E i \in 1..(j - 1) : stream[i] = m

IsFirst(m, S) == m \in S /\ \A n \in S : ~Before(n, m)

FirstOf(S, k) == {n \in S : Cardinality({m \in S : Before(m, n)}) < k}

\* XADD of a command: the entry is undelivered once the group exists; an entry
\* added earlier is before the position '$' the group will be created at.
AddCommand(m) ==
  /\ stream' = Append(stream, m)
  /\ fresh' = IF group THEN fresh \cup {m} ELSE fresh

\* XADD MAXLEN ~ n of a reply drops any number of the oldest entries, as long
\* as n are left; the entries read already are older than the unread ones.
AddReply(m) ==
  /\ \E k \in 0..Len(replies) :
       /\ k = 0 \/ Len(replies) + 1 - k >= ReplyMaxLen
       /\ replies' = Append(SubSeq(replies, k + 1, Len(replies)), m)
  /\ replyKey' = TRUE
  /\ replied' = replied \cup {m}

RemovePending(m) ==
  /\ pel' = pel \ {m}
  /\ idle' = idle \ {m}
  /\ acked' = acked \cup {m}

RedisTypeOK ==
  /\ stream \in Seq(Msg) /\ group \in BOOLEAN
  /\ fresh \subseteq Msg /\ pel \subseteq Msg /\ idle \subseteq pel
  /\ replies \in Seq(Call) /\ replyKey \in BOOLEAN
=============================================================================
