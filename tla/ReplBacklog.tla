---------------------------- MODULE ReplBacklog ----------------------------
(***************************************************************************)
(* The replication backlog of src/data/replication.c: a circular buffer    *)
(* of the last bytes of the replication stream, from which a slave that    *)
(* asks for PSYNC <offset> is served.  The loops of feedReplicationBacklog *)
(* and addReplyReplicationBacklog are one step per iteration; the server   *)
(* is single threaded, so nothing else happens while one is running.       *)
(***************************************************************************)
EXTENDS Integers, Sequences

CONSTANTS
  Bytes,        \* the bytes of the stream
  Gap,          \* what the stream holds at an offset skipped by the ++ below
  NoBuffer,     \* server.repl_backlog == NULL
  Sizes,        \* the values of repl-backlog-size CONFIG SET may choose
  Garbage,      \* what zmalloc() returns
  MaxFeed,      \* longest argument of feedReplicationBacklog
  MaxOffset     \* bound on server.master_repl_offset

ASSUME SizeAssumption == Sizes \subseteq Nat \ {0}
ASSUME GapAssumption == Gap \notin Bytes /\ Garbage \in Bytes
ASSUME NoBufferAssumption == \A n \in Sizes : NoBuffer \notin [0..(n - 1) -> Bytes]
ASSUME BoundAssumption == MaxFeed \in Nat /\ MaxOffset \in Nat

VARIABLES
  size,         \* server.repl_backlog_size
  backlog,      \* server.repl_backlog
  idx,          \* server.repl_backlog_idx
  histlen,      \* server.repl_backlog_histlen
  off,          \* server.repl_backlog_off
  offset,       \* server.master_repl_offset
  p,            \* what the running feedReplicationBacklog has left to copy
  reply,        \* the running (or last) addReplyReplicationBacklog
  stream,       \* history: the byte sent at every offset up to offset
  missed        \* history: the offsets at which bytes were not counted

vars == <<size, backlog, idx, histlen, off, offset, p, reply, stream, missed>>
ring == <<size, backlog, idx, histlen, off, offset, p, stream, missed>>

Smaller(a, b) == IF a < b THEN a ELSE b

NoReply == [from |-> 0, j |-> 0, len |-> 0, out |-> << >>]

Init ==
  /\ size \in Sizes
  /\ backlog = NoBuffer
  /\ idx = 0 /\ histlen = 0 /\ off = 0 /\ offset = 0
  /\ p = << >>
  /\ reply = NoReply
  /\ stream = [o \in 1..0 |-> Gap]
  /\ missed = {}

Idle == p = << >> /\ reply.len = 0

createReplicationBacklog_NoIncrement ==
  /\ Idle /\ backlog = NoBuffer /\ offset < MaxOffset
  /\ backlog' = [i \in 0..(size - 1) |-> Garbage]
  /\ histlen' = 0 /\ idx' = 0
  /\ off' = offset + 1
  /\ reply' = NoReply
  /\ UNCHANGED <<size, p, offset, stream, missed>>

createReplicationBacklog ==
  /\ Idle /\ backlog = NoBuffer /\ offset < MaxOffset
  /\ backlog' = [i \in 0..(size - 1) |-> Garbage]
  /\ histlen' = 0 /\ idx' = 0
  /\ offset' = offset + 1
  /\ off' = offset + 2
  /\ stream' = [o \in 1..(offset + 1) |-> IF o <= offset THEN stream[o] ELSE Gap]
  /\ reply' = NoReply
  /\ UNCHANGED <<size, p, missed>>

resizeReplicationBacklog(newsize) ==
  /\ Idle /\ newsize # size
  /\ size' = newsize
  /\ IF backlog # NoBuffer
     THEN /\ backlog' = [i \in 0..(newsize - 1) |-> Garbage]
          /\ histlen' = 0 /\ idx' = 0
          /\ off' = offset + 1
     ELSE UNCHANGED <<backlog, histlen, idx, off>>
  /\ reply' = NoReply
  /\ UNCHANGED <<offset, p, stream, missed>>

freeReplicationBacklog ==
  /\ Idle /\ backlog # NoBuffer
  /\ backlog' = NoBuffer
  /\ reply' = NoReply
  /\ UNCHANGED <<size, idx, histlen, off, offset, p, stream, missed>>

\* replicationFeedSlaves with neither backlog nor slaves returns at once: the
\* command is part of the dataset's history and of no offset.
FeedNothing ==
  /\ Idle /\ backlog = NoBuffer
  /\ missed' = missed \cup {offset}
  /\ reply' = NoReply
  /\ UNCHANGED <<size, backlog, idx, histlen, off, offset, p, stream>>

\* The entry of feedReplicationBacklog, called only when a backlog exists.
feedReplicationBacklog(bytes) ==
  /\ Idle /\ backlog # NoBuffer
  /\ bytes # << >> /\ offset + Len(bytes) <= MaxOffset
  /\ offset' = offset + Len(bytes)
  /\ stream' = [o \in 1..(offset + Len(bytes)) |->
                  IF o <= offset THEN stream[o] ELSE bytes[o - offset]]
  /\ p' = bytes
  /\ reply' = NoReply
  /\ UNCHANGED <<size, backlog, idx, histlen, off, missed>>

\* The cap on histlen that follows the loop.
Capped(len) == IF len > size THEN size ELSE len

\* Rewind the index when it reaches the limit.
Rewound(i) == IF i = size THEN 0 ELSE i

\* One iteration of its loop and, after the last one, what follows the loop.
FeedChunk ==
  /\ p # << >>
  /\ LET thislen == Smaller(size - idx, Len(p))
         rest == SubSeq(p, thislen + 1, Len(p))
         newlen == histlen + thislen
     IN /\ backlog' = [i \in 0..(size - 1) |->
              IF idx <= i /\ i < idx + thislen THEN p[i - idx + 1] ELSE backlog[i]]
        /\ idx' = Rewound(idx + thislen)
        /\ p' = rest
        /\ histlen' = IF rest = << >> THEN Capped(newlen) ELSE newlen
        /\ off' = IF rest = << >> THEN offset - Capped(newlen) + 1 ELSE off
  /\ UNCHANGED <<size, offset, reply, stream, missed>>

\* masterTryPartialResynchronization accepts the offset a slave asks for.
Accepted(o) ==
  /\ backlog # NoBuffer
  /\ o >= off
  /\ o <= off + histlen

\* The index of the first byte addReplyReplicationBacklog sends.
FirstIndex(o) == (((idx + (size - histlen)) % size) + (o - off)) % size

\* The entry of addReplyReplicationBacklog, for an accepted offset.
addReplyReplicationBacklog(o) ==
  /\ Idle /\ Accepted(o)
  /\ reply' = [from |-> o, j |-> IF histlen = 0 THEN 0 ELSE FirstIndex(o),
               len |-> IF histlen = 0 THEN 0 ELSE histlen - (o - off), out |-> << >>]
  /\ UNCHANGED ring

\* One iteration of its loop.
ReplyChunk ==
  /\ reply.len # 0
  /\ LET thislen == Smaller(size - reply.j, reply.len)
     IN reply' = [from |-> reply.from, j |-> 0, len |-> reply.len - thislen,
                  out |-> reply.out \o [i \in 1..thislen |-> backlog[reply.j + i - 1]]]
  /\ UNCHANGED ring

FeedArgs == UNION {[1..n -> Bytes \ {Garbage}] : n \in 1..MaxFeed}

Next ==
  \/ createReplicationBacklog
  \/ freeReplicationBacklog
  \/ \E n \in Sizes : resizeReplicationBacklog(n)
  \/ \E bytes \in FeedArgs : feedReplicationBacklog(bytes)
  \/ FeedNothing
  \/ FeedChunk
  \/ \E o \in 0..(MaxOffset + 1) : addReplyReplicationBacklog(o)
  \/ ReplyChunk

Spec == Init /\ [][Next]_vars

----------------------------------------------------------------------------

\* The types of the backlog's fields; idx points inside a buffer
\* that exists, and feeding never copies past its end.
TypeOK ==
  /\ size \in Sizes /\ offset \in Nat /\ off \in Nat /\ histlen \in Nat
  /\ idx \in Nat
  /\ backlog = NoBuffer \/ (backlog \in [0..(size - 1) -> Bytes] /\ idx < size)
  /\ p \in Seq(Bytes)
  /\ stream \in [1..offset -> Bytes \cup {Gap}]
  /\ missed \subseteq 0..offset
  /\ reply \in [from : Nat, j : Nat, len : Nat, out : Seq(Bytes)]

\* What PSYNC promises (replication.c:395-398): whatever offset the master
\* accepts, when the reply is complete it is exactly the bytes of the stream
\* from that offset to the current one, across wrap-arounds, resizes and
\* buffers that were freed and created again.
ReplyIsStreamSuffix ==
  (reply.len = 0 /\ reply.from > 0) =>
     /\ Len(reply.out) = offset - reply.from + 1
     /\ \A i \in 1..Len(reply.out) : reply.out[i] = stream[reply.from + i - 1]

\* A slave that read the stream up to an offset and missed commands that were
\* executed there without being counted is never served from that offset: the
\* purpose of the increment in createReplicationBacklog (replication.c:76-79).
NoPsyncAcrossGap ==
  \A o \in missed : Idle => ~Accepted(o + 1)

\* A partial resynchronisation gives a slave exactly what it lacks: the two above.
PsyncSound == ReplyIsStreamSuffix /\ NoPsyncAcrossGap
=============================================================================
