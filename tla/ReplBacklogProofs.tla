-------------------------- MODULE ReplBacklogProofs --------------------------
(***************************************************************************)
(* Proofs about the circular buffer of ReplBacklog, for every buffer size, *)
(* every sequence of feeds and every offset a slave may ask for.           *)
(*                                                                         *)
(* The inductive invariant follows the loops: after every iteration of     *)
(* feedReplicationBacklog the byte k places behind the write index is the  *)
(* byte k places before the end of what has been written of the stream.    *)
(***************************************************************************)
EXTENDS ReplBacklog, TLAPS

\* The last offset whose byte has been copied into the buffer.
Written == offset - Len(p)

\* The index of the byte k places behind index i in a buffer of n bytes.
Behind(n, i, k) == IF k <= i THEN i - k ELSE i - k + n

\* How much of the buffer is the tail of the stream.
Held == Smaller(histlen, size)

\* The buffer holds the tail of what has been written.
RingOK ==
  backlog # NoBuffer =>
    /\ histlen <= Written
    /\ \A k \in 1..Held : backlog[Behind(size, idx, k)] = stream[Written - k + 1]

\* The state between two calls, and between two iterations of a feed.
FeedOK ==
  /\ p = << >> /\ backlog # NoBuffer =>
       histlen <= size /\ off = offset - histlen + 1
  /\ p # << >> =>
       /\ backlog # NoBuffer
       /\ reply = NoReply
       /\ Len(p) <= offset
       /\ \A i \in 1..Len(p) : p[i] = stream[Written + i]

\* The state between two iterations of a reply.
ReplyOK ==
  reply.from > 0 =>
    /\ p = << >> /\ backlog # NoBuffer
    /\ reply.len <= histlen
    /\ reply.len > 0 => reply.j = Behind(size, idx, reply.len)
    /\ reply.from + Len(reply.out) + reply.len = offset + 1
    /\ \A i \in 1..Len(reply.out) : reply.out[i] = stream[reply.from + i - 1]

MissedOK ==
  backlog # NoBuffer => \A o \in missed : o + 1 <= Written - histlen

\* A reply that is running has been asked for.
AskedOK == reply.from = 0 => reply = NoReply

IInv == TypeOK /\ RingOK /\ FeedOK /\ ReplyOK /\ MissedOK /\ AskedOK

LEMMA ModSmall ==
  ASSUME NEW n \in Nat \ {0}, NEW x \in Nat, x < n
  PROVE  x % n = x
BY SMT

LEMMA ModWrap ==
  ASSUME NEW n \in Nat \ {0}, NEW x \in Nat, x >= n, x < n + n
  PROVE  x % n = x - n
BY SMT

LEMMA OffsetOfByte ==
  ASSUME NEW f \in Nat, NEW l \in Nat, NEW n \in Nat, NEW o \in Nat, NEW i \in Nat,
         f + l + n = o + 1
  PROVE  o - (n - i + 1) + 1 = f + l + i - 1
OBVIOUS

LEMMA InitHolds == Init => IInv
BY SizeAssumption DEF Init, IInv, TypeOK, RingOK, FeedOK, ReplyOK, MissedOK,
   AskedOK, NoReply, Written

\* The index addReplyReplicationBacklog computes with two remainders is the
\* one as far behind the write index as there are bytes to send.
LEMMA FirstIndexIsBehind ==
  ASSUME TypeOK, backlog # NoBuffer, histlen > 0, histlen <= size,
         NEW o \in Nat, o >= off, o < off + histlen
  PROVE  FirstIndex(o) = Behind(size, idx, histlen - (o - off))
<1> DEFINE x == idx + (size - histlen)
           y == x % size
           z == y + (o - off)
<1>0. size \in Nat \ {0} /\ idx \in Nat /\ idx < size /\ histlen \in Nat /\ off \in Nat
  BY SizeAssumption DEF TypeOK
<1>1. x \in Nat /\ x < size + size
  BY <1>0
<1>2. y = IF histlen <= idx THEN idx - histlen ELSE x
  <2>1. CASE histlen <= idx
    <3>1. x >= size BY <2>1, <1>0
    <3>2. y = x - size BY <3>1, <1>0, <1>1, ModWrap
    <3> QED BY <3>2, <2>1, <1>0
  <2>2. CASE ~(histlen <= idx)
    <3>1. x < size BY <2>2, <1>0
    <3>2. y = x BY <3>1, <1>0, <1>1, ModSmall
    <3> QED BY <3>2, <2>2
  <2> QED BY <2>1, <2>2
<1>3. z \in Nat /\ z < size + size
  BY <1>0, <1>2
<1>4. z % size = Behind(size, idx, histlen - (o - off))
  <2>1. CASE z < size
    <3>1. z % size = z BY <2>1, <1>0, <1>3, ModSmall
    <3> QED BY <3>1, <2>1, <1>0, <1>2 DEF Behind
  <2>2. CASE z >= size
    <3>1. z % size = z - size BY <2>2, <1>0, <1>3, ModWrap
    <3> QED BY <3>1, <2>2, <1>0, <1>2 DEF Behind
  <2> QED BY <2>1, <2>2, <1>0, <1>3
<1> QED BY <1>4 DEF FirstIndex

LEMMA CreateKeeps == IInv /\ createReplicationBacklog => IInv'
<1> SUFFICES ASSUME IInv, createReplicationBacklog PROVE IInv'
  OBVIOUS
<1> USE SizeAssumption, GapAssumption DEF IInv, createReplicationBacklog, Idle
<1>1. p = << >> /\ p' = << >> /\ offset \in Nat /\ size \in Nat \ {0} BY DEF TypeOK
<1>2. TypeOK' BY <1>1 DEF TypeOK, NoReply
<1>3. RingOK' /\ FeedOK' /\ ReplyOK' /\ AskedOK'
  BY <1>1 DEF TypeOK, RingOK, FeedOK, ReplyOK, AskedOK, NoReply, Written, Held, Smaller
<1>4. MissedOK' BY <1>1 DEF TypeOK, MissedOK, Written
<1> QED BY <1>2, <1>3, <1>4

LEMMA ResizeKeeps ==
  ASSUME NEW n \in Sizes PROVE IInv /\ resizeReplicationBacklog(n) => IInv'
<1> SUFFICES ASSUME IInv, resizeReplicationBacklog(n) PROVE IInv'
  OBVIOUS
<1> USE SizeAssumption, GapAssumption DEF IInv, resizeReplicationBacklog, Idle
<1>1. p = << >> /\ p' = << >> /\ offset \in Nat /\ n \in Nat \ {0} BY DEF TypeOK
<1>2. TypeOK' BY <1>1 DEF TypeOK, NoReply
<1>3. RingOK' /\ FeedOK' /\ ReplyOK' /\ AskedOK'
  BY <1>1 DEF TypeOK, RingOK, FeedOK, ReplyOK, AskedOK, NoReply, Written, Held, Smaller
<1>4. MissedOK' BY <1>1 DEF TypeOK, MissedOK, Written
<1> QED BY <1>2, <1>3, <1>4

LEMMA FreeKeeps == IInv /\ (freeReplicationBacklog \/ FeedNothing) => IInv'
<1> SUFFICES ASSUME IInv, freeReplicationBacklog \/ FeedNothing PROVE IInv'
  OBVIOUS
<1> USE DEF IInv, freeReplicationBacklog, FeedNothing, Idle
<1>1. TypeOK'
  <2>0. offset \in Nat /\ missed \subseteq 0..offset /\ offset' = offset BY DEF TypeOK
  <2>1. missed' \subseteq 0..offset'
    <3>1. missed' = missed \/ missed' = missed \cup {offset} OBVIOUS
    <3>2. offset \in 0..offset BY <2>0
    <3> QED BY <2>0, <3>1, <3>2, Zenon
  <2> QED BY <2>1 DEF TypeOK, NoReply
<1>2. RingOK' /\ FeedOK' /\ ReplyOK' /\ MissedOK' /\ AskedOK'
  BY DEF RingOK, FeedOK, ReplyOK, MissedOK, AskedOK, NoReply
<1> QED BY <1>1, <1>2

LEMMA FeedKeeps ==
  ASSUME NEW bytes \in Seq(Bytes)
  PROVE  IInv /\ feedReplicationBacklog(bytes) => IInv'
<1> SUFFICES ASSUME IInv, feedReplicationBacklog(bytes) PROVE IInv'
  OBVIOUS
<1> USE DEF IInv, feedReplicationBacklog, Idle
<1>1. p = << >> /\ offset \in Nat /\ Len(bytes) \in Nat /\ Len(p) = 0 BY DEF TypeOK
<1>2. TypeOK'
  <2>1. stream' \in [1..offset' -> Bytes \cup {Gap}] BY <1>1 DEF TypeOK
  <2> QED BY <1>1, <2>1 DEF TypeOK, NoReply
<1>3. Written' = Written BY <1>1 DEF Written
<1>4. RingOK'
  <2>1. histlen <= Written /\ Written = offset BY <1>1 DEF RingOK, Written
  <2>2. \A k \in 1..Held : offset - k + 1 \in 1..offset
    BY <2>1, <1>1, SizeAssumption DEF Held, Smaller, TypeOK
  <2>3. \A k \in 1..Held : stream'[Written - k + 1] = stream[Written - k + 1]
    BY <2>1, <2>2, <1>1
  <2>4. Held' = Held
    BY DEF Held
  <2>5. \A k \in 1..Held : backlog'[Behind(size', idx', k)] = stream'[Written - k + 1]
    BY <2>3 DEF RingOK, Behind
  <2>6. \A k \in 1..Held' : backlog'[Behind(size', idx', k)] = stream'[Written' - k + 1]
    BY <2>4, <2>5, <1>3
  <2>7. histlen' <= Written' BY <2>1, <1>3
  <2> HIDE DEF IInv, feedReplicationBacklog, Idle
  <2> QED BY <2>6, <2>7 DEF RingOK
<1>5. FeedOK' BY <1>1, <1>2, <1>3 DEF FeedOK, TypeOK, Written
<1>6. ReplyOK' /\ AskedOK' BY DEF ReplyOK, AskedOK, NoReply
<1>7. MissedOK' BY <1>3 DEF MissedOK
<1> QED BY <1>2, <1>4, <1>5, <1>6, <1>7

LEMMA FeedChunkKeeps == IInv /\ FeedChunk => IInv'
<1> SUFFICES ASSUME IInv, FeedChunk PROVE IInv'
  OBVIOUS
<1>0. PICK t : t = Smaller(size - idx, Len(p))
  OBVIOUS
<1> DEFINE rest == SubSeq(p, t + 1, Len(p))
           newlen == histlen + t
<1>1. /\ p \in Seq(Bytes) /\ p # << >> /\ backlog # NoBuffer /\ reply = NoReply
      /\ size \in Nat \ {0} /\ idx \in Nat /\ idx < size /\ histlen \in Nat
      /\ offset \in Nat /\ Len(p) \in Nat \ {0} /\ Len(p) <= offset
      /\ backlog \in [0..(size - 1) -> Bytes]
  BY SizeAssumption DEF IInv, TypeOK, FeedOK, FeedChunk
<1>2. /\ backlog' = [i \in 0..(size - 1) |->
              IF idx <= i /\ i < idx + t THEN p[i - idx + 1] ELSE backlog[i]]
      /\ idx' = IF idx + t = size THEN 0 ELSE idx + t
      /\ p' = rest
      /\ histlen' = IF rest = << >> THEN Capped(newlen) ELSE newlen
      /\ off' = IF rest = << >> THEN offset - Capped(newlen) + 1 ELSE off
      /\ size' = size /\ offset' = offset /\ reply' = reply /\ stream' = stream
      /\ missed' = missed
  BY <1>0 DEF FeedChunk, Rewound
<1>3. t \in 1..Len(p) /\ idx + t <= size
  BY <1>0, <1>1 DEF Smaller
<1>a. /\ size \in Nat \ {0} /\ idx \in Nat /\ idx < size
      /\ t \in Nat \ {0} /\ t <= Len(p) /\ Len(p) \in Nat /\ idx + t <= size
      /\ idx' = IF idx + t = size THEN 0 ELSE idx + t
  BY <1>1, <1>2, <1>3
<1>4. /\ rest \in Seq(Bytes) /\ Len(rest) = Len(p) - t
      /\ \A i \in 1..Len(rest) : rest[i] = p[t + i]
  <2>1. p \in Seq(Bytes) BY <1>1
  <2> QED BY <2>1, <1>a
<1> HIDE DEF rest
<1>5. Written' = Written + t /\ Written \in Nat /\ Written + t <= offset
  BY <1>1, <1>2, <1>3, <1>4 DEF Written
<1>6. histlen <= Written
  BY <1>1 DEF IInv, RingOK
<1>7. histlen' \in Nat /\ histlen' <= newlen
  BY <1>1, <1>2, <1>3 DEF Capped
<1>8. TypeOK'
  <2>1. backlog' \in [0..(size - 1) -> Bytes]
    BY <1>1, <1>2, <1>3
  <2>2. off' \in Nat
    BY <1>1, <1>2, <1>3, <1>4, <1>5, <1>6 DEF Capped, IInv, TypeOK, Written
  <2>3. idx' \in Nat /\ idx' < size
    BY <1>1, <1>2, <1>3
  <2> QED BY <2>1, <2>2, <2>3, <1>1, <1>2, <1>4, <1>7 DEF IInv, TypeOK
<1>9. RingOK'
  <2>1. histlen' <= Written'
    BY <1>1, <1>3, <1>5, <1>6, <1>7
  <2>2. ASSUME NEW k \in 1..Held'
        PROVE  backlog'[Behind(size, idx', k)] = stream[(Written + t) - k + 1]
    <3>1. k \in Nat /\ k >= 1 /\ k <= newlen /\ k <= size
      BY <1>1, <1>2, <1>3, <1>7 DEF Held, Smaller
    <3>2. CASE k <= t
      <4>1. Behind(size, idx', k) = idx + t - k
        BY <1>a, <3>1, <3>2 DEF Behind
      <4>2. backlog'[idx + t - k] = p[t - k + 1]
        BY <1>1, <1>2, <1>3, <3>1, <3>2
      <4>3. p[t - k + 1] = stream[Written + (t - k + 1)]
        <5>1. t - k + 1 \in 1..Len(p) BY <1>1, <1>3, <3>1, <3>2
        <5> QED BY <5>1, <1>1 DEF IInv, FeedOK
      <4> QED BY <4>1, <4>2, <4>3, <1>3, <1>5, <3>1
    <3>3. CASE k > t
      <4>1. k - t \in 1..Held
        BY <1>1, <1>3, <3>1, <3>3 DEF Held, Smaller
      <4>2. /\ Behind(size, idx', k) = Behind(size, idx, k - t)
            /\ Behind(size, idx, k - t) \in 0..(size - 1)
            /\ ~(idx <= Behind(size, idx, k - t) /\ Behind(size, idx, k - t) < idx + t)
        BY <1>a, <3>1, <3>3 DEF Behind
      <4>4. backlog'[Behind(size, idx, k - t)] = backlog[Behind(size, idx, k - t)]
        BY <1>2, <4>2
      <4>5. backlog[Behind(size, idx, k - t)] = stream[Written - (k - t) + 1]
        BY <1>1, <4>1 DEF IInv, RingOK
      <4>6. Written - (k - t) + 1 = (Written + t) - k + 1
        BY <1>3, <1>5, <3>1
      <4> QED BY <4>2, <4>4, <4>5, <4>6
    <3> QED BY <3>1, <3>2, <3>3, <1>3
  <2>3. size' = size /\ stream' = stream BY <1>2
  <2>4. offset' - Len(p') = Written + t BY <1>5 DEF Written
  <2>5. histlen' <= offset' - Len(p') BY <2>1 DEF Written
  <2>6. ASSUME NEW k \in 1..Held'
        PROVE  backlog'[Behind(size', idx', k)] = stream'[(offset' - Len(p')) - k + 1]
    <3>1. backlog'[Behind(size, idx', k)] = stream[(Written + t) - k + 1] BY <2>2
    <3> QED BY <3>1, <2>3, <2>4
  <2> QED BY <2>5, <2>6 DEF RingOK, Behind, Written, Held
<1>10. FeedOK'
  <2>1. CASE rest = << >>
    <3>1. histlen' = Capped(newlen) /\ off' = offset - Capped(newlen) + 1
      BY <1>2, <2>1
    <3>2. Capped(newlen) <= size BY <1>1, <1>3 DEF Capped
    <3> QED BY <3>1, <3>2, <1>2, <2>1 DEF FeedOK
  <2>2. CASE rest # << >>
    <3>1. \A i \in 1..Len(rest) : t + i \in 1..Len(p)
      BY <1>1, <1>3, <1>4
    <3>2. \A i \in 1..Len(p) : p[i] = stream[Written + i]
      BY <1>1 DEF IInv, FeedOK
    <3>3. \A i \in 1..Len(rest) : rest[i] = stream[Written + (t + i)]
      BY <3>1, <3>2, <1>4
    <3>4. \A i \in 1..Len(rest) : rest[i] = stream[(Written + t) + i]
      BY <3>3, <1>3, <1>5, <1>4
    <3>5. Len(rest) <= offset BY <1>1, <1>3, <1>4
    <3>6. backlog' # NoBuffer
      <4>1. backlog' \in [0..(size - 1) -> Bytes] BY <1>1, <1>2, <1>a
      <4> QED BY <4>1, NoBufferAssumption DEF IInv, TypeOK
    <3> QED BY <3>4, <3>5, <3>6, <1>1, <1>2, <1>5, <2>2 DEF FeedOK
  <2> QED BY <2>1, <2>2
<1>11. ReplyOK' /\ AskedOK'
  BY <1>1, <1>2 DEF ReplyOK, AskedOK, NoReply
<1>12. MissedOK'
  <2> SUFFICES ASSUME NEW o \in missed PROVE o + 1 <= Written' - histlen'
    BY <1>2 DEF MissedOK
  <2>1. o \in Nat /\ o + 1 <= Written - histlen
    BY <1>1 DEF IInv, TypeOK, MissedOK
  <2>2. newlen = histlen + t /\ histlen \in Nat /\ histlen' \in Nat /\ histlen' <= newlen
    BY <1>1, <1>7
  <2>3. offset' - Len(p') = (offset - Len(p)) + t BY <1>5 DEF Written
  <2>4. offset - Len(p) \in Nat BY <1>5 DEF Written
  <2> QED BY <2>1, <2>2, <2>3, <2>4, <1>a DEF Written
<1> QED BY <1>8, <1>9, <1>10, <1>11, <1>12 DEF IInv

LEMMA ReplyKeeps ==
  ASSUME NEW o \in Nat
  PROVE  IInv /\ addReplyReplicationBacklog(o) => IInv'
<1> SUFFICES ASSUME IInv, addReplyReplicationBacklog(o) PROVE IInv'
  OBVIOUS
<1> DEFINE j0 == IF histlen = 0 THEN 0 ELSE FirstIndex(o)
           len0 == IF histlen = 0 THEN 0 ELSE histlen - (o - off)
<1>1. /\ p = << >> /\ backlog # NoBuffer /\ o >= off /\ o <= off + histlen
      /\ reply' = [from |-> o, j |-> j0, len |-> len0, out |-> << >>]
      /\ UNCHANGED ring
  BY DEF addReplyReplicationBacklog, Idle, Accepted
<1>2. /\ size \in Nat \ {0} /\ histlen \in Nat /\ off \in Nat /\ offset \in Nat
      /\ histlen <= size /\ off = offset - histlen + 1 /\ Len(p) = 0 /\ histlen <= offset
  BY <1>1, SizeAssumption DEF IInv, TypeOK, FeedOK, RingOK, Written
<1>3. len0 \in Nat /\ len0 <= histlen /\ o + len0 = offset + 1
  BY <1>1, <1>2
<1>4. len0 > 0 => j0 = Behind(size, idx, len0)
  BY <1>1, <1>2, FirstIndexIsBehind DEF IInv
<1>5. j0 \in Nat
  <2>1. idx \in Nat BY DEF IInv, TypeOK
  <2>2. idx + (size - histlen) \in Nat BY <2>1, <1>2
  <2>3. (idx + (size - histlen)) % size \in Nat BY <2>2, <1>2
  <2>4. ((idx + (size - histlen)) % size) + (o - off) \in Nat BY <2>3, <1>1, <1>2
  <2>5. FirstIndex(o) \in Nat BY <2>4, <1>2 DEF FirstIndex
  <2> QED BY <2>5
<1>6. reply'.from = o /\ reply'.j = j0 /\ reply'.len = len0 /\ reply'.out = << >>
  BY <1>1
<1> HIDE DEF j0, len0
<1>7. TypeOK'
  BY <1>1, <1>3, <1>5 DEF IInv, TypeOK, ring
<1>8. ReplyOK'
  BY <1>1, <1>3, <1>4, <1>6 DEF ReplyOK, ring
<1>9. RingOK' /\ FeedOK' /\ MissedOK'
  BY <1>1 DEF IInv, RingOK, FeedOK, MissedOK, ring, Written, Held
<1>10. AskedOK'
  BY <1>1, <1>2, <1>6 DEF AskedOK
<1> QED BY <1>7, <1>8, <1>9, <1>10 DEF IInv

LEMMA ReplyChunkKeeps == IInv /\ ReplyChunk => IInv'
<1> SUFFICES ASSUME IInv, ReplyChunk PROVE IInv'
  OBVIOUS
<1>0. PICK t : t = Smaller(size - reply.j, reply.len)
  OBVIOUS
<1> DEFINE chunk == [i \in 1..t |-> backlog[reply.j + i - 1]]
<1>1. /\ reply.len # 0 /\ UNCHANGED ring
      /\ reply' = [from |-> reply.from, j |-> 0, len |-> reply.len - t,
                   out |-> reply.out \o chunk]
  BY <1>0 DEF ReplyChunk
<1>2. /\ reply.from \in Nat /\ reply.j \in Nat /\ reply.len \in Nat
      /\ reply.out \in Seq(Bytes) /\ Len(reply.out) \in Nat
      /\ size \in Nat \ {0} /\ idx \in Nat /\ histlen \in Nat /\ offset \in Nat
  BY SizeAssumption DEF IInv, TypeOK
<1>3. reply.from > 0
  BY <1>1, <1>2 DEF IInv, AskedOK, NoReply
<1>4. /\ p = << >> /\ backlog # NoBuffer /\ reply.len <= histlen /\ histlen <= size
      /\ reply.j = Behind(size, idx, reply.len)
      /\ reply.from + Len(reply.out) + reply.len = offset + 1
      /\ idx < size /\ backlog \in [0..(size - 1) -> Bytes] /\ Len(p) = 0
  BY <1>1, <1>2, <1>3 DEF IInv, ReplyOK, FeedOK, TypeOK
<1>5. /\ t \in Nat /\ t >= 1 /\ t <= reply.len /\ reply.j + t <= size
      /\ reply.len - t > 0 => Behind(size, idx, reply.len - t) = 0
      /\ \A m \in 1..t : reply.j + m - 1 = Behind(size, idx, reply.len - m + 1)
  <2>1. /\ reply.len \in Nat \ {0} /\ reply.len <= size
        /\ size \in Nat \ {0} /\ idx \in Nat /\ idx < size
        /\ reply.j = IF reply.len <= idx THEN idx - reply.len ELSE idx - reply.len + size
    BY <1>1, <1>2, <1>4 DEF Behind
  <2>2. t = IF size - reply.j < reply.len THEN size - reply.j ELSE reply.len
    BY <1>0 DEF Smaller
  <2>3. t \in Nat /\ t >= 1 /\ t <= reply.len /\ reply.j + t <= size
    BY <2>1, <2>2
  <2>4. reply.len - t > 0 => Behind(size, idx, reply.len - t) = 0
    BY <2>1, <2>2, <2>3 DEF Behind
  <2>5. ASSUME NEW m \in 1..t
        PROVE reply.j + m - 1 = Behind(size, idx, reply.len - m + 1)
    <3>1. m \in Nat /\ m >= 1 /\ m <= t BY <2>3
    <3> QED BY <2>1, <2>2, <2>3, <3>1 DEF Behind
  <2> QED BY <2>3, <2>4, <2>5
<1>6. chunk \in Seq(Bytes) /\ Len(chunk) = t
  <2>1. \A i \in 1..t : backlog[reply.j + i - 1] \in Bytes
    <3> SUFFICES ASSUME NEW i \in 1..t PROVE backlog[reply.j + i - 1] \in Bytes
      OBVIOUS
    <3>1. reply.j + i - 1 \in 0..(size - 1) BY <1>2, <1>5
    <3> QED BY <3>1, <1>4
  <2>2. t \in Nat /\ chunk \in [1..t -> Bytes] BY <2>1, <1>2, <1>5
  <2> HIDE DEF chunk
  <2> QED BY <2>2
<1>7. \A i \in 1..t : chunk[i] = stream[reply.from + Len(reply.out) + i - 1]
  <2> SUFFICES ASSUME NEW i \in 1..t
               PROVE chunk[i] = stream[reply.from + Len(reply.out) + i - 1]
    OBVIOUS
  <2> DEFINE k == reply.len - i + 1
  <2>5. chunk[i] = backlog[reply.j + i - 1] OBVIOUS
  <2> HIDE DEF chunk
  <2>6. i \in Nat /\ i >= 1 /\ i <= t /\ t \in Nat /\ t <= reply.len /\ reply.len \in Nat
    BY <1>2, <1>5
  <2>7. reply.len <= histlen /\ histlen <= size /\ histlen \in Nat /\ size \in Nat
    BY <1>2, <1>4
  <2>1. k \in 1..Held BY <2>6, <2>7 DEF Held, Smaller
  <2>2. reply.j + i - 1 = Behind(size, idx, k)
    BY <1>5
  <2>3. backlog[Behind(size, idx, k)] = stream[Written - k + 1]
    BY <1>4, <2>1 DEF IInv, RingOK
  <2>4. Written - k + 1 = reply.from + Len(reply.out) + i - 1
    <3>1. /\ reply.from + Len(reply.out) + reply.len = offset + 1
          /\ reply.from \in Nat /\ Len(reply.out) \in Nat /\ offset \in Nat
          /\ Written = offset
      BY <1>2, <1>4 DEF Written
    <3>2. reply.len \in Nat /\ i \in Nat BY <2>6
    <3>3. offset - k + 1 = reply.from + Len(reply.out) + i - 1
      <4>1. PICK f, l, n : f = reply.from /\ l = Len(reply.out) /\ n = reply.len
        OBVIOUS
      <4>2. f \in Nat /\ l \in Nat /\ n \in Nat /\ f + l + n = offset + 1
        BY <4>1, <3>1, <3>2
      <4>3. offset - (n - i + 1) + 1 = f + l + i - 1
        BY <4>2, <3>1, <3>2, OffsetOfByte
      <4> QED BY <4>1, <4>3
    <3> QED BY <3>1, <3>3
  <2> QED BY <2>2, <2>3, <2>4, <2>5
<1> HIDE DEF chunk
<1>9. /\ reply'.from = reply.from /\ reply'.j = 0 /\ reply'.len = reply.len - t
      /\ reply'.out = reply.out \o chunk
  BY <1>1
<1>10. /\ reply.out \o chunk \in Seq(Bytes)
       /\ Len(reply.out \o chunk) = Len(reply.out) + t
       /\ \A i \in 1..(Len(reply.out) + t) : (reply.out \o chunk)[i] =
             IF i <= Len(reply.out) THEN reply.out[i] ELSE chunk[i - Len(reply.out)]
  BY <1>2, <1>6
<1>11. TypeOK'
  <2>1. reply.len - t \in Nat BY <1>2, <1>5
  <2>2. reply' \in [from : Nat, j : Nat, len : Nat, out : Seq(Bytes)]
    BY <2>1, <1>1, <1>2, <1>10
  <2> QED BY <2>2, <1>1 DEF IInv, TypeOK, ring
<1>12. ReplyOK'
  <2>1. \A i \in 1..(Len(reply.out) + t) :
           (reply.out \o chunk)[i] = stream[reply.from + i - 1]
    <3> SUFFICES ASSUME NEW i \in 1..(Len(reply.out) + t)
                 PROVE (reply.out \o chunk)[i] = stream[reply.from + i - 1]
      OBVIOUS
    <3>1. CASE i <= Len(reply.out)
      BY <3>1, <1>2, <1>3, <1>10 DEF IInv, ReplyOK
    <3>2. CASE i > Len(reply.out)
      <4>1. i - Len(reply.out) \in 1..t BY <3>2, <1>2, <1>5
      <4>2. chunk[i - Len(reply.out)] =
              stream[reply.from + Len(reply.out) + (i - Len(reply.out)) - 1]
        BY <4>1, <1>7
      <4>3. reply.from + Len(reply.out) + (i - Len(reply.out)) - 1 = reply.from + i - 1
        BY <1>2, <1>5
      <4> QED BY <4>2, <4>3, <3>2, <1>2, <1>5, <1>10
    <3>3. i \in Nat
      <4>1. Len(reply.out) + t \in Nat BY <1>2, <1>5
      <4> QED BY <4>1
    <3>4. i <= Len(reply.out) \/ i > Len(reply.out) BY <3>3, <1>2
    <3> QED BY <3>1, <3>2, <3>4
  <2>2. UNCHANGED <<size, backlog, idx, histlen, offset, p, stream>> BY <1>1 DEF ring
  <2>3. reply'.len <= histlen /\ reply'.from + Len(reply'.out) + reply'.len = offset + 1
    <3>1. /\ reply.len <= histlen /\ reply.from + Len(reply.out) + reply.len = offset + 1
          /\ t \in Nat /\ t >= 1 /\ reply.len \in Nat /\ histlen \in Nat /\ offset \in Nat
          /\ reply.from \in Nat /\ Len(reply.out) \in Nat
      BY <1>2, <1>4, <1>5
    <3>2. /\ reply'.len = reply.len - t /\ reply'.from = reply.from
          /\ Len(reply'.out) = Len(reply.out) + t
      BY <1>9, <1>10
    <3> QED BY <3>1, <3>2
  <2>4. reply'.len > 0 => reply'.j = Behind(size, idx, reply'.len)
    BY <1>5, <1>9
  <2>5. \A i \in 1..Len(reply'.out) : reply'.out[i] = stream[reply'.from + i - 1]
    BY <2>1, <1>9, <1>10
  <2> QED BY <1>4, <2>2, <2>3, <2>4, <2>5 DEF ReplyOK
<1>13. RingOK' /\ MissedOK'
  BY <1>1 DEF IInv, RingOK, MissedOK, ring, Written, Held
<1>14. FeedOK'
  BY <1>1, <1>4 DEF IInv, FeedOK, ring
<1>15. AskedOK'
  BY <1>2, <1>3, <1>9 DEF AskedOK
<1> QED BY <1>11, <1>12, <1>13, <1>14, <1>15 DEF IInv

\* The invariant is inductive and holds in every reachable state.
LEMMA StepKeeps == IInv /\ [Next]_vars => IInv'
<1> SUFFICES ASSUME IInv, [Next]_vars PROVE IInv'
  OBVIOUS
<1>1. CASE createReplicationBacklog BY <1>1, CreateKeeps
<1>2. CASE freeReplicationBacklog \/ FeedNothing BY <1>2, FreeKeeps
<1>3. CASE \E n \in Sizes : resizeReplicationBacklog(n) BY <1>3, ResizeKeeps
<1>4. CASE \E bytes \in FeedArgs : feedReplicationBacklog(bytes)
  <2>1. PICK bytes \in FeedArgs : feedReplicationBacklog(bytes) BY <1>4
  <2>2. PICK n \in 1..MaxFeed : bytes \in [1..n -> Bytes \ {Garbage}]
    BY <2>1 DEF FeedArgs
  <2>3. bytes \in Seq(Bytes) BY <2>2, BoundAssumption
  <2> QED BY <2>1, <2>3, FeedKeeps
<1>5. CASE FeedChunk BY <1>5, FeedChunkKeeps
<1>6. CASE \E o \in 0..(MaxOffset + 1) : addReplyReplicationBacklog(o)
  BY <1>6, ReplyKeeps, BoundAssumption
<1>7. CASE ReplyChunk BY <1>7, ReplyChunkKeeps
<1>8. CASE UNCHANGED vars
  <2> USE <1>8 DEF vars
  <2>1. TypeOK' /\ RingOK' BY DEF IInv, TypeOK, RingOK, Written, Held, Behind
  <2>2. FeedOK' /\ ReplyOK' /\ MissedOK' /\ AskedOK'
    BY DEF IInv, FeedOK, ReplyOK, MissedOK, AskedOK, Written, Behind
  <2> QED BY <2>1, <2>2 DEF IInv
<1> QED BY <1>1, <1>2, <1>3, <1>4, <1>5, <1>6, <1>7, <1>8 DEF Next

LEMMA Invariant == Spec => []IInv
BY InitHolds, StepKeeps, PTL DEF Spec

\* The index of the backlog stays inside the buffer, for every size and every
\* sequence of feeds (feedReplicationBacklog, replication.c:125-148).
THEOREM BacklogTypeCorrect == Spec => []TypeOK
<1>1. IInv => TypeOK BY DEF IInv
<1> QED BY <1>1, Invariant, PTL

\* A completed answer to an accepted PSYNC is the stream from the requested
\* offset on, for every buffer size (addReplyReplicationBacklog,
\* replication.c:302-350).
THEOREM PsyncReplyExact == Spec => []ReplyIsStreamSuffix
<1>1. IInv => ReplyIsStreamSuffix
  <2> SUFFICES ASSUME IInv, reply.len = 0, reply.from > 0
               PROVE  /\ Len(reply.out) = offset - reply.from + 1
                      /\ \A i \in 1..Len(reply.out) : reply.out[i] = stream[reply.from + i - 1]
    BY DEF ReplyIsStreamSuffix
  <2>1. reply.from \in Nat /\ Len(reply.out) \in Nat /\ offset \in Nat BY DEF IInv, TypeOK
  <2>2. reply.from + Len(reply.out) + 0 = offset + 1 BY DEF IInv, ReplyOK
  <2> QED BY <2>1, <2>2 DEF IInv, ReplyOK
<1> QED BY <1>1, Invariant, PTL

\* No slave is served from an offset at which commands went uncounted
\* (createReplicationBacklog, replication.c:71-86).
THEOREM PsyncNeverSkips == Spec => []NoPsyncAcrossGap
<1>1. IInv => NoPsyncAcrossGap
  <2> SUFFICES ASSUME IInv, NEW o \in missed, Idle, Accepted(o + 1) PROVE FALSE
    BY DEF NoPsyncAcrossGap
  <2>1. p = << >> /\ backlog # NoBuffer /\ o + 1 >= off BY DEF Idle, Accepted
  <2>2. off = offset - histlen + 1 /\ Written = offset /\ o + 1 <= Written - histlen
    BY <2>1 DEF IInv, FeedOK, MissedOK, Written, TypeOK
  <2>3. o \in Nat /\ offset \in Nat /\ histlen \in Nat BY DEF IInv, TypeOK
  <2> QED BY <2>1, <2>2, <2>3
<1> QED BY <1>1, Invariant, PTL

\* A partial resynchronisation gives a slave exactly what it lacks: the two above, the
\* property of masterTryPartialResynchronization that the run on data structures checks.
THEOREM PsyncCorrect == Spec => []PsyncSound
<1>1. ReplyIsStreamSuffix /\ NoPsyncAcrossGap => PsyncSound BY DEF PsyncSound
<1> QED BY <1>1, PsyncReplyExact, PsyncNeverSkips, PTL
=============================================================================
