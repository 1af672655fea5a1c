-------------------------------- MODULE Reply --------------------------------
(***************************************************************************)
(* The output of clients (networking.c): replies go to the static buffer,  *)
(* then to a list of objects that may be shared with the keyspace or with  *)
(* the lists of other slaves; the last one is appended to while it is      *)
(* small; the length of a multi bulk reply is filled in later; the list is *)
(* written by an event handler, and limits may have the client closed.     *)
(***************************************************************************)
EXTENDS Integers, Sequences, FiniteSets, SequencesExt, FiniteSetsExt

CONSTANTS
  Normal, Slaves,   \* a normal client, and slaves that wait for a save at first
  Feeding,          \* the first slave
  Values,           \* objects of the keyspace: what each of them holds
  Buf,              \* sizeof(c->buf)
  Chunk,            \* REDIS_REPLY_CHUNK_BYTES
  MaxWrite,         \* REDIS_MAX_WRITE_PER_EVENT
  Item,             \* sizeof(listNode) + sizeof(robj)
  Header,           \* sizeof(struct sdshdr)
  Hard, Soft, Secs, \* limits on the output of all classes; 0: none
  MaxObj,           \* bound on the number of objects
  MaxBytes,         \* bound on the bytes sent to a client
  MaxTime           \* bound on the clock

VARIABLES
  obj,      \* objects: [s, cap, ref]; ref = 0 is free.  1..Len(Values) are the keyspace's
  cl,       \* clients
  wire,     \* what was written to the socket of each
  want,     \* the pieces of the replies of each, in order
  now,      \* server.unixtime
  over      \* since when the normal client's output was not below the soft limit; 0: it is

vars == <<obj, cl, wire, want, now, over>>

Clients == {Normal} \cup Slaves
Null == 0     \* in a list: the length that is not there yet

\* The objects and one client, which is what the functions below work on.
State(c) == [o |-> obj, x |-> cl[c]]

\* zmalloc_size_sds.
Size(v) == Header + v.cap

Free(o) == {i \in DOMAIN o : o[i].ref = 0}
New(o, s) == [o EXCEPT ![Min(Free(o))] = [s |-> s, cap |-> Len(s), ref |-> 1]]
incrRefCount(o, i) == [o EXCEPT ![i].ref = @ + 1]
decrRefCount(o, i) ==
  [o EXCEPT ![i] = IF @.ref = 1 THEN [s |-> <<>>, cap |-> 0, ref |-> 0] ELSE [@ EXCEPT !.ref = @ - 1]]

\* sdscatlen: a string that has no room for it gets twice what it needs.
sdscatlen(v, s) ==
  [v EXCEPT !.s = @ \o s, !.cap = IF @ >= Len(v.s) + Len(s) THEN @ ELSE 2 * (Len(v.s) + Len(s))]

-----------------------------------------------------------------------------
(* Limits.                                                                 *)

getClientOutputBufferMemoryUsage(x) == x.bytes + Item * Len(x.reply)

\* checkClientOutputBufferLimits: the time the soft limit was reached, and the result.
checkClientOutputBufferLimits(x) ==
  LET used == getClientOutputBufferMemoryUsage(x)
      soft == Soft # 0 /\ used >= Soft
  IN [soft |-> IF ~soft THEN 0 ELSE IF x.soft = 0 THEN now ELSE x.soft,
      close |-> \/ Hard # 0 /\ used >= Hard
                \/ soft /\ x.soft # 0 /\ now - x.soft > Secs]

\* freeClientAsync marks the client; it is closed from serverCron.
asyncCloseClientOnOutputBufferLimitReached(x) ==
  LET Then(k) == [x EXCEPT !.soft = k.soft, !.asap = k.close]
  IN IF x.bytes = 0 \/ x.asap THEN x ELSE Then(checkClientOutputBufferLimits(x))

-----------------------------------------------------------------------------
(* Adding.                                                                 *)

\* prepareClientToWrite: the handler is installed for the first bytes.
prepareClientToWrite(x) ==
  IF x.buf = <<>> /\ x.reply = <<>> /\ x.online THEN [x EXCEPT !.writer = TRUE] ELSE x

\* _addReplyToBuffer has room; nothing overtakes what is in the list.
ToBuffer(x, s) == x.reply = <<>> /\ Len(s) <= Buf - Len(x.buf)

AppendLast_Shared(w, s) ==
  LET i == Last(w.x.reply)
      o == [w.o EXCEPT ![i] = sdscatlen(@, s)]
  IN [o |-> o, x |-> [w.x EXCEPT !.bytes = @ - Size(w.o[i]) + Size(o[i])]]

\* dupLastObjectIfNeeded, and the string at its end.
AppendLast(w, s) ==
  LET i == Last(w.x.reply)
      With(o, j) == [o |-> o, x |-> [w.x EXCEPT !.reply[Len(w.x.reply)] = j, !.bytes = @ - Size(w.o[i]) + Size(o[j])]]
      Cat(dup, j) == With([dup EXCEPT ![j] = sdscatlen(@, s)], j)
  IN IF w.o[i].ref > 1 THEN Cat(decrRefCount(New(w.o, w.o[i].s), i), Min(Free(w.o))) ELSE Cat(w.o, i)

\* Whether the last object takes s as well.
Fits(w, s) ==
  /\ w.x.reply # <<>> /\ Last(w.x.reply) # Null
  /\ Len(w.o[Last(w.x.reply)].s) + Len(s) <= Chunk

Limit(w) == [w EXCEPT !.x = asyncCloseClientOnOutputBufferLimitReached(@)]

_addReplyObjectToList(w, i) ==
  Limit(IF Fits(w, w.o[i].s) THEN AppendLast(w, w.o[i].s)
        ELSE [o |-> incrRefCount(w.o, i), x |-> [w.x EXCEPT !.reply = Append(@, i), !.bytes = @ + Size(w.o[i])]])

\* _addReplyStringToList, and _addReplySdsToList.
_addReplyStringToList(w, s) ==
  Limit(IF Fits(w, s) THEN AppendLast(w, s)
        ELSE [o |-> New(w.o, s),
              x |-> [w.x EXCEPT !.reply = Append(@, Min(Free(w.o))), !.bytes = @ + Header + Len(s)]])

addReply(w, i) ==
  LET x == prepareClientToWrite(w.x)
  IN IF x.closing THEN [w EXCEPT !.x = x]
     ELSE IF ToBuffer(x, w.o[i].s) THEN [w EXCEPT !.x = [x EXCEPT !.buf = @ \o w.o[i].s]]
     ELSE _addReplyObjectToList([w EXCEPT !.x = x], i)

addReplyString(w, s) ==
  LET x == prepareClientToWrite(w.x)
  IN IF x.closing THEN [w EXCEPT !.x = x]
     ELSE IF ToBuffer(x, s) THEN [w EXCEPT !.x = [x EXCEPT !.buf = @ \o s]]
     ELSE _addReplyStringToList([w EXCEPT !.x = x], s)

addDeferredMultiBulkLength(w) == [w EXCEPT !.x = [prepareClientToWrite(@) EXCEPT !.reply = Append(@, Null)]]

\* The k-th of the list becomes the length, with the string after it glued to it.
setDeferredMultiBulkLength(w, k, s) ==
  LET n == Min(Free(w.o))
      o == New(w.o, s)
      next == w.x.reply[k + 1]
      glue == k < Len(w.x.reply) /\ next # Null
  IN Limit(IF glue
           THEN [o |-> [decrRefCount(o, next) EXCEPT ![n] = sdscatlen(o[n], o[next].s)],
                 x |-> [w.x EXCEPT !.reply = RemoveAt([@ EXCEPT ![k] = n], k + 1),
                                   !.bytes = @ - Size(o[next]) + Size(sdscatlen(o[n], o[next].s))]]
           ELSE [o |-> o, x |-> [w.x EXCEPT !.reply[k] = n, !.bytes = @ + Header + Len(s)]])

-----------------------------------------------------------------------------
(* Sending.                                                                *)

\* The loop of sendReplyToClient, with room for `room' bytes in the socket; sent
\* are the bytes of this call.  A string is freed when all of it was written; an empty
\* one would be without reply_bytes being told.
RECURSIVE Send(_, _, _)
Send(w, room, sent) ==
  LET x == w.x
      i == Head(x.reply)
      s == IF x.buf # <<>> THEN x.buf ELSE w.o[i].s
      n == IF room < Len(s) - x.sent THEN room ELSE Len(s) - x.sent
      more == [w EXCEPT !.x.sent = @ + n]
      all == IF x.buf # <<>> THEN [w EXCEPT !.x.buf = <<>>, !.x.sent = 0]
             ELSE [o |-> decrRefCount(w.o, i),
                   x |-> [x EXCEPT !.reply = Tail(@), !.sent = 0, !.bytes = @ - Size(w.o[i])]]
      out == sent \o SubSeq(s, x.sent + 1, x.sent + n)
      next == IF x.sent + n = Len(s) THEN all ELSE more
  IN IF x.buf = <<>> /\ x.reply = <<>> THEN [w |-> w, sent |-> sent]
     ELSE IF s = <<>> THEN Send([o |-> decrRefCount(w.o, i), x |-> [x EXCEPT !.reply = Tail(@)]], room, sent)
     ELSE IF n = 0 THEN [w |-> w, sent |-> sent]
     ELSE IF Len(out) > MaxWrite THEN [w |-> next, sent |-> out]
     ELSE Send(next, room - n, out)

\* freeClient, as far as the output goes.
RECURSIVE Release(_, _)
Release(o, reply) ==
  IF reply = <<>> THEN o
  ELSE Release(IF Head(reply) = Null THEN o ELSE decrRefCount(o, Head(reply)), Tail(reply))
freeClient(w) ==
  [o |-> Release(w.o, w.x.reply),
   x |-> [w.x EXCEPT !.alive = FALSE, !.buf = <<>>, !.reply = <<>>, !.bytes = 0, !.sent = 0,
                     !.writer = FALSE, !.asap = FALSE, !.soft = 0]]

\* The handler is removed once all was sent, and the client closed if it is to be.
Installed(w) ==
  IF w.x.buf = <<>> /\ w.x.reply = <<>>
  THEN LET d == [w EXCEPT !.x.writer = FALSE] IN IF w.x.closing THEN freeClient(d) ELSE d
  ELSE w

-----------------------------------------------------------------------------

NewClient(alive, online) ==
  [alive |-> alive, online |-> online, buf |-> <<>>, reply |-> <<>>, sent |-> 0, bytes |-> 0,
   closing |-> FALSE, asap |-> FALSE, soft |-> 0, writer |-> FALSE, open |-> <<>>]

Init ==
  /\ obj = [i \in 1..MaxObj |-> IF i <= Len(Values) THEN [s |-> Values[i], cap |-> Len(Values[i]), ref |-> 1]
                                ELSE [s |-> <<>>, cap |-> 0, ref |-> 0]]
  /\ \E on \in {{Normal}, {Feeding}} : cl = [c \in Clients |-> NewClient(c \in on, c = Normal)]
  /\ wire = [c \in Clients |-> <<>>] /\ want = [c \in Clients |-> <<>>]
  /\ now = 1 /\ over = 0

Sum(ss) == Len(FlattenSeq(ss))
Building == \E c \in Clients : cl[c].open # <<>>

\* `over', which no code keeps, is for the property about the soft limit.
Become(c, w) ==
  /\ obj' = w.o /\ cl' = [cl EXCEPT ![c] = w.x]
  /\ over' = IF c # Normal THEN over ELSE IF getClientOutputBufferMemoryUsage(w.x) < Soft THEN 0
             ELSE IF over = 0 THEN now ELSE over
Wanted(c, s) == want' = [want EXCEPT ![c] = IF cl[c].closing THEN @ ELSE Append(@, s)]
Turn(c) == cl[c].alive /\ (Building => cl[c].open # <<>>)
Room(c, n) == Sum(want[c]) + n <= MaxBytes /\ Cardinality(Free(obj)) > 2

\* addReplyBulk: the length of a value of the keyspace, which is never empty, and the
\* value, which may be; a string made for the reply.
AddBulk(c, i) ==
  /\ Turn(c) /\ Room(c, 1 + Len(obj[i].s))
  /\ Become(c, addReply(addReplyString(State(c), <<6>>), i)) /\ Wanted(c, <<6>> \o obj[i].s)
  /\ UNCHANGED <<wire, now>>
AddString(c, s) ==
  /\ Turn(c) /\ Room(c, Len(s))
  /\ Become(c, addReplyString(State(c), s)) /\ Wanted(c, s)
  /\ UNCHANGED <<wire, now>>

\* The object of a command that is propagated, to all slaves one after the other.
FeedSlaves(i) ==
  LET on == SetToSeq({c \in Slaves : cl[c].alive})
      With(v, c, r) == [o |-> r.o, cl |-> [v.cl EXCEPT ![c] = r.x]]
      w[k \in 0..Len(on)] == IF k = 0 THEN [o |-> obj, cl |-> cl]
                             ELSE With(w[k - 1], on[k], addReply([o |-> w[k - 1].o, x |-> w[k - 1].cl[on[k]]], i))
  IN /\ on # <<>> /\ obj[i].s # <<>> /\ \A c \in ToSet(on) : Room(c, Len(obj[i].s))
     /\ obj' = w[Len(on)].o /\ cl' = w[Len(on)].cl
     /\ want' = [c \in Clients |-> IF c \in ToSet(on) THEN Append(want[c], obj[i].s) ELSE want[c]]
     /\ UNCHANGED <<wire, now, over>>

\* A multi bulk reply: its length comes last.  Replies may be nested (as those of
\* scripts are); open are the places of the lengths that are missing, and of the
\* pieces of want.
OpenMultiBulk(c) ==
  /\ c = Normal /\ Turn(c) /\ ~cl[c].closing /\ Room(c, 2) /\ Len(cl[c].open) < 2
  /\ LET w == addDeferredMultiBulkLength(State(c))
     IN Become(c, [w EXCEPT !.x.open = Append(@, [node |-> Len(w.x.reply), piece |-> Len(want[c]) + 1])])
  /\ want' = [want EXCEPT ![c] = Append(@, <<>>)]
  /\ UNCHANGED <<wire, now>>
CloseMultiBulk(c, s) ==
  /\ cl[c].open # <<>> /\ Cardinality(Free(obj)) > 1
  /\ LET at == Last(cl[c].open)
         w == setDeferredMultiBulkLength(State(c), at.node, s)
     IN /\ Become(c, [w EXCEPT !.x.open = Front(@)])
        /\ want' = [want EXCEPT ![c][at.piece] = s]
  /\ UNCHANGED <<wire, now>>

\* The connection is closed once the reply was sent.
CloseAfterReply ==
  /\ Turn(Normal) /\ cl[Normal].open = <<>> /\ ~cl[Normal].closing /\ want[Normal] # <<>>
  /\ cl' = [cl EXCEPT ![Normal].closing = TRUE]
  /\ UNCHANGED <<obj, wire, want, now, over>>

\* A slave that shares the save of another gets a copy of what the other has to get.
copyClientOutputBuffer(dst, src) ==
  /\ {dst, src} \subseteq Slaves /\ cl[src].alive /\ ~cl[src].online
  /\ ~cl[dst].alive /\ ~cl[dst].online /\ want[dst] = <<>>
  /\ obj' = [i \in DOMAIN obj |-> [obj[i] EXCEPT !.ref = @ + Cardinality({k \in DOMAIN cl[src].reply : cl[src].reply[k] = i})]]
  /\ cl' = [cl EXCEPT ![dst].alive = TRUE, ![dst].reply = cl[src].reply, ![dst].buf = cl[src].buf, ![dst].bytes = cl[src].bytes]
  /\ want' = [want EXCEPT ![dst] = want[src]]
  /\ UNCHANGED <<wire, now, over>>

\* The save is done and was sent (putSlaveOnline).
Online(c) ==
  /\ ~Building /\ cl[c].alive /\ ~cl[c].online
  /\ cl' = [cl EXCEPT ![c].online = TRUE, ![c].writer = TRUE]
  /\ UNCHANGED <<obj, wire, want, now, over>>

\* sendReplyToClient; with an error the client is freed.
sendReplyToClient(c, room) ==
  /\ ~Building /\ cl[c].alive /\ cl[c].writer
  /\ \E r \in {Send(State(c), room, <<>>)} :
       Become(c, Installed(r.w)) /\ wire' = [wire EXCEPT ![c] = @ \o r.sent]
  /\ UNCHANGED <<want, now>>
WriteError(c) ==
  /\ ~Building /\ cl[c].alive /\ cl[c].writer
  /\ Become(c, freeClient(State(c)))
  /\ UNCHANGED <<wire, want, now>>

\* freeClientsInAsyncFreeQueue, from serverCron.
freeClientsInAsyncFreeQueue(c) ==
  /\ ~Building /\ cl[c].alive /\ cl[c].asap
  /\ Become(c, freeClient(State(c)))
  /\ UNCHANGED <<wire, want, now>>

Tick == ~Building /\ now < MaxTime /\ now' = now + 1 /\ UNCHANGED <<obj, cl, wire, want, over>>

Strings == {<<7>>, <<8, 8>>}

Next ==
  \/ \E i \in 1..Len(Values) : AddBulk(Normal, i) \/ FeedSlaves(i)
  \/ \E s \in Strings : AddString(Normal, s)
  \/ OpenMultiBulk(Normal) \/ CloseMultiBulk(Normal, <<9>>)
  \/ \E c \in Clients : \/ Online(c)
                        \/ \E room \in 0..MaxBytes : sendReplyToClient(c, room)
                        \/ WriteError(c) \/ freeClientsInAsyncFreeQueue(c)
                        \/ \E d \in Clients : copyClientOutputBuffer(c, d)
  \/ CloseAfterReply \/ Tick

Spec == Init /\ [][Next]_vars

-----------------------------------------------------------------------------

\* What is still to be sent to a client.
Pending(c) ==
  LET x == cl[c]
      list == FlattenSeq([k \in DOMAIN x.reply |-> IF x.reply[k] = Null THEN <<>> ELSE obj[x.reply[k]].s])
      all == x.buf \o list
  IN SubSeq(all, x.sent + 1, Len(all))

\* What was sent to a client and what is waiting are its replies, in order and with
\* nothing missing, also when an object in its list is also in the keyspace or in
\* the list of another slave, and when lengths were filled in late.
WireExact == \A c \in Clients : cl[c].alive => wire[c] \o Pending(c) = FlattenSeq(want[c])

\* No value of the keyspace is changed by the replies that are built from it.
SharedIntact == \A i \in 1..Len(Values) : obj[i].s = Values[i] /\ obj[i].ref >= 1

\* reply_bytes is the memory of the objects in the list, which is what the limits
\* are about (an empty value must not be an object of the list by itself), and no
\* object that is in no list and not in the keyspace is left.
BytesAccounted ==
  LET cap(c) == [k \in DOMAIN cl[c].reply |-> IF cl[c].reply[k] = Null THEN 0 ELSE Size(obj[cl[c].reply[k]])]
      refs(i) == {<<c, k>> \in Clients \X (1..MaxObj) : k \in DOMAIN cl[c].reply /\ cl[c].reply[k] = i}
  IN /\ \A c \in Clients : cl[c].bytes = FoldSeq(LAMBDA a, b : a + b, 0, cap(c))
     /\ \A i \in DOMAIN obj : obj[i].ref = Cardinality(refs(i)) + IF i <= Len(Values) THEN 1 ELSE 0

\* A client that can be written to and has output has the handler that writes it.
OutputNotForgotten ==
  \A c \in Clients : (cl[c].alive /\ cl[c].online /\ Pending(c) # <<>>) => cl[c].writer

\* A client is scheduled to be closed for the soft limit only if its output was not
\* below that limit for more than the seconds of the limit, as the comment in
\* checkClientOutputBufferLimits says ("continuously").  It does not hold: nothing looks
\* at the limit while the output shrinks.
SoftLimitContinuous ==
  (cl[Normal].alive /\ cl[Normal].asap /\ Hard = 0) => over # 0 /\ now - over > Secs
=============================================================================
