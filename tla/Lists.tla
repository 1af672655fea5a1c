-------------------------------- MODULE Lists --------------------------------
(***************************************************************************)
(* The list type of t_list.c over its two encodings, a ziplist (a sequence *)
(* here, its bytes are Ziplist's) and a linked list of adlist.c, with the  *)
(* conversions between them, and the commands that change a list.  `call'  *)
(* records the last command as it is propagated, the keys signalled as     *)
(* modified and what it added to server.dirty.                             *)
(***************************************************************************)
EXTENDS Adlist

CONSTANTS
  Keys,
  Values,       \* numbers standing for strings
  Long,         \* those longer than list_max_ziplist_value
  MaxEntries,   \* list_max_ziplist_entries
  MaxTotal      \* bound on the elements of all lists together

VARIABLES db, call

Absent == [enc |-> "none", zl |-> <<>>, ll |-> listCreate]
Ziplist(s) == [enc |-> "ziplist", zl |-> s, ll |-> listCreate]
Linked_(l) == [enc |-> "linkedlist", zl |-> <<>>, ll |-> l]

Elements(o) == IF o.enc = "linkedlist" THEN Listed(o.ll) ELSE o.zl

listTypeLength(o) == IF o.enc = "linkedlist" THEN o.ll.len ELSE Len(o.zl)

listTypeConvert(o) ==
    LET l[i \in 0..Len(o.zl)] ==
            IF i = 0 THEN listCreate ELSE listAddNodeTail(l[i - 1], o.zl[i])
    IN Linked_(l[Len(o.zl)])

listTypeTryConversion(o, value) ==
    IF o.enc = "ziplist" /\ value \in Long THEN listTypeConvert(o) ELSE o

listTypePush(o, value, head) ==
    LET t == listTypeTryConversion(o, value)
        s == IF t.enc = "ziplist" /\ Len(t.zl) >= MaxEntries THEN listTypeConvert(t) ELSE t
    IN IF s.enc = "ziplist"
       THEN Ziplist(IF head THEN <<value>> \o s.zl ELSE Append(s.zl, value))
       ELSE Linked_(IF head THEN listAddNodeHead(s.ll, value)
                            ELSE listAddNodeTail(s.ll, value))

\* The element at one end, and the list without it.
listTypePop(o, head) ==
    IF o.enc = "ziplist"
    THEN [value |-> IF head THEN o.zl[1] ELSE o.zl[Len(o.zl)],
          o |-> Ziplist(IF head THEN Tail(o.zl) ELSE SubSeq(o.zl, 1, Len(o.zl) - 1))]
    ELSE LET n == IF head THEN o.ll.head ELSE o.ll.tail
         IN [value |-> Value(o.ll, n), o |-> Linked_(listDelNode(o.ll, n))]

-----------------------------------------------------------------------------
(* Iterators.  The position is a node of the linked list, or an index of   *)
(* the ziplist; 0 when there is nothing left.                              *)

ziplistIndex(s, index) ==
    LET i == IF index < 0 THEN Len(s) + index + 1 ELSE index + 1
    IN IF i \in 1..Len(s) THEN i ELSE 0

listTypeInitIterator(o, index) ==
    IF o.enc = "ziplist" THEN ziplistIndex(o.zl, index) ELSE listIndex(o.ll, index)

listTypeNext(o, at, forward) ==
    IF o.enc = "ziplist"
    THEN IF forward THEN (IF at = Len(o.zl) THEN 0 ELSE at + 1) ELSE at - 1
    ELSE Advance(o.ll, at, forward)

listTypeGet(o, at) == IF o.enc = "ziplist" THEN o.zl[at] ELSE Value(o.ll, at)

listTypeInsert(o, at, value, after) ==
    IF o.enc = "ziplist"
    THEN LET i == IF after THEN at ELSE at - 1
         IN Ziplist(SubSeq(o.zl, 1, i) \o <<value>> \o SubSeq(o.zl, i + 1, Len(o.zl)))
    ELSE Linked_(listInsertNode(o.ll, at, value, after))

\* The list without the entry, and where the iterator goes on: in a ziplist the
\* next entry has taken the deleted one's place.
listTypeDelete(o, at, forward) ==
    IF o.enc = "ziplist"
    THEN LET s == SubSeq(o.zl, 1, at - 1) \o SubSeq(o.zl, at + 1, Len(o.zl))
             p == IF forward THEN at ELSE at - 1
         IN [o |-> Ziplist(s), at |-> IF p \in 1..Len(s) THEN p ELSE 0]
    ELSE [o |-> Linked_(listDelNode(o.ll, at)), at |-> Advance(o.ll, at, forward)]

\* The first entry equal to value, seeking from the head.
Seek(o, value) ==
    LET At[k \in 0..listTypeLength(o)] ==
            IF k = 0 THEN listTypeInitIterator(o, 0)
            ELSE IF At[k - 1] = 0 \/ listTypeGet(o, At[k - 1]) = value THEN At[k - 1]
            ELSE listTypeNext(o, At[k - 1], TRUE)
    IN At[listTypeLength(o)]

-----------------------------------------------------------------------------
(* Commands.                                                               *)

\* Every key whose object changed is signalled; an emptied list is deleted.
Store(k, o) == [db EXCEPT ![k] = IF listTypeLength(o) = 0 THEN Absent ELSE o]

\* A command with no effect is not propagated.
NoCmd == [name |-> "none"]

Done(prop, newdb, keys, dirty) ==
    /\ db' = newdb
    /\ call' = [prop |-> IF dirty = 0 THEN NoCmd ELSE prop, keys |-> keys, dirty |-> dirty]

Cmd(name, k, args) == [name |-> name, key |-> k, dst |-> k, args |-> args, after |-> FALSE]

\* A command that changes nothing it propagates (it may still convert).
Nothing(newdb) == Done(NoCmd, newdb, {}, 0)

Total == LET Add[S \in SUBSET Keys] ==
                 IF S = {} THEN 0
                 ELSE LET k == CHOOSE k \in S : TRUE IN listTypeLength(db[k]) + Add[S \ {k}]
         IN Add[Keys]

pushGenericCommand(k, values, head) ==
    LET new == IF db[k].enc = "none" THEN Ziplist(<<>>) ELSE db[k]
        pushed[i \in 0..Len(values)] ==
            IF i = 0 THEN new ELSE listTypePush(pushed[i - 1], values[i], head)
    IN /\ Total + Len(values) <= MaxTotal
       /\ Done(Cmd(IF head THEN "lpush" ELSE "rpush", k, values),
               [db EXCEPT ![k] = pushed[Len(values)]], {k}, Len(values))

pushxCommand(k, value, head) ==
    IF db[k].enc = "none" THEN Nothing(db)
    ELSE /\ Total < MaxTotal
         /\ Done(Cmd(IF head THEN "lpush" ELSE "rpush", k, <<value>>),
                 [db EXCEPT ![k] = listTypePush(db[k], value, head)], {k}, 1)

\* The list is converted before the reference is sought, found or not.
linsertCommand(k, refval, value, after) ==
    LET s == listTypeTryConversion(db[k], value)
        at == Seek(s, refval)
        i == listTypeInsert(s, at, value, after)
        o == IF i.enc = "ziplist" /\ Len(i.zl) > MaxEntries THEN listTypeConvert(i) ELSE i
    IN IF db[k].enc = "none" THEN Nothing(db)
       ELSE IF at = 0 THEN Nothing([db EXCEPT ![k] = s])
       ELSE /\ Total < MaxTotal
            /\ Done([Cmd("linsert", k, <<refval, value>>) EXCEPT !.after = after],
                    [db EXCEPT ![k] = o], {k}, 1)

lsetCommand(k, index, value) ==
    LET s == listTypeTryConversion(db[k], value)
        at == listTypeInitIterator(s, index)
    IN IF db[k].enc = "none" THEN Nothing(db)
       ELSE IF at = 0 THEN Nothing([db EXCEPT ![k] = s])
       ELSE Done(Cmd("lset", k, <<index, value>>),
                 [db EXCEPT ![k] = IF s.enc = "ziplist" THEN [s EXCEPT !.zl[at] = value]
                                   ELSE [s EXCEPT !.ll.node[at].value = value]], {k}, 1)

popGenericCommand(k, head) ==
    IF db[k].enc = "none" THEN Nothing(db)
    ELSE Done(Cmd(IF head THEN "lpop" ELSE "rpop", k, <<>>),
              Store(k, listTypePop(db[k], head).o), {k}, 1)

\* LRANGE and LTRIM: the first and last position of the range, counted from
\* zero; an empty range is [1, 0].
RangeOf(llen, start, end) ==
    LET s0 == IF start < 0 THEN llen + start ELSE start
        e0 == IF end < 0 THEN llen + end ELSE end
        s == IF s0 < 0 THEN 0 ELSE s0
    IN IF s > e0 \/ s >= llen THEN <<1, 0>> ELSE <<s, IF e0 >= llen THEN llen - 1 ELSE e0>>

lrangeCommand(o, start, end) ==
    LET llen == listTypeLength(o)
        r == RangeOf(llen, start, end)
        from == IF o.enc = "linkedlist" /\ r[1] > llen \div 2 THEN r[1] - llen ELSE r[1]
        At[j \in 0..(r[2] - r[1])] ==
            IF j = 0 THEN listTypeInitIterator(o, from) ELSE listTypeNext(o, At[j - 1], TRUE)
    IN IF r = <<1, 0>> THEN <<>>
       ELSE [j \in 1..(r[2] - r[1] + 1) |-> listTypeGet(o, At[j - 1])]

lindexCommand(o, index) ==
    LET at == listTypeInitIterator(o, index) IN IF at = 0 THEN 0 ELSE listTypeGet(o, at)

\* Deletes count nodes from one end.
DelNodes(l, count, head) ==
    LET Del[j \in 0..count] ==
            IF j = 0 THEN l
            ELSE listDelNode(Del[j - 1], IF head THEN Del[j - 1].head ELSE Del[j - 1].tail)
    IN Del[count]

ltrimCommand(k, start, end) ==
    LET o == db[k]
        llen == listTypeLength(o)
        r == RangeOf(llen, start, end)
        ltrim == IF r = <<1, 0>> THEN llen ELSE r[1]
        rtrim == IF r = <<1, 0>> THEN 0 ELSE llen - r[2] - 1
    IN IF o.enc = "none" THEN Nothing(db)
       ELSE Done(Cmd("ltrim", k, <<start, end>>),
                 Store(k, IF o.enc = "ziplist"
                          THEN Ziplist(SubSeq(o.zl, ltrim + 1, llen - rtrim))
                          ELSE Linked_(DelNodes(DelNodes(o.ll, ltrim, TRUE), rtrim, FALSE))),
                 {k}, 1)

lremCommand(k, count, value) ==
    LET forward == count >= 0
        toremove == IF forward THEN count ELSE -count
        start == [o |-> db[k], at |-> listTypeInitIterator(db[k], IF forward THEN 0 ELSE -1),
                  removed |-> 0]
        Loop[i \in 0..listTypeLength(db[k])] ==
            IF i = 0 THEN start
            ELSE LET s == Loop[i - 1]
                     d == listTypeDelete(s.o, s.at, forward)
                 IN IF s.at = 0 \/ (toremove > 0 /\ s.removed = toremove) THEN s
                    ELSE IF listTypeGet(s.o, s.at) = value
                    THEN [o |-> d.o, at |-> d.at, removed |-> s.removed + 1]
                    ELSE [s EXCEPT !.at = listTypeNext(s.o, s.at, forward)]
        end == Loop[listTypeLength(db[k])]
    IN IF db[k].enc = "none" THEN Nothing(db)
       ELSE Done(Cmd("lrem", k, <<count, value>>), Store(k, end.o),
                 IF end.removed > 0 THEN {k} ELSE {}, end.removed)

\* The objects are pointers: when src = dst the push sees the popped list, and
\* the source is deleted only if it is still empty after the push.
rpoplpushCommand(src, dst) ==
    LET p == listTypePop(db[src], FALSE)
        popped == [db EXCEPT ![src] = p.o]
        d == IF popped[dst].enc = "none" THEN Ziplist(<<>>) ELSE popped[dst]
        pushed == [popped EXCEPT ![dst] = listTypePush(d, p.value, TRUE)]
    IN IF db[src].enc = "none" THEN Nothing(db)
       ELSE Done([Cmd("rpoplpush", src, <<>>) EXCEPT !.dst = dst],
                 IF listTypeLength(pushed[src]) = 0 THEN [pushed EXCEPT ![src] = Absent]
                 ELSE pushed, {src, dst}, 1)

-----------------------------------------------------------------------------
Init ==
    /\ db = [k \in Keys |-> Absent]
    /\ call = [prop |-> NoCmd, keys |-> {}, dirty |-> 0]

Indexes == -MaxTotal..MaxTotal

Next == \E k \in Keys :
    \/ \E v \in Values, w \in Values, head \in BOOLEAN :
         \/ pushGenericCommand(k, <<v, w>>, head)
         \/ pushGenericCommand(k, <<v>>, head)
         \/ pushxCommand(k, v, head)
         \/ linsertCommand(k, v, w, head)
    \/ \E v \in Values, i \in Indexes : lsetCommand(k, i, v) \/ lremCommand(k, i, v)
    \/ \E head \in BOOLEAN : popGenericCommand(k, head)
    \/ \E i, j \in Indexes : ltrimCommand(k, i, j)
    \/ \E dst \in Keys : rpoplpushCommand(k, dst)

vars == <<db, call>>
Spec == Init /\ [][Next]_vars

-----------------------------------------------------------------------------
(* Properties.                                                             *)

\* Whatever sequence of pushes, inserts, trims and removals made it, a linked list
\* is linked in both directions with the right head, tail and len; copying it,
\* searching it and rotating it then do what their names say.
AdlistRight == \A k \in Keys :
    LET l == db[k].ll
        s == Listed(l)
        r == listRotate(l)
    IN /\ Linked(l) /\ Linked(r)
       /\ Listed(listDup(l)) = s
       /\ l.len > 0 => Listed(r) = <<s[Len(s)]>> \o SubSeq(s, 1, Len(s) - 1)
       /\ \A v \in Values :
            LET n == listSearchKey(l, v)
            IN IF n = NULL THEN \A i \in 1..Len(s) : s[i] # v
               ELSE From(l, n, TRUE)[1] = v /\ \A i \in 1..(Len(s) - Len(From(l, n, TRUE))) : s[i] # v

\* A ziplist stays within its limits on number and length of elements, else it has
\* been converted, and no key holds an empty list.
ListEncodingRight == \A k \in Keys :
    LET o == db[k]
    IN /\ o.enc = "ziplist" => /\ Len(o.zl) <= MaxEntries
                               /\ \A i \in 1..Len(o.zl) : o.zl[i] \notin Long
       /\ o.enc # "none" => listTypeLength(o) > 0

\* LRANGE, which walks a linked list from whichever end is nearer, and LINDEX
\* return what their positions in the sequence say, in both encodings.
ListReadsRight == \A k \in Keys : \A i, j \in Indexes :
    LET s == Elements(db[k])
        r == RangeOf(Len(s), i, j)
        at == IF i < 0 THEN Len(s) + i + 1 ELSE i + 1
    IN db[k].enc # "none" =>
       /\ lrangeCommand(db[k], i, j) = SubSeq(s, r[1] + 1, r[2] + 1)
       /\ lindexCommand(db[k], i) = IF at \in 1..Len(s) THEN s[at] ELSE 0

\* A command that changed the elements of a key signals that key (WATCH depends on
\* it) and counts the change in server.dirty (replication and the AOF depend on it).
ListChangesSignalled ==
    \A k \in Keys : Elements(db'[k]) # Elements(db[k]) =>
      k \in call'.keys /\ call'.dirty > 0

\* Whatever the encoding, the lists change exactly as the propagated command says:
\* a slave that has the same sequences in another encoding ends up with the same.
LS == INSTANCE ListSpec WITH lists <- [k \in Keys |-> Elements(db[k])], cmd <- call.prop
ListImplements == LS!Spec
=============================================================================
