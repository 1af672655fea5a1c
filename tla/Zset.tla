-------------------------------- MODULE Zset --------------------------------
(***************************************************************************)
(* Sorted sets (src/struct/t_zset.c) in their two encodings: a ziplist of  *)
(* pairs, and a skip list with a dict from members to scores.  The list in *)
(* either is a sequence of pairs <<member, score>>; what the functions of  *)
(* the skip list do with its levels and spans is in the module Skiplist.   *)
(* One key holds the sorted set, another a plain set.  A member is an      *)
(* integer in the order of compareStringObjects.                           *)
(***************************************************************************)
EXTENDS Integers, Sequences, SequencesExt, FiniteSetsExt

CONSTANTS
  Elements,
  Long,          \* the members longer than zset_max_ziplist_value
  MaxEntries,    \* zset_max_ziplist_entries
  Inputs,        \* the scores commands are given
  Inf,           \* +inf; -Inf is -inf
  MaxScore,      \* bound on finite scores
  Other,         \* the members of the plain set
  Weights

VARIABLES
  zobj,          \* the object at the key: [enc, l, d]; Null: no key
  call           \* the last command: [cmd: its arguments, touched: signalModifiedKey was
                 \* called, dirty: server.dirty was increased]

vars == <<zobj, call>>

Null == [enc |-> "none", l |-> <<>>, d |-> [e \in {} |-> 0]]
\* Not a number, and the score of what is not there.
NaN == Inf + 1

----------------------------------------------------------------------------
(* Scores, as doubles.                                                     *)

DAdd(a, b) ==
  CASE a \in {Inf, -Inf} /\ b = -a -> NaN
    [] a \in {Inf, -Inf} -> a
    [] b \in {Inf, -Inf} -> b
    [] OTHER -> a + b
DMul(w, a) == IF a \notin {Inf, -Inf} THEN w * a ELSE IF w = 0 THEN NaN ELSE a
Zero(v) == IF v = NaN THEN 0 ELSE v
Scores == (-MaxScore)..MaxScore \cup {Inf, -Inf}

GteMin(v, range) == IF range.minex THEN v > range.min ELSE v >= range.min
LteMax(v, range) == IF range.maxex THEN v < range.max ELSE v <= range.max
Ranges(S) == [min : S, max : S, minex : BOOLEAN, maxex : BOOLEAN]

----------------------------------------------------------------------------
(* The list of pairs.                                                      *)

Less(p, q) == p[2] < q[2] \/ (p[2] = q[2] /\ p[1] < q[1])

\* zzlFind: the position of a member, 0 if it is not there.
zzlFind(l, e) == SelectInSeq(l, LAMBDA p : p[1] = e)

\* zzlInsert and zslInsert: before the first pair that is greater.
InsertPair(l, p) ==
  LET at == SelectInSeq(l, LAMBDA q : Less(p, q))
  IN IF at = 0 THEN Append(l, p) ELSE InsertAt(l, at, p)

\* zzlDelete; zslDelete finds the node by its score and member.
zzlDelete(l, i) == RemoveAt(l, i)
zslDelete(l, p) == IF \E i \in DOMAIN l : l[i] = p THEN RemoveAt(l, SelectInSeq(l, LAMBDA q : q = p)) ELSE l

\* What a range is about: the member (lexicographic ranges) or the score.
Val(lex, p) == IF lex THEN p[1] ELSE p[2]

\* Part of the list is in the range (of members, as in Skiplist, the comparison of
\* min and max must give more than 1).
IsInRange(l, lex, range) ==
  LET above == range.min - range.max > IF lex THEN 1 ELSE 0
      empty == above \/ (range.min = range.max /\ (range.minex \/ range.maxex))
  IN ~empty /\ l # <<>> /\ GteMin(Val(lex, l[Len(l)]), range) /\ LteMax(Val(lex, l[1]), range)
zzlIsInRange(l, range) == IsInRange(l, FALSE, range)
zzlIsInLexRange(l, range) == IsInRange(l, TRUE, range)

\* The first pair not below the range, unless it is above it; the last not above.
FirstIn(l, lex, range) ==
  LET i == SelectInSeq(l, LAMBDA p : GteMin(Val(lex, p), range))
  IN IF i # 0 /\ LteMax(Val(lex, l[i]), range) THEN i ELSE 0
LastIn(l, lex, range) ==
  LET i == SelectLastInSeq(l, LAMBDA p : LteMax(Val(lex, p), range))
  IN IF i # 0 /\ GteMin(Val(lex, l[i]), range) THEN i ELSE 0

zzlFirstInRange(l, range) == IF zzlIsInRange(l, range) THEN FirstIn(l, FALSE, range) ELSE 0
zzlLastInRange(l, range) == IF zzlIsInRange(l, range) THEN LastIn(l, FALSE, range) ELSE 0
zzlFirstInLexRange(l, range) == IF zzlIsInLexRange(l, range) THEN FirstIn(l, TRUE, range) ELSE 0
zzlLastInLexRange(l, range) == IF zzlIsInLexRange(l, range) THEN LastIn(l, TRUE, range) ELSE 0

FirstInRange(l, lex, range) == IF lex THEN zzlFirstInLexRange(l, range) ELSE zzlFirstInRange(l, range)
LastInRange(l, lex, range) == IF lex THEN zzlLastInLexRange(l, range) ELSE zzlLastInRange(l, range)

\* The positions from i on, forward or back, as long as P holds.
Run(l, i, back, P(_)) ==
  LET js == IF back THEN [j \in 1..i |-> i + 1 - j] ELSE [j \in 1..(Len(l) + 1 - i) |-> i + j - 1]
      stop == SelectInSeq(js, LAMBDA j : ~P(l[j]))
  IN IF i = 0 THEN <<>> ELSE IF stop = 0 THEN js ELSE SubSeq(js, 1, stop - 1)

DeleteRange(l, lex, range) ==
  LET i == FirstInRange(l, lex, range)
      n == Len(Run(l, i, FALSE, LAMBDA p : LteMax(Val(lex, p), range)))
  IN IF n = 0 THEN l ELSE SubSeq(l, 1, i - 1) \o SubSeq(l, i + n, Len(l))
zzlDeleteRangeByScore(l, range) == DeleteRange(l, FALSE, range)
zzlDeleteRangeByLex(l, range) == DeleteRange(l, TRUE, range)
\* Positions count from 1 here, as those of the code do.
zzlDeleteRangeByRank(l, start, end) == SubSeq(l, 1, start - 1) \o SubSeq(l, end + 1, Len(l))

\* The indexes of ZRANGE and ZREMRANGEBYRANK, made positive; the range may be empty.
Sanitize(start, end, llen) ==
  LET s0 == IF start < 0 THEN llen + start ELSE start
      e == IF end < 0 THEN llen + end ELSE end
      s == IF s0 < 0 THEN 0 ELSE s0
  IN IF s > e \/ s >= llen THEN <<>> ELSE <<s, IF e >= llen THEN llen - 1 ELSE e>>

----------------------------------------------------------------------------
(* The object.                                                             *)

Dict(l) == [e \in {l[i][1] : i \in DOMAIN l} |-> l[zzlFind(l, e)][2]]

\* zsetConvert: from a ziplist every pair is inserted anew, from a skip list the
\* nodes are pushed at the tail.
zsetConvert(z, enc) ==
  IF z.enc = enc THEN z
  ELSE IF enc = "skiplist"
  THEN LET ins[i \in 0..Len(z.l)] == IF i = 0 THEN <<>> ELSE InsertPair(ins[i - 1], z.l[i])
       IN [enc |-> enc, l |-> ins[Len(z.l)], d |-> Dict(z.l)]
  ELSE [enc |-> enc, l |-> z.l, d |-> Null.d]

zsetLength(z) == Len(z.l)

Find(z, e) ==
  IF z.enc = "skiplist" THEN IF e \in DOMAIN z.d THEN z.d[e] ELSE NaN
  ELSE IF zzlFind(z.l, e) = 0 THEN NaN ELSE z.l[zzlFind(z.l, e)][2]

PutPair_NoDict(z, e, s) ==
  LET cur == Find(z, e)
      l == IF cur = NaN THEN z.l ELSE IF z.enc = "skiplist" THEN zslDelete(z.l, <<e, cur>>)
           ELSE zzlDelete(z.l, zzlFind(z.l, e))
  IN [z EXCEPT !.l = InsertPair(l, <<e, s>>),
               !.d = IF z.enc = "skiplist" /\ cur = NaN THEN [x \in DOMAIN @ \cup {e} |-> IF x = e THEN s ELSE @[x]] ELSE @]

\* The pair is inserted, or moved to its new place, in the list and in the dict.
PutPair(z, e, s) ==
  LET cur == Find(z, e)
      l == IF cur = NaN THEN z.l ELSE IF z.enc = "skiplist" THEN zslDelete(z.l, <<e, cur>>)
           ELSE zzlDelete(z.l, zzlFind(z.l, e))
  IN [z EXCEPT !.l = InsertPair(l, <<e, s>>),
               !.d = IF z.enc = "skiplist" THEN [x \in DOMAIN @ \cup {e} |-> IF x = e THEN s ELSE @[x]] ELSE @]

TooBig(z, e) == zsetLength(z) > MaxEntries \/ e \in Long

----------------------------------------------------------------------------
(* Commands.                                                               *)

Done_KeyGone(cmd, z, changed) ==
  zobj' = z /\ call' = [cmd |-> cmd, touched |-> changed /\ z # Null, dirty |-> changed]

Done(cmd, z, changed) == zobj' = z /\ call' = [cmd |-> cmd, touched |-> changed, dirty |-> changed]

\* zaddGenericCommand: one member and score after the other; ZINCRBY has one, and
\* nothing happens if the sum is not a number.
zaddGenericCommand(ps, incr) ==
  LET first == IF zobj # Null THEN zobj
               ELSE [Null EXCEPT !.enc = IF MaxEntries = 0 \/ ps[1][1] \in Long THEN "skiplist" ELSE "ziplist"]
      add[i \in 0..Len(ps)] ==
        LET a == add[i - 1]
            e == ps[i][1]
            cur == Find(a.z, e)
            score == IF incr /\ cur # NaN THEN DAdd(ps[i][2], cur) ELSE ps[i][2]
            put == PutPair(a.z, e, score)
        IN CASE i = 0 -> [z |-> first, changed |-> FALSE]
             [] i > 0 /\ score \in {NaN, cur} -> a
             [] OTHER -> [a EXCEPT !.changed = TRUE,
                                   !.z = IF cur = NaN /\ TooBig(put, e)
                                         THEN zsetConvert(put, "skiplist") ELSE put]
      a == add[Len(ps)]
  IN /\ \A i \in DOMAIN a.z.l : a.z.l[i][2] \in Scores
     /\ Done([name |-> IF incr THEN "zincrby" ELSE "zadd", pairs |-> ps], a.z, a.changed)

\* zremCommand; the key goes with its last member.
zremCommand(es) ==
  LET rem[i \in 0..Len(es)] ==
        LET z == rem[i - 1]
            cur == Find(z, es[i])
        IN CASE i = 0 -> zobj
             [] i > 0 /\ cur = NaN -> z
             [] OTHER -> [z EXCEPT
                  !.l = IF z.enc = "skiplist" THEN zslDelete(z.l, <<es[i], cur>>)
                        ELSE zzlDelete(z.l, zzlFind(z.l, es[i])),
                  !.d = [x \in DOMAIN @ \ {es[i]} |-> @[x]]]
      z == rem[Len(es)]
      deleted == Len(zobj.l) - Len(z.l)
  IN zobj # Null /\ Done([name |-> "zrem", members |-> es], IF z.l = <<>> THEN Null ELSE z, deleted > 0)

\* zremrangeGenericCommand: with what the deletion by rank, score or member leaves.
\* The members of the nodes that are deleted are deleted from the dict.
zremrangeGenericCommand(cmd, l) ==
  LET deleted == Len(zobj.l) - Len(l)
      gone == {p[1] : p \in ToSet(zobj.l) \ ToSet(l)}
      z == [zobj EXCEPT !.l = l, !.d = [e \in DOMAIN @ \ gone |-> @[e]]]
  IN zobj # Null /\ Done(cmd, IF l = <<>> THEN Null ELSE z, deleted > 0)

RemRangeByRank(start, end) ==
  LET r == Sanitize(start, end, zsetLength(zobj))
      l == zzlDeleteRangeByRank(zobj.l, r[1] + 1, r[2] + 1)
  IN r # <<>> /\ zremrangeGenericCommand([name |-> "zremrangebyrank", start |-> start, end |-> end], l)
RemRangeByScore(range) ==
  zremrangeGenericCommand([name |-> "zremrangebyscore", range |-> range],
                          zzlDeleteRangeByScore(zobj.l, range))
RemRangeByLex(range) ==
  /\ Cardinality({zobj.l[i][2] : i \in DOMAIN zobj.l}) <= 1
  /\ zremrangeGenericCommand([name |-> "zremrangebylex", range |-> range],
                             zzlDeleteRangeByLex(zobj.l, range))

\* zunionInterAggregate.
zunionInterAggregate(target, val, agg) ==
  CASE agg = "sum" -> IF val = NaN THEN 0 ELSE Zero(DAdd(target, val))
    [] agg = "min" -> IF val # NaN /\ val < target THEN val ELSE target
    [] agg = "max" -> IF val # NaN /\ val > target THEN val ELSE target

\* zuiLength, zuiNext and zuiFind: a source is this key or the set.
SrcElements(s) == IF s = "set" THEN SetToSeq(Other) ELSE [i \in DOMAIN zobj.l |-> zobj.l[i][1]]
SrcScore(s, e) == IF s = "set" THEN IF e \in Other THEN 1 ELSE NaN ELSE Find(zobj, e)

\* The intersection: the members of the first source that are in all.  The score
\* of the first that is not a number counts as 0, the others do not.
InterPairs(src, agg, w) ==
  LET es == SelectSeq(SrcElements(src[1]), LAMBDA e : \A j \in DOMAIN src : SrcScore(src[j], e) # NaN)
      Score(e) == LET agr[j \in DOMAIN src] ==
                        IF j = 1 THEN Zero(DMul(w, SrcScore(src[1], e)))
                        ELSE zunionInterAggregate(agr[j - 1], DMul(w, SrcScore(src[j], e)), agg)
                  IN agr[Len(src)]
  IN {<<es[i], Score(es[i])>> : i \in DOMAIN es}

UnionPairs_FirstOnly(src, agg, w) ==
  {<<e, Zero(DMul(w, SrcScore(src[Len(src)], e)))>> : e \in {x \in Elements : SrcScore(src[Len(src)], x) # NaN}}

\* The union: the accumulator, one source after the other.
UnionPairs(src, agg, w) ==
  LET all == {e \in Elements : \E j \in DOMAIN src : SrcScore(src[j], e) # NaN}
      Score(e) == LET acc[j \in 0..Len(src)] ==
                        IF j = 0 THEN NaN
                        ELSE IF SrcScore(src[j], e) = NaN THEN acc[j - 1]
                        ELSE LET v == Zero(DMul(w, SrcScore(src[j], e)))
                             IN IF acc[j - 1] = NaN THEN v ELSE zunionInterAggregate(acc[j - 1], v, agg)
                  IN acc[Len(src)]
  IN {<<e, Score(e)>> : e \in all}

\* zunionInterGenericCommand, with this key as destination: the sources from the
\* smallest on, of equal size in any order; a skip list is built and made a
\* ziplist if it is in the limits.
zunionInterGenericCommand(op, src, agg, w) ==
  LET pairs == IF op = "union" THEN UnionPairs(src, agg, w) ELSE InterPairs(src, agg, w)
      l == SetToSortSeq(pairs, Less)
      dst == [enc |-> "skiplist", l |-> l, d |-> Dict(l)]
      fits == Len(l) <= MaxEntries /\ \A i \in DOMAIN l : l[i][1] \notin Long
      cmd == [name |-> "zstore", op |-> op, src |-> src, agg |-> agg, weight |-> w]
  IN /\ \A i \in 1..(Len(src) - 1) : Len(SrcElements(src[i])) <= Len(SrcElements(src[i + 1]))
     /\ \A p \in pairs : p[2] \in Scores
     /\ IF l # <<>>
        THEN Done(cmd, IF fits THEN zsetConvert(dst, "ziplist") ELSE dst, TRUE)
        ELSE Done(cmd, Null, zobj # Null)

Init == zobj = Null /\ call = [cmd |-> [name |-> "none"], touched |-> FALSE, dirty |-> FALSE]

Sources == {<<"z">>, <<"z", "z">>, <<"z", "set">>, <<"set", "z">>}

Next ==
  \/ \E e \in Elements, s \in Inputs, incr \in BOOLEAN : zaddGenericCommand(<<<<e, s>>>>, incr)
  \/ \E e, f \in Elements, s, t \in Inputs : zaddGenericCommand(<<<<e, s>>, <<f, t>>>>, FALSE)
  \/ \E e, f \in Elements : zremCommand(<<e, f>>)
  \/ \E start, end \in (-2)..2 : RemRangeByRank(start, end)
  \/ \E range \in Ranges(Inputs) : RemRangeByScore(range)
  \/ \E range \in Ranges(Elements) : RemRangeByLex(range)
  \/ \E op \in {"union", "inter"}, src \in Sources, agg \in {"sum", "min", "max"}, w \in Weights :
       zunionInterGenericCommand(op, src, agg, w)

----------------------------------------------------------------------------
(* Reading.                                                                *)

\* zrangeGenericCommand.
zrangeGenericCommand(z, start, end, reverse) ==
  LET r == Sanitize(start, end, zsetLength(z))
  IN IF r = <<>> THEN <<>>
     ELSE [i \in 1..(r[2] - r[1] + 1) |->
             IF reverse THEN z.l[Len(z.l) - r[1] + 1 - i][1] ELSE z.l[r[1] + i][1]]

\* From the first, or the last, in the range, offset members on, at most limit of
\* them; less than 0 is no limit, and an offset less than 0 passes all.
RangeBy(z, lex, range, reverse, offset, limit) ==
  LET from == IF reverse THEN LastInRange(z.l, lex, range) ELSE FirstInRange(z.l, lex, range)
      at == IF from = 0 \/ offset < 0 THEN 0 ELSE IF reverse THEN from - offset ELSE from + offset
      js == IF at \notin DOMAIN z.l THEN <<>>
            ELSE Run(z.l, at, reverse, LAMBDA p : IF reverse THEN GteMin(Val(lex, p), range)
                                                  ELSE LteMax(Val(lex, p), range))
      n == IF limit < 0 \/ limit > Len(js) THEN Len(js) ELSE limit
  IN [i \in 1..n |-> z.l[js[i]][1]]
genericZrangebyscoreCommand(z, range, reverse, offset, limit) ==
  RangeBy(z, FALSE, range, reverse, offset, limit)
genericZrangebylexCommand(z, range, reverse, offset, limit) ==
  RangeBy(z, TRUE, range, reverse, offset, limit)

\* By walking a ziplist, by ranks in a skip list.
CountBy(z, lex, range) ==
  LET first == FirstInRange(z.l, lex, range)
      last == LastInRange(z.l, lex, range)
  IN IF first = 0 THEN 0
     ELSE IF z.enc = "ziplist" THEN Len(Run(z.l, first, FALSE, LAMBDA p : LteMax(Val(lex, p), range)))
     ELSE (Len(z.l) - (first - 1)) - IF last = 0 THEN 0 ELSE Len(z.l) - last
zcountCommand(z, range) == CountBy(z, FALSE, range)
zlexcountCommand(z, range) == CountBy(z, TRUE, range)

\* zrankGenericCommand; -1 if the member is not there.
zrankGenericCommand(z, e, reverse) ==
  LET rank == IF z.enc = "skiplist" THEN SelectInSeq(z.l, LAMBDA p : p = <<e, Find(z, e)>>) ELSE zzlFind(z.l, e)
  IN IF Find(z, e) = NaN THEN -1 ELSE IF reverse THEN zsetLength(z) - rank ELSE rank - 1

----------------------------------------------------------------------------
(* Properties.                                                             *)

Abs(z) == [e \in {z.l[i][1] : i \in DOMAIN z.l} |-> z.l[zzlFind(z.l, e)][2]]

\* In both encodings the commands of sorted sets do to the map from members to
\* scores what they promise (conversions of the encoding included).
ZS == INSTANCE ZsetSpec WITH zset <- Abs(zobj), cmd <- call.cmd
Implements == ZS!Spec

\* The list is sorted without a member twice, the dict of a skip list agrees with
\* it, an empty sorted set is not kept, and a ziplist is within the configured limits.
EncodingRight ==
  /\ \A i \in 1..(Len(zobj.l) - 1) : Less(zobj.l[i], zobj.l[i + 1])
  /\ Cardinality({zobj.l[i][1] : i \in DOMAIN zobj.l}) = Len(zobj.l)
  /\ zobj.enc = "skiplist" => zobj.d = Abs(zobj)
  /\ (zobj.l = <<>>) <=> (zobj = Null)
  /\ zobj.enc = "ziplist" => Len(zobj.l) <= MaxEntries /\ \A e \in Long : zzlFind(zobj.l, e) = 0

\* What the reading commands answer is what the map alone determines, whichever
\* encoding they walk.
ReadsRight ==
  LET z == Abs(zobj)
      n == Cardinality(DOMAIN z)
      Sorted(S, reverse) ==
        SetToSortSeq(S, LAMBDA e, f : IF reverse THEN ZS!Rank(z, e) > ZS!Rank(z, f)
                                      ELSE ZS!Rank(z, e) < ZS!Rank(z, f))
      By(S, reverse, offset, limit) ==
        LET all == Sorted(S, reverse)
            to == IF limit < 0 \/ offset + limit > Len(all) THEN Len(all) ELSE offset + limit
        IN IF offset < 0 THEN <<>> ELSE SubSeq(all, offset + 1, to)
      same == Cardinality({z[e] : e \in DOMAIN z}) <= 1
  IN /\ \A start, end \in (-2)..3 :
          /\ zrangeGenericCommand(zobj, start, end, FALSE) = Sorted(ZS!ByRank(z, start, end), FALSE)
          /\ zrangeGenericCommand(zobj, start, end, TRUE) = 
               Sorted({e \in DOMAIN z : LET r == n - 1 - ZS!Rank(z, e)
                                        IN r >= ZS!FromEnd(start, n) /\ r <= ZS!FromEnd(end, n)}, TRUE)
     /\ \A range \in Ranges(Inputs) :
          /\ zcountCommand(zobj, range) = Cardinality(ZS!ByScore(z, range))
          /\ \A reverse \in BOOLEAN, offset \in {-1, 0, 1}, limit \in {-1, 1} :
               LET all == By(ZS!ByScore(z, range), reverse, offset, limit)
               IN genericZrangebyscoreCommand(zobj, range, reverse, offset, limit) = all
     /\ same => \A range \in Ranges(Elements) :
          /\ zlexcountCommand(zobj, range) = Cardinality(ZS!ByLex(z, range))
          /\ genericZrangebylexCommand(zobj, range, TRUE, 0, -1) = By(ZS!ByLex(z, range), TRUE, 0, -1)
     /\ \A e \in Elements : zrankGenericCommand(zobj, e, TRUE) =
                              IF e \in DOMAIN z THEN n - 1 - ZS!Rank(z, e) ELSE -1

\* A command that changes the sorted set signals the key as modified (for WATCH)
\* and counts as dirty (for the append only file and the slaves).
ChangesSignalled ==
  Abs(zobj') # Abs(zobj) => call'.touched /\ call'.dirty
=============================================================================
