------------------------------ MODULE Skiplist ------------------------------
(***************************************************************************)
(* The skip list of src/struct/t_zset.c: nodes ordered by score and then   *)
(* by element, each with a random number of levels; at every level a       *)
(* pointer forward and its span, the number of nodes it passes, from which *)
(* ranks are computed.  A node is named by its element; the header is 0,   *)
(* NULL is Nil.  Scores and elements are integers, compared as such.       *)
(***************************************************************************)
EXTENDS Integers, Sequences, FiniteSets, FiniteSetsExt

CONSTANTS
  Elements,    \* the members, positive integers in the order of compareStringObjects
  Scores,
  MaxLevel     \* ZSKIPLIST_MAXLEVEL

VARIABLE zsl   \* [level, length, tail, node]

Header == 0
Nil == -1

\* zslCreate.
zslCreate ==
  [level |-> 1, length |-> 0, tail |-> Nil,
   node |-> [x \in {Header} |-> [score |-> 0, back |-> Nil,
                                 fwd |-> [i \in 1..MaxLevel |-> Nil],
                                 span |-> [i \in 1..MaxLevel |-> 0]]]]

----------------------------------------------------------------------------
(* Walks.                                                                  *)

\* The walk all functions start with: from the highest level down, forward as
\* long as P holds of the next node, with the number of nodes passed.  The result
\* is, for every level, where it was left: update[i] and rank[i].
Walk(z, P(_, _)) ==
  LET along[i \in 1..MaxLevel, n \in 0..z.length] ==
        LET from == IF n > 0 THEN along[i, n - 1]
                    ELSE IF i >= z.level THEN [x |-> Header, rank |-> 0]
                    ELSE along[i + 1, z.length]
            next == z.node[from.x].fwd[i]
            r == from.rank + z.node[from.x].span[i]
        IN IF n > 0 /\ next # Nil /\ P(next, r)
           THEN [x |-> next, rank |-> r] ELSE from
  IN [i \in 1..MaxLevel |-> along[i, z.length]]

\* The node comes before score s and element e; the same or it is that node.
Before(z, x, s, e) == z.node[x].score < s \/ (z.node[x].score = s /\ x < e)
UpTo(z, x, s, e) == Before(z, x, s, e) \/ (z.node[x].score = s /\ x = e)

----------------------------------------------------------------------------
(* Changes.                                                                *)

UntouchedSpan_Kept(span) == span

\* The span, at a level the new node does not have, of the pointer that passes it.
UntouchedSpan(span) == span + 1

\* zslInsert, with the level the node gets.  The spans of levels that were not
\* in use are stale in the header.
zslInsert(z, s, e, level) ==
  LET w == Walk(z, LAMBDA x, r : Before(z, x, s, e))
      update == [i \in 1..MaxLevel |-> IF i > z.level THEN Header ELSE w[i].x]
      rank == [i \in 1..MaxLevel |-> IF i > z.level THEN 0 ELSE w[i].rank]
      span == [i \in 1..MaxLevel |-> IF i > z.level THEN z.length ELSE z.node[update[i]].span[i]]
      top == Max({z.level, level})
      new == [score |-> s, back |-> IF update[1] = Header THEN Nil ELSE update[1],
              fwd |-> [i \in 1..MaxLevel |-> IF i <= level THEN z.node[update[i]].fwd[i] ELSE Nil],
              span |-> [i \in 1..MaxLevel |-> IF i <= level THEN span[i] - (rank[1] - rank[i]) ELSE 0]]
      old == [x \in DOMAIN z.node |->
               [z.node[x] EXCEPT
                 !.fwd = [i \in 1..MaxLevel |-> IF i <= level /\ update[i] = x THEN e ELSE @[i]],
                 !.span = [i \in 1..MaxLevel |->
                            IF i > top \/ update[i] # x THEN @[i]
                            ELSE IF i <= level THEN (rank[1] - rank[i]) + 1 ELSE UntouchedSpan(span[i])],
                 !.back = IF new.fwd[1] = x THEN e ELSE @]]
  IN [level |-> top, length |-> z.length + 1, tail |-> IF new.fwd[1] = Nil THEN e ELSE z.tail,
      node |-> [x \in DOMAIN z.node \cup {e} |-> IF x = e THEN new ELSE old[x]]]

\* zslDeleteNode; then the highest levels that are empty are given up.
zslDeleteNode(z, x, update) ==
  LET gone == z.node[x]
      node == [y \in DOMAIN z.node \ {x} |->
                [z.node[y] EXCEPT
                  !.span = [i \in 1..MaxLevel |->
                             IF i > z.level \/ update[i] # y THEN @[i]
                             ELSE IF z.node[y].fwd[i] = x THEN @[i] + gone.span[i] - 1 ELSE @[i] - 1],
                  !.fwd = [i \in 1..MaxLevel |-> IF i <= z.level /\ @[i] = x /\ update[i] = y
                                                 THEN gone.fwd[i] ELSE @[i]],
                  !.back = IF gone.fwd[1] = y THEN gone.back ELSE @]]
      used == {i \in 1..z.level : i = 1 \/ node[Header].fwd[i] # Nil}
  IN [level |-> Max(used), length |-> z.length - 1,
      tail |-> IF gone.fwd[1] = Nil THEN gone.back ELSE z.tail, node |-> node]

Updates(w) == [i \in 1..MaxLevel |-> w[i].x]

\* zslDelete.
zslDelete(z, s, e) ==
  LET update == Updates(Walk(z, LAMBDA x, r : Before(z, x, s, e)))
      x == z.node[update[1]].fwd[1]
  IN IF x = e /\ z.node[x].score = s THEN zslDeleteNode(z, x, update) ELSE z

\* The loop of the functions that delete a range: the nodes after update[1], as
\* long as P holds of a node and of its rank.
DeleteWhile(z, w, P(_, _)) ==
  LET update == Updates(w)
      del[n \in 0..z.length] ==
        LET d == del[n - 1]
            x == d.z.node[update[1]].fwd[1]
        IN IF n = 0 THEN [z |-> z, go |-> TRUE]
           ELSE IF d.go /\ x # Nil /\ P(x, w[1].rank + n)
           THEN [z |-> zslDeleteNode(d.z, x, update), go |-> TRUE]
           ELSE [d EXCEPT !.go = FALSE]
  IN del[z.length].z

\* What a range is about: the element (lexicographic ranges) or its score.
Val(z, lex, x) == IF lex THEN x ELSE z.node[x].score

GteMin(v, range) == IF range.minex THEN v > range.min ELSE v >= range.min
LteMax(v, range) == IF range.maxex THEN v < range.max ELSE v <= range.max

zslDeleteRangeByScore(z, range) ==
  DeleteWhile(z, Walk(z, LAMBDA x, r : ~GteMin(z.node[x].score, range)),
              LAMBDA x, r : LteMax(z.node[x].score, range))
zslDeleteRangeByLex(z, range) ==
  DeleteWhile(z, Walk(z, LAMBDA x, r : ~GteMin(x, range)), LAMBDA x, r : LteMax(x, range))

zslDeleteRangeByRank(z, start, end) ==
  DeleteWhile(z, Walk(z, LAMBDA x, r : r < start), LAMBDA x, r : r <= end)

----------------------------------------------------------------------------
(* Reading.                                                                *)

\* zslGetRank; 0 if the element is not there.
zslGetRank(z, s, e) ==
  LET w == Walk(z, LAMBDA x, r : UpTo(z, x, s, e))
      hits == {i \in 1..z.level : w[i].x = e}
  IN IF hits = {} THEN 0 ELSE w[Max(hits)].rank

\* zslGetElementByRank.
zslGetElementByRank(z, rank) ==
  LET w == Walk(z, LAMBDA x, r : r <= rank)
      hits == {i \in 1..z.level : w[i].rank = rank}
  IN IF hits = {} THEN Nil ELSE w[Max(hits)].x

\* Part of the list is in the range.  Of members, min is above max only when the
\* comparison gives more than 1 (it is the difference of the first bytes that differ).
InRange(z, lex, range) ==
  LET first == z.node[Header].fwd[1]
      above == range.min - range.max > IF lex THEN 1 ELSE 0
      empty == above \/ (range.min = range.max /\ (range.minex \/ range.maxex))
  IN ~empty /\ z.tail # Nil /\ GteMin(Val(z, lex, z.tail), range) /\ LteMax(Val(z, lex, first), range)
zslIsInRange(z, range) == InRange(z, FALSE, range)
zslIsInLexRange(z, range) == InRange(z, TRUE, range)

First(z, lex, range) ==
  LET x == z.node[Walk(z, LAMBDA y, r : ~GteMin(Val(z, lex, y), range))[1].x].fwd[1]
  IN IF LteMax(Val(z, lex, x), range) THEN x ELSE Nil
Last(z, lex, range) ==
  LET x == Walk(z, LAMBDA y, r : LteMax(Val(z, lex, y), range))[1].x
  IN IF GteMin(Val(z, lex, x), range) THEN x ELSE Nil

zslFirstInRange(z, range) == IF zslIsInRange(z, range) THEN First(z, FALSE, range) ELSE Nil
zslLastInRange(z, range) == IF zslIsInRange(z, range) THEN Last(z, FALSE, range) ELSE Nil
zslFirstInLexRange(z, range) == IF zslIsInLexRange(z, range) THEN First(z, TRUE, range) ELSE Nil
zslLastInLexRange(z, range) == IF zslIsInLexRange(z, range) THEN Last(z, TRUE, range) ELSE Nil

----------------------------------------------------------------------------

Members(z) == DOMAIN z.node \ {Header}

Ranges(S) == [min : S, max : S, minex : BOOLEAN, maxex : BOOLEAN]

Init == zsl = zslCreate

Insert(s, e, level) == e \notin Members(zsl) /\ zsl' = zslInsert(zsl, s, e, level)
Delete(s, e) == zsl' = zslDelete(zsl, s, e)
DeleteRangeByScore(range) == zsl' = zslDeleteRangeByScore(zsl, range)
DeleteRangeByLex(range) == zsl' = zslDeleteRangeByLex(zsl, range)
DeleteRangeByRank(start, end) == zsl' = zslDeleteRangeByRank(zsl, start, end)

Next ==
  \/ \E s \in Scores, e \in Elements, level \in 1..MaxLevel : Insert(s, e, level) \/ Delete(s, e)
  \/ \E range \in Ranges(Scores) : DeleteRangeByScore(range)
  \/ \E range \in Ranges(Elements) : DeleteRangeByLex(range)
  \/ \E start, end \in 1..Cardinality(Elements) : DeleteRangeByRank(start, end)

----------------------------------------------------------------------------
(* The members in order, from their scores alone.                          *)

RankOf(z, e) == Cardinality({x \in Members(z) : UpTo(z, x, z.node[e].score, e)})

\* At every level the pointers go forward in order, and a span is the number of
\* nodes passed, up to the last node where the list ends; the pointers back and
\* the tail agree with the lowest level, and no level in use is empty.
Linked ==
  /\ zsl.length = Cardinality(Members(zsl))
  /\ zsl.tail = IF Members(zsl) = {} THEN Nil
                ELSE CHOOSE e \in Members(zsl) : RankOf(zsl, e) = zsl.length
  /\ \A x \in DOMAIN zsl.node, i \in 1..zsl.level :
       LET rank == IF x = Header THEN 0 ELSE RankOf(zsl, x)
           next == zsl.node[x].fwd[i]
           on == x = Header \/ \E y \in DOMAIN zsl.node : zsl.node[y].fwd[i] = x
       IN on => zsl.node[x].span[i] = (IF next = Nil THEN zsl.length ELSE RankOf(zsl, next)) - rank
  /\ \A e \in Members(zsl) :
       zsl.node[e].back = IF RankOf(zsl, e) = 1 THEN Nil
                          ELSE CHOOSE y \in Members(zsl) : RankOf(zsl, y) = RankOf(zsl, e) - 1
  /\ zsl.level > 1 => zsl.node[Header].fwd[zsl.level] # Nil

\* The ranks the spans give are the ranks of the members, in both directions.
RanksRight ==
  \A e \in Members(zsl) : /\ zslGetRank(zsl, zsl.node[e].score, e) = RankOf(zsl, e)
                          /\ zslGetElementByRank(zsl, RankOf(zsl, e)) = e

\* The first and the last node of a range of scores or of elements (of equal
\* scores) are those the definition of the range gives.
RangesRight ==
  LET Ends(lex, range, first, last) ==
        LET in == {e \in Members(zsl) : GteMin(Val(zsl, lex, e), range) /\ LteMax(Val(zsl, lex, e), range)}
            at == {RankOf(zsl, e) : e \in in}
        IN IF in = {} THEN first = Nil /\ last = Nil
           ELSE /\ {first, last} \subseteq in
                /\ RankOf(zsl, first) = Min(at) /\ RankOf(zsl, last) = Max(at)
  IN /\ \A range \in Ranges(Scores) :
          Ends(FALSE, range, zslFirstInRange(zsl, range), zslLastInRange(zsl, range))
     /\ Cardinality({zsl.node[e].score : e \in Members(zsl)}) <= 1 =>
          \A range \in Ranges(Elements) :
            Ends(TRUE, range, zslFirstInLexRange(zsl, range), zslLastInLexRange(zsl, range))

\* What a deletion by rank leaves: the members whose rank is outside the range.
RankDeletion ==
  \A start, end \in 1..Cardinality(Elements) :
    DeleteRangeByRank(start, end) =>
      Members(zsl') = {e \in Members(zsl) : RankOf(zsl, e) \notin start..end}
=============================================================================
