------------------------------ MODULE ZsetSpec ------------------------------
(***************************************************************************)
(* What a sorted set promises, whatever its encoding: it maps its members  *)
(* to scores, and each command of src/struct/t_zset.c changes that map as  *)
(* follows.  A key whose map is empty does not exist.                      *)
(***************************************************************************)
EXTENDS Integers, Sequences, FiniteSetsExt, TLC

CONSTANTS
  Elements,
  Scores,      \* the scores that can occur, the infinite ones included
  Inf,         \* the greatest score; -Inf is the least
  Other        \* the members of a set, the other source of a union

VARIABLES
  zset,
  cmd          \* the command that was executed last, with its arguments

\* The members a range command speaks of; Rank counts from 0.
Rank(z, e) ==
  Cardinality({x \in DOMAIN z : z[x] < z[e] \/ (z[x] = z[e] /\ x < e)})
FromEnd(i, n) == IF i < 0 THEN n + i ELSE i
ByRank(z, start, end) ==
  {e \in DOMAIN z : LET n == Cardinality(DOMAIN z)
                    IN Rank(z, e) >= FromEnd(start, n) /\ Rank(z, e) <= FromEnd(end, n)}
Within(v, range) == /\ IF range.minex THEN v > range.min ELSE v >= range.min
                    /\ IF range.maxex THEN v < range.max ELSE v <= range.max
ByScore(z, range) == {e \in DOMAIN z : Within(z[e], range)}
ByLex(z, range) == {e \in DOMAIN z : Within(e, range)}

Empty == [e \in {} |-> 0]

Init == zset = Empty

\* ZADD, the pairs one after the other; ZINCRBY, refused if there is no sum; the
\* commands that remove members.
Add(ps) ==
  LET put[i \in 0..Len(ps)] == IF i = 0 THEN zset ELSE (ps[i][1] :> ps[i][2]) @@ put[i - 1]
  IN zset' = put[Len(ps)]
IncrBy(e, s) ==
  LET sum == IF e \notin DOMAIN zset \/ s \in {Inf, -Inf} THEN s
             ELSE IF zset[e] \in {Inf, -Inf} THEN zset[e] ELSE zset[e] + s
  IN zset' = IF e \in DOMAIN zset /\ s \in {Inf, -Inf} /\ zset[e] = -s THEN zset
             ELSE (e :> sum) @@ zset
Rem(S) == zset' = [e \in DOMAIN zset \ S |-> zset[e]]

\* ZUNIONSTORE and ZINTERSTORE of this key and of the set, each any number of times;
\* the members of the set count with score 1.  Where an infinite score comes in, or
\* the product of one, some score is stored.
Store(op, selves, sets, agg, weight) ==
  LET has == (IF selves > 0 THEN {DOMAIN zset} ELSE {}) \cup (IF sets > 0 THEN {Other} ELSE {})
      mem == {e \in Elements : IF op = "union" THEN \E m \in has : e \in m ELSE \A m \in has : e \in m}
      Total(e) ==
        LET na == IF e \in DOMAIN zset THEN selves ELSE 0
            nb == IF e \in Other THEN sets ELSE 0
            vals == (IF na > 0 THEN {weight * zset[e]} ELSE {}) \cup (IF nb > 0 THEN {weight} ELSE {})
        IN CASE agg = "sum" -> (IF na > 0 THEN na * weight * zset[e] ELSE 0) + nb * weight
             [] agg = "min" -> Min(vals)
             [] agg = "max" -> Max(vals)
  IN /\ DOMAIN zset' = mem
     /\ \A e \in mem : IF selves > 0 /\ e \in DOMAIN zset /\ zset[e] \in {Inf, -Inf}
                       THEN zset'[e] \in Scores ELSE zset'[e] = Total(e)

Next ==
  \/ cmd'.name = "zadd" /\ Add(cmd'.pairs)
  \/ cmd'.name = "zincrby" /\ IncrBy(cmd'.pairs[1][1], cmd'.pairs[1][2])
  \/ cmd'.name = "zrem" /\ Rem({cmd'.members[i] : i \in DOMAIN cmd'.members})
  \/ cmd'.name = "zremrangebyrank" /\ Rem(ByRank(zset, cmd'.start, cmd'.end))
  \/ cmd'.name = "zremrangebyscore" /\ Rem(ByScore(zset, cmd'.range))
  \/ cmd'.name = "zremrangebylex" /\ Rem(ByLex(zset, cmd'.range))
  \/ /\ cmd'.name = "zstore"
     /\ Store(cmd'.op, Cardinality({i \in DOMAIN cmd'.src : cmd'.src[i] = "z"}),
              Cardinality({i \in DOMAIN cmd'.src : cmd'.src[i] = "set"}), cmd'.agg, cmd'.weight)

Spec == Init /\ [][Next]_<<zset, cmd>>
=============================================================================
