------------------------------ MODULE HashSpec ------------------------------
(***************************************************************************)
(* What a hash promises, whatever its encoding: it maps fields to values,  *)
(* and the commands of src/struct/t_hash.c change the map as follows.      *)
(***************************************************************************)
EXTENDS Integers, Sequences, TLC

CONSTANT IntMax       \* LLONG_MAX; LLONG_MIN is -IntMax - 1

VARIABLES
  hash,
  cmd      \* the last command that was propagated, with its arguments

Init == hash = [f \in {} |-> 0]

Sum(f) == (IF f \in DOMAIN hash THEN hash[f] ELSE 0)

Next ==
  LET c == cmd'
      set[i \in 0..Len(c.pairs)] ==
        IF i = 0 THEN hash ELSE (c.pairs[i][1] :> c.pairs[i][2]) @@ set[i - 1]
  IN \/ c.name = "hset" /\ hash' = set[Len(c.pairs)]
     \/ c.name = "hsetnx" /\ hash' = IF c.pairs[1][1] \in DOMAIN hash THEN hash ELSE set[1]
     \/ /\ c.name = "hincrby"
        /\ LET f == c.pairs[1][1]
               v == Sum(f) + c.pairs[1][2]
           IN hash' = IF Sum(f) \in (-IntMax - 1)..IntMax /\ v \in (-IntMax - 1)..IntMax
                      THEN (f :> v) @@ hash ELSE hash
     \/ c.name = "hdel" /\ hash' = [f \in DOMAIN hash \ c.fields |-> hash[f]]

Spec == Init /\ [][Next]_<<hash, cmd>>
=============================================================================
