------------------------------ MODULE SetsSpec ------------------------------
(***************************************************************************)
(* What sets promise, whatever their encoding: each key holds a set, an    *)
(* empty one does not exist, and the commands of src/struct/t_set.c are    *)
(* the operations of set theory.                                           *)
(***************************************************************************)
EXTENDS Naturals

CONSTANT Keys

VARIABLES
  set,
  cmd      \* the last command that was propagated, with its arguments

Init == set = [k \in Keys |-> {}]

Of(k) == IF k \in Keys THEN set[k] ELSE {}

\* SINTERSTORE, SUNIONSTORE and SDIFFSTORE of two keys, which may be the same or
\* not exist.
Store(op, A, B) ==
  CASE op = "inter" -> A \cap B
    [] op = "union" -> A \cup B
    [] op = "diff" -> A \ B

Next ==
  LET c == cmd'
  IN \/ c.name = "sadd" /\ set' = [set EXCEPT ![c.key] = @ \cup c.members]
     \/ c.name = "srem" /\ set' = [set EXCEPT ![c.key] = @ \ c.members]
     \/ /\ c.name = "smove"
        /\ set' = IF c.member \in set[c.src] /\ c.src # c.dst
                  THEN [set EXCEPT ![c.src] = @ \ {c.member}, ![c.dst] = @ \cup {c.member}] ELSE set
     \/ /\ c.name = "store"
        /\ set' = [set EXCEPT ![c.dst] = Store(c.op, Of(c.keys[1]), Of(c.keys[2]))]

Spec == Init /\ [][Next]_<<set, cmd>>
=============================================================================
