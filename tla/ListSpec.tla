------------------------------ MODULE ListSpec ------------------------------
(***************************************************************************)
(* What the list commands promise, whatever the encoding: every key holds  *)
(* a sequence (an absent key the empty one), and a command that reaches    *)
(* the slaves and the append only file changes it as follows.              *)
(***************************************************************************)
EXTENDS Integers, Sequences, FiniteSets, SequencesExt

VARIABLES
  lists,   \* the sequence every key holds
  cmd      \* what the last command propagated, with its arguments; or nothing

Init == \A k \in DOMAIN lists : lists[k] = <<>>

Where(s, v) == {i \in 1..Len(s) : s[i] = v}

\* The occurrences of v that LREM count v removes.
Removed(s, count, v) ==
    {i \in Where(s, v) :
        LET before == {j \in Where(s, v) : IF count < 0 THEN j > i ELSE j < i}
        IN count = 0 \/ Cardinality(before) < (IF count < 0 THEN -count ELSE count)}

Keep(s, at) ==
    LET kept[i \in 0..Len(s)] ==
            IF i = 0 THEN <<>> ELSE IF i \in at THEN Append(kept[i - 1], s[i]) ELSE kept[i - 1]
    IN kept[Len(s)]

\* Position i of a command, counted from the end when negative.
Index(s, i) == IF i < 0 THEN Len(s) + i + 1 ELSE i + 1

InsertedAt(s, i, v) == SubSeq(s, 1, i - 1) \o <<v>> \o SubSeq(s, i, Len(s))

Change(c, s) ==
    CASE c.name = "rpush" -> s \o c.args
      [] c.name = "lpush" -> Reverse(c.args) \o s
      [] c.name = "linsert" ->
           LET at == CHOOSE i \in Where(s, c.args[1]) : \A j \in Where(s, c.args[1]) : i <= j
           IN InsertedAt(s, IF c.after THEN at + 1 ELSE at, c.args[2])
      [] c.name = "lset" -> [s EXCEPT ![Index(s, c.args[1])] = c.args[2]]
      [] c.name = "lpop" -> Tail(s)
      [] c.name = "rpop" -> Front(s)
      [] c.name = "ltrim" ->
           Keep(s, {i \in 1..Len(s) : Index(s, c.args[1]) <= i /\ i <= Index(s, c.args[2])})
      [] c.name = "lrem" -> Keep(s, (1..Len(s)) \ Removed(s, c.args[1], c.args[2]))

Next ==
    LET c == cmd'
    IN IF c.name = "none" THEN UNCHANGED lists
       ELSE IF c.name = "rpoplpush"
       THEN lists' = LET v == Last(lists[c.key])
                         popped == [lists EXCEPT ![c.key] = Front(@)]
                     IN [popped EXCEPT ![c.dst] = <<v>> \o @]
       ELSE lists' = [lists EXCEPT ![c.key] = Change(c, @)]

Spec == Init /\ [][Next]_<<lists, cmd>>
=============================================================================
