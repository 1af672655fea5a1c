------------------------------ MODULE MCMulti -------------------------------
(***************************************************************************)
(* Small instances of Multi about WATCH: two clients, and two keys or two  *)
(* databases.                                                              *)
(***************************************************************************)
EXTENDS Multi

CONSTANTS k1, k2, v1, v2, c1, c2

DbsOne == {0}
DbsTwo == {0, 1}

Get(k) == [op |-> "get", key |-> k]
Del(k) == [op |-> "del", key |-> k]
SetIf(k, v, flag) == [op |-> "set", key |-> k, arg |-> v, flag |-> flag, ex |-> FALSE, ttl |-> 1]
Expire(k, t) == [op |-> "expire", key |-> k, arg |-> t]
Rename(k, l) == [op |-> "rename", key |-> k, arg |-> l]
Move(k, d) == [op |-> "move", key |-> k, arg |-> d]
Select(d) == [op |-> "select", arg |-> d]
Server(o) == [op |-> o]

\* Two keys in one database: everything WATCH notices.
WatchCommands == {Get(k1), Del(k1), SetIf(k1, v1, "none"), SetIf(k2, v2, "nx"), Expire(k1, 0),
                  Expire(k1, 1), Rename(k1, k2), Select(1), Server("flushdb"), Server("unwatch")}

\* One key in two databases: MOVE, which it does not notice.
MoveCommands == {SetIf(k1, v1, "none"), Move(k1, 1), Select(1)}

\* Clients are interchangeable.
Symmetry == Permutations(Clients)

=============================================================================
