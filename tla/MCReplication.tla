--------------------------- MODULE MCReplication ---------------------------
(* Instances of Replication for model checking: one or two slaves, two     *)
(* databases, a backlog of two items.                                      *)
EXTENDS Replication, TLC

Disk == {FALSE}
Socket == {TRUE}
Both == {FALSE, TRUE}

Symmetry == Permutations(Slaves)
=============================================================================
