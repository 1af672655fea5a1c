------------------------------- MODULE MCAof --------------------------------
(***************************************************************************)
(* What propagate() feeds, checked in a single run: a behaviour is one of  *)
(* the part the variable `part' names, the append only file (Aof, for      *)
(* several configurations and two databases) or the stream to the slaves   *)
(* (Multi, for one client with one key in two databases, who does not use  *)
(* WATCH).                                                                 *)
(***************************************************************************)
EXTENDS Aof

VARIABLES
  part,
  db, now, dirty, multi, dirtyCas, dirtyExec, mstate, selected, watchedKeys, dbWatched, running,
  slave, seen            \* Multi

AnyPolicy == {"always", "everysec", "no"}

Key(op) == [op |-> op, key |-> "k"]
Set(v) == [op |-> "set", key |-> "k", arg |-> v, flag |-> "none", ex |-> FALSE, ttl |-> 1]
SetXxEx(v, t) == [op |-> "set", key |-> "k", arg |-> v, flag |-> "xx", ex |-> TRUE, ttl |-> t]
Expire(t) == [op |-> "expire", key |-> "k", arg |-> t]
Move(d) == [op |-> "move", key |-> "k", arg |-> d]
SelectDb(d) == [op |-> "select", arg |-> d]
FlushAll == [op |-> "flushall"]

Stream == INSTANCE Multi WITH
  Clients <- {"c"}, NoClient <- "nobody", Keys <- {"k"}, Vals <- {"v", "w"}, Nil <- "nil", Ttls <- {0, 1},
  Commands <- {Key("get"), Key("persist"), Set("v"), SetXxEx("w", 1), SetXxEx("v", 0), Expire(1),
               Move(0), Move(1), SelectDb(1), FlushAll},
  SlaveLag <- 1, SaveParams <- TRUE, IntHalf <- 128, MaxQueue <- 2, MaxDirty <- 3, MaxTime <- 2

svars == <<db, now, dirty, multi, dirtyCas, dirtyExec, mstate, selected, watchedKeys, dbWatched,
           running, slave, seen>>

\* Not every combination: no-appendfsync-on-rewrite with appendfsync always, and
\* both values of aof-load-truncated with everysec.
MCInit ==
  /\ part \in {"file", "stream"}
  /\ Init /\ Stream!Init
  /\ conf.lazy => conf.fsync = "always"
  /\ conf.fsync # "everysec" => conf.truncated = ~conf.lazy
  /\ part = "stream" => conf.fsync = "no" /\ state = "off"

MCNext ==
  /\ UNCHANGED part
  /\ \/ part = "file" /\ Next /\ UNCHANGED svars
     \/ part = "stream" /\ Stream!Next /\ watchedKeys' = watchedKeys /\ UNCHANGED vars

all == <<part, vars, svars>>
MCSpec == MCInit /\ [][MCNext]_all

-----------------------------------------------------------------------------
(* The properties of Multi, as this run checks them.                       *)

\* Between commands what the propagated stream makes of a slave is the master's dataset,
\* with expires that may be later but are never earlier (redis.c: call, propagate; db.c:
\* propagateExpire).
SlaveAgrees == Stream!SlaveAgrees

\* A slave never shows part of a transaction, from the first write of an EXEC to the EXEC
\* itself (multi.c: execCommandPropagateMulti).
SlaveSeesWholeExec == Stream!SlaveSeesWholeExec
=============================================================================
