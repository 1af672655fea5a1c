------------------------------ MODULE Keyspace ------------------------------
(***************************************************************************)
(* The keyspace of a Redis server (redisDb, db.c) and what one command     *)
(* does to it.                                                             *)
(*                                                                         *)
(* A keyspace is a record of two functions on places <<db, key>>: "dict",  *)
(* the value stored there (Nil when the key is not in db->dict), and       *)
(* "expires", the absolute time of its entry in db->expires (NoExpire when *)
(* it has none).  The effect of a command is a record: the new keyspace    *)
(* "db", by how much the command raises server.dirty, the places it        *)
(* reports through signalModifiedKey(), whether it calls                   *)
(* signalFlushedDb(), and the command vector it leaves for propagation     *)
(* (commands may rewrite themselves, as EXPIRE into DEL).                  *)
(*                                                                         *)
(* Replies, keyspace notifications and LRU data are left out: they do not  *)
(* change the dataset.                                                     *)
(***************************************************************************)
EXTENDS Integers, FiniteSets

CONSTANTS
    Keys,       \* key names
    Dbs,        \* numbers of the logical databases (server.db[])
    Vals,       \* values; what a value is made of does not matter here
    Ttls,       \* the TTLs clients give to EXPIRE and SET
    Nil         \* "key not in the dictionary"

ASSUME NilAssumption == Nil \notin Vals

ASSUME FiniteAssumption == IsFiniteSet(Keys) /\ IsFiniteSet(Dbs)

ASSUME TtlAssumption == Ttls \subseteq Int

NoExpire == -1
Places == Dbs \X Keys

Keyspaces == [dict : [Places -> Vals \cup {Nil}], expires : [Places -> Int]]

Space(dict, expires) == [dict |-> dict, expires |-> expires]

\* Nothing loaded: initServer() creates empty dictionaries.
EmptyKeyspace == Space([x \in Places |-> Nil], [x \in Places |-> NoExpire])

-----------------------------------------------------------------------------
(* The command vectors.  SET stands for SETNX, SETEX and PSETEX too: "flag" *)
(* is the condition it carries, "ex" whether it carries the expire "ttl".   *)

KeyCommand     == [op : {"get", "del", "persist"}, key : Keys]
SetCommand     == [op : {"set"}, key : Keys, arg : Vals, flag : {"none", "nx", "xx"},
                   ex : BOOLEAN, ttl : Ttls]
ExpireCommand  == [op : {"expire"}, key : Keys, arg : Ttls]
RenameCommand  == [op : {"rename"}, key : Keys, arg : Keys]
MoveCommand    == [op : {"move"}, key : Keys, arg : Dbs]
SelectCommand  == [op : {"select"}, arg : Int]
ServerCommand  == [op : {"flushdb", "flushall", "save", "unwatch"}]

Command == KeyCommand \cup SetCommand \cup ExpireCommand \cup RenameCommand
           \cup MoveCommand \cup SelectCommand \cup ServerCommand

\* selectDb(): an id out of range leaves the client where it is.
selectDb(d, id) == IF id \in Dbs THEN id ELSE d

\* The "r" flag (REDIS_CMD_READONLY) of the command table.
ReadOnly(cmd) == cmd.op \in {"get", "select", "save", "unwatch"}

-----------------------------------------------------------------------------
(* db.c *)

Exists(s, x) == s.dict[x] # Nil

dbDelete(s, x) == Space([s.dict EXCEPT ![x] = Nil], [s.expires EXCEPT ![x] = NoExpire])

setKey(s, x, v) == Space([s.dict EXCEPT ![x] = v], [s.expires EXCEPT ![x] = NoExpire])

setExpire(s, x, when) == Space(s.dict, [s.expires EXCEPT ![x] = when])

\* A key is logically gone as soon as the clock is past its expire time;
\* it stays in the dictionaries until somebody deletes it.
Expired(s, x, now) == s.expires[x] # NoExpire /\ now > s.expires[x]

\* SET with an expire that is not positive is refused before anything else.
InvalidExpire(cmd) == cmd.ex /\ cmd.ttl <= 0

\* The places a command passes to expireIfNeeded(), through lookupKeyRead(),
\* lookupKeyWrite() or directly, in a state where those that come first have
\* already been dealt with.  PERSIST looks into db->dict directly.
LookedUp(s, d, cmd, now) ==
    LET x == <<d, cmd.key>>
        Alive == Exists(s, x) /\ ~Expired(s, x, now)
    IN  CASE cmd.op \in {"get", "del", "expire"} -> {x}
          [] cmd.op = "set"    -> IF InvalidExpire(cmd) THEN {} ELSE {x}
          [] cmd.op = "rename" -> IF cmd.arg = cmd.key THEN {}
                                  ELSE {x} \cup {y \in {<<d, cmd.arg>>} : Alive}
          [] cmd.op = "move"   -> IF cmd.arg = d THEN {}
                                  ELSE {x} \cup {y \in {<<cmd.arg, cmd.key>>} : Alive}
          [] OTHER -> {}

Lapsed(s, d, cmd, now) ==
    {x \in LookedUp(s, d, cmd, now) : Expired(s, x, now)}

\* expireIfNeeded() on a master, for a set of places.  A slave leaves the
\* keys alone and waits for the DEL of its master.
Purge(s, X) ==
    Space([x \in Places |-> IF x \in X THEN Nil ELSE s.dict[x]],
          [x \in Places |-> IF x \in X THEN NoExpire ELSE s.expires[x]])

-----------------------------------------------------------------------------
(* What each command does, on a keyspace where expireIfNeeded() has run.   *)

Effect(s, dirty, signal, as) ==
    [db |-> s, dirty |-> dirty, signal |-> signal, as |-> as]

NoEffect(s, cmd) == Effect(s, 0, {}, cmd)

\* setKey() removes the expire the key had, setExpire() gives it the new one.
setGenericCommand(s, x, cmd, now) ==
    CASE \/ InvalidExpire(cmd)
         \/ cmd.flag = "nx" /\ Exists(s, x)
         \/ cmd.flag = "xx" /\ ~Exists(s, x) -> NoEffect(s, cmd)
      [] OTHER ->
           Effect(setExpire(setKey(s, x, cmd.arg), x, IF cmd.ex THEN now + cmd.ttl ELSE NoExpire),
                  1, {x}, cmd)

delCommand(s, x, cmd) ==
    IF Exists(s, x) THEN Effect(dbDelete(s, x), 1, {x}, cmd) ELSE NoEffect(s, cmd)

\* A time that is not in the future deletes the key at once on a master, and
\* the command is then propagated as DEL.
expireGenericCommand(s, x, cmd, now, role) ==
    LET when == now + cmd.arg
    IN  CASE ~Exists(s, x) -> NoEffect(s, cmd)
          [] Exists(s, x) /\ when <= now /\ role = "master" ->
               Effect(dbDelete(s, x), 1, {x}, [op |-> "del", key |-> cmd.key])
          [] OTHER -> Effect(setExpire(s, x, when), 1, {x}, cmd)

persistCommand(s, x, cmd) ==
    IF Exists(s, x) /\ s.expires[x] # NoExpire
    THEN Effect(setExpire(s, x, NoExpire), 1, {}, cmd)
    ELSE NoEffect(s, cmd)

\* The destination takes over the value and the expire of the source.
renameGenericCommand(s, x, y, cmd) ==
    IF x = y \/ ~Exists(s, x) THEN NoEffect(s, cmd)
    ELSE Effect(dbDelete(setExpire(setKey(s, y, s.dict[x]), y, s.expires[x]), x),
                1, {x, y}, cmd)

\* MOVE gives the key to another database: without its expire, and without
\* signalModifiedKey() on either side.
moveCommand(s, x, y, cmd) ==
    IF x = y \/ ~Exists(s, x) \/ Exists(s, y) THEN NoEffect(s, cmd)
    ELSE Effect(dbDelete(setKey(s, y, s.dict[x]), x), 1, {}, cmd)

\* FLUSHDB and FLUSHALL: emptyDb() on the places X.  The watchers are found
\* by signalFlushedDb(), which only touches keys that exist.
flushCommand(s, X, extra, cmd) ==
    LET present == {x \in X : Exists(s, x)}
    IN  Effect(Purge(s, X), Cardinality(present) + extra, {}, cmd)

\* What signalFlushedDb() touches, for the watchers of Multi.
Flushed(s, d, cmd) ==
    CASE cmd.op = "flushdb"  -> {x \in Places : x[1] = d /\ Exists(s, x)}
      [] cmd.op = "flushall" -> {x \in Places : Exists(s, x)}
      [] OTHER -> {}

\* c->cmd->proc(c) for a client whose selected database is d.
Proc(s, d, cmd, now, role) ==
    CASE cmd.op = "set"      -> setGenericCommand(s, <<d, cmd.key>>, cmd, now)
      [] cmd.op = "del"      -> delCommand(s, <<d, cmd.key>>, cmd)
      [] cmd.op = "expire"   -> expireGenericCommand(s, <<d, cmd.key>>, cmd, now, role)
      [] cmd.op = "persist"  -> persistCommand(s, <<d, cmd.key>>, cmd)
      [] cmd.op = "rename"   -> renameGenericCommand(s, <<d, cmd.key>>, <<d, cmd.arg>>, cmd)
      [] cmd.op = "move"     -> moveCommand(s, <<d, cmd.key>>, <<cmd.arg, cmd.key>>, cmd)
      [] cmd.op = "flushdb"  -> flushCommand(s, {x \in Places : x[1] = d}, 0, cmd)
      [] cmd.op = "flushall" -> flushCommand(s, Places, 1, cmd)
      [] OTHER -> NoEffect(s, cmd)
=============================================================================
