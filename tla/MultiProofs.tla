---------------------------- MODULE MultiProofs -----------------------------
(***************************************************************************)
(* Proofs about command execution (Multi): type correctness, agreement of  *)
(* the two sides of WATCH, and soundness of optimistic locking.            *)
(***************************************************************************)
EXTENDS Multi, FiniteSetTheorems, TLAPS

\* The places of a keyspace are finitely many, so a flush counts them.
LEMMA PlacesFinite == IsFiniteSet(Places)
BY FiniteAssumption, FS_Product DEF Places

\* Deleting, setting and purging keep a keyspace a keyspace.
LEMMA SpaceType ==
    ASSUME NEW f \in [Places -> Vals \cup {Nil}], NEW g \in [Places -> Int]
    PROVE  Space(f, g) \in Keyspaces
BY DEF Space, Keyspaces

LEMMA DeleteType ==
    ASSUME NEW s \in Keyspaces, NEW x \in Places
    PROVE  dbDelete(s, x) \in Keyspaces
<1>1. s.dict \in [Places -> Vals \cup {Nil}] /\ s.expires \in [Places -> Int]
  BY DEF Keyspaces
<1>2. [s.dict EXCEPT ![x] = Nil] \in [Places -> Vals \cup {Nil}]
  BY <1>1
<1>3. [s.expires EXCEPT ![x] = NoExpire] \in [Places -> Int]
  BY <1>1 DEF NoExpire
<1> QED BY <1>2, <1>3, SpaceType DEF dbDelete

LEMMA SetKeyType ==
    ASSUME NEW s \in Keyspaces, NEW x \in Places, NEW v \in Vals \cup {Nil}
    PROVE  setKey(s, x, v) \in Keyspaces
<1>1. s.dict \in [Places -> Vals \cup {Nil}] /\ s.expires \in [Places -> Int]
  BY DEF Keyspaces
<1>2. [s.dict EXCEPT ![x] = v] \in [Places -> Vals \cup {Nil}]
  BY <1>1
<1>3. [s.expires EXCEPT ![x] = NoExpire] \in [Places -> Int]
  BY <1>1 DEF NoExpire
<1> QED BY <1>2, <1>3, SpaceType DEF setKey

LEMMA SetExpireType ==
    ASSUME NEW s \in Keyspaces, NEW x \in Places, NEW t \in Int
    PROVE  setExpire(s, x, t) \in Keyspaces
<1>1. s.dict \in [Places -> Vals \cup {Nil}] /\ s.expires \in [Places -> Int]
  BY DEF Keyspaces
<1>2. [s.expires EXCEPT ![x] = t] \in [Places -> Int]
  BY <1>1
<1> QED BY <1>1, <1>2, SpaceType DEF setExpire

LEMMA PurgeType ==
    ASSUME NEW s \in Keyspaces, NEW X
    PROVE  Purge(s, X) \in Keyspaces
<1>1. s.dict \in [Places -> Vals \cup {Nil}] /\ s.expires \in [Places -> Int]
  BY DEF Keyspaces
<1>2. [x \in Places |-> IF x \in X THEN Nil ELSE s.dict[x]] \in [Places -> Vals \cup {Nil}]
  BY <1>1
<1>3. [x \in Places |-> IF x \in X THEN NoExpire ELSE s.expires[x]] \in [Places -> Int]
  BY <1>1 DEF NoExpire
<1> QED BY <1>2, <1>3, SpaceType DEF Purge

\* The effect of any command is well typed: a keyspace, an integer number of
\* changes and a set of places.
LEMMA ProcType ==
    ASSUME NEW s \in Keyspaces, NEW d \in Dbs, NEW cmd \in Command, NEW t \in Int,
           NEW role
    PROVE  /\ Proc(s, d, cmd, t, role).db \in Keyspaces
           /\ Proc(s, d, cmd, t, role).dirty \in Int
           /\ Proc(s, d, cmd, t, role).signal \in SUBSET Places
<1> DEFINE x == <<d, cmd.key>>
           e == Proc(s, d, cmd, t, role)
           Good == e.db \in Keyspaces /\ e.dirty \in Int /\ e.signal \in SUBSET Places
<1>1. CASE cmd \in SetCommand
  <2> DEFINE when == IF cmd.ex THEN t + cmd.ttl ELSE NoExpire
  <2>1. x \in Places /\ cmd.arg \in Vals /\ cmd.op = "set" /\ cmd.ttl \in Int
    BY <1>1, TtlAssumption DEF SetCommand, Places
  <2>2. e = setGenericCommand(s, x, cmd, t)
    BY <2>1 DEF Proc
  <2>3. when \in Int
    BY <2>1 DEF NoExpire
  <2> HIDE DEF when
  <2>4. setExpire(setKey(s, x, cmd.arg), x, when) \in Keyspaces
    BY <2>1, <2>3, SetKeyType, SetExpireType
  <2>5. \/ e = NoEffect(s, cmd)
        \/ e = Effect(setExpire(setKey(s, x, cmd.arg), x, when), 1, {x}, cmd)
    BY <2>2 DEF setGenericCommand, when
  <2> QED BY <2>1, <2>4, <2>5 DEF Effect, NoEffect
<1>2. CASE cmd \in KeyCommand
  <2>1. x \in Places /\ cmd.op \in {"get", "del", "persist"}
    BY <1>2 DEF KeyCommand, Places
  <2>2. CASE cmd.op = "get"
    BY <2>2 DEF Proc, NoEffect, Effect
  <2>3. CASE cmd.op = "del"
    <3>1. dbDelete(s, x) \in Keyspaces
      BY <2>1, DeleteType
    <3>2. e = delCommand(s, x, cmd)
      BY <2>3 DEF Proc
    <3> QED BY <2>1, <3>1, <3>2 DEF delCommand, Effect, NoEffect
  <2>4. CASE cmd.op = "persist"
    <3>1. setExpire(s, x, NoExpire) \in Keyspaces
      BY <2>1, SetExpireType DEF NoExpire
    <3>2. e = persistCommand(s, x, cmd)
      BY <2>4 DEF Proc
    <3> QED BY <3>1, <3>2 DEF persistCommand, Effect, NoEffect
  <2> QED BY <2>1, <2>2, <2>3, <2>4
<1>3. CASE cmd \in ExpireCommand
  <2>1. x \in Places /\ cmd.arg \in Int /\ cmd.op = "expire"
    BY <1>3, TtlAssumption DEF ExpireCommand, Places
  <2>2. e = expireGenericCommand(s, x, cmd, t, role)
    BY <2>1 DEF Proc
  <2>3. dbDelete(s, x) \in Keyspaces
    BY <2>1, DeleteType
  <2>4. setExpire(s, x, t + cmd.arg) \in Keyspaces
    BY <2>1, SetExpireType
  <2> QED BY <2>1, <2>2, <2>3, <2>4 DEF expireGenericCommand, Effect, NoEffect
<1>4. CASE cmd \in RenameCommand
  <2> DEFINE y == <<d, cmd.arg>>
  <2>1. x \in Places /\ y \in Places /\ cmd.op = "rename"
    BY <1>4 DEF RenameCommand, Places
  <2>2. e = renameGenericCommand(s, x, y, cmd)
    BY <2>1 DEF Proc
  <2>3. s.dict[x] \in Vals \cup {Nil} /\ s.expires[x] \in Int
    BY <2>1 DEF Keyspaces
  <2>4. dbDelete(setExpire(setKey(s, y, s.dict[x]), y, s.expires[x]), x) \in Keyspaces
    BY <2>1, <2>3, SetKeyType, SetExpireType, DeleteType
  <2> QED BY <2>1, <2>2, <2>4 DEF renameGenericCommand, Effect, NoEffect
<1>5. CASE cmd \in MoveCommand
  <2> DEFINE y == <<cmd.arg, cmd.key>>
  <2>1. x \in Places /\ y \in Places /\ cmd.op = "move"
    BY <1>5 DEF MoveCommand, Places
  <2>2. e = moveCommand(s, x, y, cmd)
    BY <2>1 DEF Proc
  <2>3. s.dict[x] \in Vals \cup {Nil}
    BY <2>1 DEF Keyspaces
  <2>4. dbDelete(setKey(s, y, s.dict[x]), x) \in Keyspaces
    BY <2>1, <2>3, SetKeyType, DeleteType
  <2> QED BY <2>1, <2>2, <2>4 DEF moveCommand, Effect, NoEffect
<1>6. CASE cmd \in SelectCommand \cup ServerCommand
  <2>1. cmd.op \in {"select", "save", "unwatch", "flushdb", "flushall"}
    BY <1>6 DEF SelectCommand, ServerCommand
  <2>2. ASSUME NEW X \in SUBSET Places, NEW n \in Int
        PROVE  /\ flushCommand(s, X, n, cmd).db \in Keyspaces
               /\ flushCommand(s, X, n, cmd).dirty \in Int
               /\ flushCommand(s, X, n, cmd).signal \in SUBSET Places
    <3> DEFINE P == {y \in X : Exists(s, y)}
    <3>1. Cardinality(P) \in Nat
      BY PlacesFinite, FS_Subset, FS_CardinalityType
    <3>2. Purge(s, X) \in Keyspaces
      BY PurgeType
    <3>3. Cardinality(P) + n \in Int
      BY <3>1
    <3> HIDE DEF P
    <3> QED BY <3>2, <3>3 DEF flushCommand, Effect, P
  <2>3. CASE cmd.op = "flushdb"
    <3> DEFINE X == {y \in Places : y[1] = d}
    <3>1. e = flushCommand(s, X, 0, cmd)
      BY <2>3 DEF Proc
    <3>2. X \in SUBSET Places /\ 0 \in Int
      OBVIOUS
    <3> HIDE DEF X
    <3> QED BY <2>2, <3>1, <3>2
  <2>4. CASE cmd.op = "flushall"
    <3>1. e = flushCommand(s, Places, 1, cmd)
      BY <2>4 DEF Proc
    <3>2. Places \in SUBSET Places /\ 1 \in Int
      OBVIOUS
    <3>3. /\ flushCommand(s, Places, 1, cmd).db \in Keyspaces
          /\ flushCommand(s, Places, 1, cmd).dirty \in Int
          /\ flushCommand(s, Places, 1, cmd).signal \in SUBSET Places
      BY <2>2, <3>2
    <3> QED BY <3>1, <3>3
  <2>5. CASE cmd.op \in {"select", "save", "unwatch"}
    BY <2>5 DEF Proc, NoEffect, Effect
  <2> QED BY <2>1, <2>3, <2>4, <2>5
<1> QED BY <1>1, <1>2, <1>3, <1>4, <1>5, <1>6 DEF Command

\* The values a keyspace operation leaves alone.
LEMMA Frames ==
    ASSUME NEW s \in Keyspaces, NEW x, NEW v, NEW z \in Places
    PROVE  /\ setExpire(s, x, v).dict = s.dict
           /\ z # x => dbDelete(s, x).dict[z] = s.dict[z]
           /\ z # x => setKey(s, x, v).dict[z] = s.dict[z]
<1>1. s.dict \in [Places -> Vals \cup {Nil}]
  BY DEF Keyspaces
<1>2. setExpire(s, x, v).dict = s.dict
  BY DEF setExpire, Space
<1>3. dbDelete(s, x).dict = [s.dict EXCEPT ![x] = Nil]
  BY DEF dbDelete, Space
<1>4. setKey(s, x, v).dict = [s.dict EXCEPT ![x] = v]
  BY DEF setKey, Space
<1> QED BY <1>1, <1>2, <1>3, <1>4

\* Whatever a command other than MOVE changes in db->dict it reports, by
\* signalModifiedKey() or signalFlushedDb().
LEMMA ProcSignals ==
    ASSUME NEW s \in Keyspaces, NEW d \in Dbs, NEW cmd \in Command, NEW t \in Int,
           cmd.op # "move",
           NEW e, e = Proc(s, d, cmd, t, "master"),
           NEW z \in Places, e.db.dict[z] # s.dict[z]
    PROVE  z \in e.signal \/ z \in Flushed(s, d, cmd)
<1> DEFINE x == <<d, cmd.key>>
<1>0. s.dict \in [Places -> Vals \cup {Nil}] /\ NoEffect(s, cmd).db = s
  BY DEF Keyspaces, NoEffect, Effect
<1>1. CASE cmd.op = "set"
  <2> DEFINE when == IF cmd.ex THEN t + cmd.ttl ELSE NoExpire
             s1 == setKey(s, x, cmd.arg)
  <2>1. e = setGenericCommand(s, x, cmd, t)
    BY <1>1 DEF Proc
  <2>2. e = Effect(setExpire(s1, x, when), 1, {x}, cmd)
    BY <1>0, <2>1 DEF setGenericCommand
  <2> HIDE DEF when
  <2>3. e.db = setExpire(s1, x, when) /\ e.signal = {x}
    BY <2>2 DEF Effect
  <2>4. setExpire(s1, x, when).dict = s1.dict
    BY DEF setExpire, Space
  <2>5. z # x => s1.dict[z] = s.dict[z]
    BY Frames
  <2> QED BY <2>3, <2>4, <2>5
<1>2. CASE cmd.op = "del"
  <2>1. e = delCommand(s, x, cmd)
    BY <1>2 DEF Proc
  <2>2. e = Effect(dbDelete(s, x), 1, {x}, cmd)
    BY <1>0, <2>1 DEF delCommand
  <2>3. e.db = dbDelete(s, x) /\ e.signal = {x}
    BY <2>2 DEF Effect
  <2>4. z # x => dbDelete(s, x).dict[z] = s.dict[z]
    BY Frames
  <2> QED BY <2>3, <2>4
<1>3. CASE cmd.op = "expire"
  <2>1. e = expireGenericCommand(s, x, cmd, t, "master")
    BY <1>3 DEF Proc
  <2>2. e = Effect(dbDelete(s, x), 1, {x}, [op |-> "del", key |-> cmd.key])
        \/ e = Effect(setExpire(s, x, t + cmd.arg), 1, {x}, cmd)
    BY <1>0, <2>1 DEF expireGenericCommand
  <2>3. (e.db = dbDelete(s, x) \/ e.db = setExpire(s, x, t + cmd.arg)) /\ e.signal = {x}
    BY <2>2 DEF Effect
  <2>4. z # x => dbDelete(s, x).dict[z] = s.dict[z]
    BY Frames
  <2>5. setExpire(s, x, t + cmd.arg).dict = s.dict
    BY Frames
  <2> QED BY <2>3, <2>4, <2>5
<1>4. CASE cmd.op = "persist"
  <2>1. e = persistCommand(s, x, cmd)
    BY <1>4 DEF Proc
  <2>2. e = Effect(setExpire(s, x, NoExpire), 1, {}, cmd)
    BY <1>0, <2>1 DEF persistCommand
  <2>3. e.db = setExpire(s, x, NoExpire)
    BY <2>2 DEF Effect
  <2>4. setExpire(s, x, NoExpire).dict = s.dict
    BY Frames
  <2> QED BY <2>3, <2>4
<1>5. CASE cmd.op = "rename"
  <2> DEFINE y == <<d, cmd.arg>>
             s1 == setKey(s, y, s.dict[x])
             s2 == setExpire(s1, y, s.expires[x])
  <2>1. e = renameGenericCommand(s, x, y, cmd)
    BY <1>5 DEF Proc
  <2>2. x \in Places /\ y \in Places
    BY <1>5 DEF Places, Command, KeyCommand, SetCommand, ExpireCommand, RenameCommand,
                MoveCommand, SelectCommand, ServerCommand
  <2>3. e = Effect(dbDelete(s2, x), 1, {x, y}, cmd)
    BY <1>0, <2>1 DEF renameGenericCommand
  <2>4. s1 \in Keyspaces /\ s2 \in Keyspaces
    <3>1. s.dict[x] \in Vals \cup {Nil} /\ s.expires[x] \in Int
      BY <2>2 DEF Keyspaces
    <3> QED BY <2>2, <3>1, SetKeyType, SetExpireType
  <2>5. ASSUME z # x, z # y PROVE dbDelete(s2, x).dict[z] = s.dict[z]
    <3>1. dbDelete(s2, x).dict[z] = s2.dict[z]
      BY <2>4, <2>5, Frames
    <3>2. s2.dict = s1.dict
      BY <2>4, Frames
    <3>3. s1.dict[z] = s.dict[z]
      BY <2>5, Frames
    <3> QED BY <3>1, <3>2, <3>3
  <2>6. e.db = dbDelete(s2, x) /\ e.signal = {x, y}
    BY <2>3 DEF Effect
  <2> QED BY <2>5, <2>6
<1>6. CASE cmd.op = "flushdb"
  <2> DEFINE X == {y \in Places : y[1] = d}
  <2>1. e = flushCommand(s, X, 0, cmd)
    BY <1>6 DEF Proc
  <2>2. e.db = Purge(s, X)
    BY <2>1 DEF flushCommand, Effect
  <2>3. Purge(s, X).dict = [y \in Places |-> IF y \in X THEN Nil ELSE s.dict[y]]
    BY DEF Purge, Space
  <2>4. z[1] = d /\ s.dict[z] # Nil
    BY <2>2, <2>3, <1>0
  <2> QED BY <1>6, <2>4 DEF Flushed, Exists
<1>7. CASE cmd.op = "flushall"
  <2>1. e = flushCommand(s, Places, 1, cmd)
    BY <1>7 DEF Proc
  <2>2. e.db = Purge(s, Places)
    BY <2>1 DEF flushCommand, Effect
  <2>3. Purge(s, Places).dict = [y \in Places |-> IF y \in Places THEN Nil ELSE s.dict[y]]
    BY DEF Purge, Space
  <2>4. s.dict[z] # Nil
    BY <2>2, <2>3, <1>0
  <2> QED BY <1>7, <2>4 DEF Flushed, Exists
<1>8. CASE cmd.op \in {"get", "select", "save", "unwatch"}
  BY <1>0, <1>8 DEF Proc
<1>9. cmd.op \in {"set", "get", "del", "persist", "expire", "rename", "select",
                  "flushdb", "flushall", "save", "unwatch"}
  BY DEF Command, KeyCommand, SetCommand, ExpireCommand, RenameCommand, MoveCommand,
         SelectCommand, ServerCommand
<1> QED BY <1>1, <1>2, <1>3, <1>4, <1>5, <1>6, <1>7, <1>8, <1>9

-----------------------------------------------------------------------------
(* The inductive invariant.  CasSound needs the index: a command reaches    *)
(* the watchers of a key through dbWatched, a flush through watchedKeys.    *)

\* The part of the invariant about WATCH.
WatchInv == WatchIndexAgrees /\ NoStaleCasFlag /\ CasSound

\* unwatchAllKeys() keeps the two sides of WATCH typed and in agreement.
LEMMA UnwatchIndex ==
    ASSUME TypeOK, WatchIndexAgrees, NEW c \in Clients, unwatchAllKeys(c)
    PROVE  /\ watchedKeys' \in [Clients -> SUBSET Places]
           /\ dbWatched' \in [Places -> SUBSET Clients]
           /\ seen' \in [Clients -> [Places -> Vals \cup {Nil, Moved}]]
           /\ WatchIndexAgrees'
           /\ watchedKeys'[c] = {}
           /\ \A b \in Clients \ {c} : watchedKeys'[b] = watchedKeys[b] /\ seen'[b] = seen[b]
BY DEF TypeOK, WatchIndexAgrees, unwatchAllKeys

\* unwatchAllKeys() keeps what WATCH promises, if it leaves the dataset and
\* the flags of the other clients alone and the flag of its own is clear.
LEMMA UnwatchInv ==
    ASSUME TypeOK, WatchInv, NEW c \in Clients, unwatchAllKeys(c), db' = db,
           dirtyCas' = [dirtyCas EXCEPT ![c] = FALSE]
    PROVE  WatchInv'
<1>1. /\ WatchIndexAgrees'
      /\ watchedKeys'[c] = {}
      /\ \A b \in Clients \ {c} : watchedKeys'[b] = watchedKeys[b] /\ seen'[b] = seen[b]
  BY UnwatchIndex DEF WatchInv
<1>2. ~dirtyCas'[c] /\ \A b \in Clients \ {c} : dirtyCas'[b] = dirtyCas[b]
  BY DEF TypeOK
<1>3. CasSound'
  BY <1>1, <1>2 DEF WatchInv, CasSound
<1>4. NoStaleCasFlag'
  BY <1>1, <1>2 DEF WatchInv, NoStaleCasFlag
<1> QED BY <1>1, <1>3, <1>4 DEF WatchInv

\* call() of a command.
LEMMA CallInv ==
    ASSUME TypeOK, WatchInv, NEW c \in Clients, NEW cmd \in Commands,
           NEW prefix, Call(c, cmd, prefix)
    PROVE  WatchInv'
<1> DEFINE d == selected[c]
           X == Lapsed(db, d, cmd, now)
           s == Purge(db, X)
<1> PICK e : e = Proc(s, d, cmd, now, "master")
  OBVIOUS
<1>1. /\ db' = e.db
      /\ touchWatchedKeys(e.signal, Flushed(s, d, cmd))
      /\ Unreported(X, MovedBy(s, cmd, e))
      /\ watchedKeys' = watchedKeys /\ dbWatched' = dbWatched
  BY DEF Call
<1>2. db \in Keyspaces /\ d \in Dbs /\ now \in Int /\ cmd \in Command
  BY CommandAssumption DEF TypeOK
<1>3. s \in Keyspaces
  BY <1>2, PurgeType
<1>4. WatchIndexAgrees'
  BY <1>1 DEF WatchInv, WatchIndexAgrees
<1>5. \A b \in Clients : dirtyCas'[b] <=>
         (dirtyCas[b] \/ (\E x \in e.signal : b \in dbWatched[x])
          \/ watchedKeys[b] \cap Flushed(s, d, cmd) # {})
  BY <1>1 DEF touchWatchedKeys
<1>6. ASSUME NEW b \in Clients, ~dirtyCas'[b], NEW x \in watchedKeys[b]
      PROVE  seen'[b][x] \in {Moved, db'.dict[x]}
  <2> DEFINE M == MovedBy(s, cmd, e)
  <2>1. x \in Places
    BY DEF TypeOK
  <2>2. ~dirtyCas[b] /\ x \notin Flushed(s, d, cmd)
    BY <1>5, <1>6
  <2>3. b \in dbWatched[x]
    BY <2>1 DEF WatchInv, WatchIndexAgrees
  <2>4. x \notin e.signal
    BY <1>5, <1>6, <2>3
  <2>5. seen'[b][x] = CASE x \in M -> Moved [] x \in X \ M -> Nil [] OTHER -> seen[b][x]
    BY <1>1, <2>1 DEF Unreported
  <2>6. CASE x \in M
    BY <2>5, <2>6
  <2>7. CASE x \notin M
    <3>1. e.db.dict[x] = s.dict[x]
      <4>1. CASE cmd.op = "move"
        BY <2>1, <2>7, <4>1 DEF MovedBy
      <4>2. CASE cmd.op # "move"
        BY <1>2, <1>3, <2>1, <2>2, <2>4, <4>2, ProcSignals
      <4> QED BY <4>1, <4>2
    <3>2. s.dict[x] = IF x \in X THEN Nil ELSE db.dict[x]
      BY <2>1 DEF Purge, Space
    <3>3. seen[b][x] \in {Moved, db.dict[x]}
      BY <1>6, <2>2 DEF WatchInv, CasSound
    <3> HIDE DEF M
    <3>4. seen'[b][x] = IF x \in X THEN Nil ELSE seen[b][x]
      BY <2>5, <2>7
    <3> QED BY <1>1, <3>1, <3>2, <3>3, <3>4
  <2> QED BY <2>6, <2>7
<1>7. CasSound'
  BY <1>1, <1>6 DEF CasSound
<1>8. ASSUME NEW b \in Clients, dirtyCas'[b] PROVE watchedKeys'[b] # {}
  <2>1. CASE dirtyCas[b]
    BY <1>1, <2>1 DEF WatchInv, NoStaleCasFlag
  <2>2. CASE \E x \in e.signal : b \in dbWatched[x]
    <3>1. PICK x \in e.signal : b \in dbWatched[x]
      BY <2>2
    <3>2. e.signal \in SUBSET Places
      BY <1>2, <1>3, ProcType
    <3> QED BY <1>1, <3>1, <3>2 DEF WatchInv, WatchIndexAgrees
  <2>3. CASE watchedKeys[b] \cap Flushed(s, d, cmd) # {}
    BY <1>1, <2>3
  <2> QED BY <1>5, <1>8, <2>1, <2>2, <2>3
<1>9. NoStaleCasFlag'
  BY <1>8 DEF NoStaleCasFlag
<1> QED BY <1>4, <1>7, <1>9 DEF WatchInv

\* call() keeps the types of everything it assigns.
LEMMA CallType ==
    ASSUME TypeOK, NEW c \in Clients, NEW cmd \in Command, NEW prefix, Call(c, cmd, prefix)
    PROVE  /\ db' \in Keyspaces
           /\ now' \in Nat /\ dirty' \in Int
           /\ dirtyCas' \in [Clients -> BOOLEAN]
           /\ selected' \in [Clients -> Dbs]
           /\ watchedKeys' \in [Clients -> SUBSET Places]
           /\ dbWatched' \in [Places -> SUBSET Clients]
           /\ seen' \in [Clients -> [Places -> Vals \cup {Nil, Moved}]]
<1> DEFINE d == selected[c]
           X == Lapsed(db, d, cmd, now)
           s == Purge(db, X)
<1> PICK e : e = Proc(s, d, cmd, now, "master")
  OBVIOUS
<1>1. /\ db' = e.db
      /\ dirty' = NewDirty(cmd, e)
      /\ touchWatchedKeys(e.signal, Flushed(s, d, cmd))
      /\ Unreported(X, MovedBy(s, cmd, e))
      /\ selected' = IF cmd.op = "select" THEN [selected EXCEPT ![c] = selectDb(d, cmd.arg)]
                     ELSE selected
      /\ now' = now /\ watchedKeys' = watchedKeys /\ dbWatched' = dbWatched
  BY DEF Call
<1>2. db \in Keyspaces /\ d \in Dbs /\ now \in Int /\ dirty \in Int
  BY DEF TypeOK
<1>3. s \in Keyspaces
  BY <1>2, PurgeType
<1>4. e.db \in Keyspaces /\ e.dirty \in Int
  BY <1>2, <1>3, ProcType
<1>5. ASSUME NEW n \in Int PROVE ToInt(n) \in Int
  BY WidthAssumption DEF ToInt
<1>6. NewDirty(cmd, e) \in Int
  <2>1. dirty + e.dirty \in Int /\ dirty + e.dirty - 1 \in Int
    BY <1>2, <1>4
  <2>2. ToInt(dirty + e.dirty - 1) + 1 \in Int
    BY <2>1, <1>5
  <2> QED BY <2>1, <2>2 DEF NewDirty
<1>7. dirtyCas' \in [Clients -> BOOLEAN]
  BY <1>1 DEF touchWatchedKeys, TypeOK
<1>8. selectDb(d, cmd.arg) \in Dbs
  BY <1>2 DEF selectDb
<1>9. selected' \in [Clients -> Dbs]
  BY <1>1, <1>8 DEF TypeOK
<1>10. seen' \in [Clients -> [Places -> Vals \cup {Nil, Moved}]]
  BY <1>1 DEF Unreported, TypeOK
<1> QED BY <1>1, <1>4, <1>6, <1>7, <1>9, <1>10 DEF TypeOK

\* The same for a command or for UNWATCH: types and promises of WATCH.
LEMMA PerformInv ==
    ASSUME TypeOK, WatchInv, NEW c \in Clients, NEW cmd \in Commands,
           NEW prefix, Perform(c, cmd, prefix)
    PROVE  /\ db' \in Keyspaces
           /\ now' \in Nat /\ dirty' \in Int
           /\ dirtyCas' \in [Clients -> BOOLEAN]
           /\ selected' \in [Clients -> Dbs]
           /\ watchedKeys' \in [Clients -> SUBSET Places]
           /\ dbWatched' \in [Places -> SUBSET Clients]
           /\ seen' \in [Clients -> [Places -> Vals \cup {Nil, Moved}]]
           /\ WatchInv'
<1>1. CASE Call(c, cmd, prefix)
  BY <1>1, CommandAssumption, CallType, CallInv
<1>2. CASE unwatchCommand(c)
  <2>1. unwatchAllKeys(c) /\ dirtyCas' = [dirtyCas EXCEPT ![c] = FALSE]
        /\ db' = db /\ now' = now /\ dirty' = dirty /\ selected' = selected
    BY <1>2 DEF unwatchCommand
  <2>2. WatchInv'
    BY <2>1, UnwatchInv
  <2>3. /\ watchedKeys' \in [Clients -> SUBSET Places]
        /\ dbWatched' \in [Places -> SUBSET Clients]
        /\ seen' \in [Clients -> [Places -> Vals \cup {Nil, Moved}]]
    BY <2>1, UnwatchIndex DEF WatchInv
  <2> QED BY <2>1, <2>2, <2>3 DEF TypeOK
<1> QED BY <1>1, <1>2 DEF Perform

\* discardTransaction() with an unchanged dataset.
LEMMA DiscardInv ==
    ASSUME TypeOK, WatchInv, NEW c \in Clients, discardTransaction(c), db' = db
    PROVE  /\ multi' \in [Clients -> BOOLEAN]
           /\ dirtyCas' \in [Clients -> BOOLEAN]
           /\ dirtyExec' \in [Clients -> BOOLEAN]
           /\ mstate' \in [Clients -> Seq(Commands)]
           /\ watchedKeys' \in [Clients -> SUBSET Places]
           /\ dbWatched' \in [Places -> SUBSET Clients]
           /\ seen' \in [Clients -> [Places -> Vals \cup {Nil, Moved}]]
           /\ WatchInv'
<1>1. unwatchAllKeys(c) /\ dirtyCas' = [dirtyCas EXCEPT ![c] = FALSE]
  BY DEF discardTransaction
<1>2. WatchInv'
  BY <1>1, UnwatchInv
<1>3. /\ watchedKeys' \in [Clients -> SUBSET Places]
      /\ dbWatched' \in [Places -> SUBSET Clients]
      /\ seen' \in [Clients -> [Places -> Vals \cup {Nil, Moved}]]
  BY <1>1, UnwatchIndex DEF WatchInv
<1>4. <<>> \in Seq(Commands)
  OBVIOUS
<1> QED BY <1>2, <1>3, <1>4 DEF discardTransaction, TypeOK

\* ServerDelete(): expiry by the cron and eviction.
LEMMA ServerDeleteInv ==
    ASSUME TypeOK, WatchInv, NEW x \in Places, ServerDelete(x)
    PROVE  TypeOK' /\ WatchInv'
<1>1. /\ db' = dbDelete(db, x)
      /\ Unreported({x}, {})
      /\ UNCHANGED <<now, dirty, conn, dirtyCas, selected, watchedKeys, dbWatched, running>>
  BY DEF ServerDelete
<1>2. db' \in Keyspaces
  BY <1>1, DeleteType DEF TypeOK
<1>3. seen' \in [Clients -> [Places -> Vals \cup {Nil, Moved}]]
  BY <1>1 DEF Unreported, TypeOK
<1>4. TypeOK'
  BY <1>1, <1>2, <1>3 DEF TypeOK, conn
<1>5. WatchIndexAgrees' /\ NoStaleCasFlag'
  BY <1>1 DEF WatchInv, WatchIndexAgrees, NoStaleCasFlag
<1>6. ASSUME NEW c \in Clients, ~dirtyCas'[c], NEW y \in watchedKeys'[c]
      PROVE  seen'[c][y] \in {Moved, db'.dict[y]}
  <2>1. y \in Places /\ seen[c][y] \in {Moved, db.dict[y]}
    BY <1>1, <1>6 DEF TypeOK, WatchInv, CasSound
  <2>2. seen'[c][y] = IF y \in {x} THEN Nil ELSE seen[c][y]
    BY <1>1, <2>1 DEF Unreported
  <2>3. db.dict \in [Places -> Vals \cup {Nil}]
    BY DEF TypeOK, Keyspaces
  <2>4. db'.dict = [db.dict EXCEPT ![x] = Nil]
    BY <1>1 DEF dbDelete, Space
  <2> QED BY <2>1, <2>2, <2>3, <2>4
<1>7. CasSound'
  BY <1>6 DEF CasSound
<1> QED BY <1>4, <1>5, <1>7 DEF WatchInv

\* The invariant holds initially.
LEMMA InitInv == Init => TypeOK /\ WatchInv
<1> SUFFICES ASSUME Init PROVE TypeOK /\ WatchInv
  OBVIOUS
<1>1. EmptyKeyspace \in Keyspaces
  BY DEF EmptyKeyspace, Space, Keyspaces, NoExpire
<1>2. TypeOK
  BY <1>1, DbAssumption DEF Init, TypeOK, NotRunning, InitialDb
<1>3. WatchInv
  BY DEF Init, WatchInv, WatchIndexAgrees, NoStaleCasFlag, CasSound
<1> QED BY <1>2, <1>3

\* Every action preserves the invariant.
LEMMA NextInv == TypeOK /\ WatchInv /\ [Next]_vars => TypeOK' /\ WatchInv'
<1> SUFFICES ASSUME TypeOK, WatchInv, [Next]_vars PROVE TypeOK' /\ WatchInv'
  OBVIOUS
<1> USE DEF conn, watch
<1>1. ASSUME NEW c \in Clients, NEW cmd \in Commands, ProcessCommand(c, cmd)
      PROVE  TypeOK' /\ WatchInv'
  <2>1. Perform(c, cmd, <<>>) /\ UNCHANGED <<conn, running>>
    BY <1>1 DEF ProcessCommand
  <2>2. WatchInv'
    BY <2>1, PerformInv
  <2>3. TypeOK'
    BY <2>1, PerformInv DEF TypeOK
  <2> QED BY <2>2, <2>3
<1>2. ASSUME NEW c \in Clients, NEW cmd \in Commands, queueMultiCommand(c, cmd)
      PROVE  TypeOK' /\ WatchInv'
  <2>1. mstate' \in [Clients -> Seq(Commands)]
    BY <1>2 DEF queueMultiCommand, TypeOK
  <2>2. TypeOK'
    BY <1>2, <2>1 DEF queueMultiCommand, TypeOK
  <2>3. WatchInv'
    BY <1>2 DEF queueMultiCommand, WatchInv, WatchIndexAgrees, NoStaleCasFlag, CasSound
  <2> QED BY <2>2, <2>3
<1>3. ASSUME NEW c \in Clients, NEW k \in Keys, watchForKey(c, k)
      PROVE  TypeOK' /\ WatchInv'
  <2> DEFINE x == <<selected[c], k>>
  <2>1. x \in Places /\ db.dict[x] \in Vals \cup {Nil}
    BY DEF TypeOK, Places, Keyspaces
  <2>2. /\ dbWatched' = [dbWatched EXCEPT ![x] = @ \cup {c}]
        /\ watchedKeys' = [watchedKeys EXCEPT ![c] = @ \cup {x}]
        /\ seen' = [seen EXCEPT ![c][x] = db.dict[x]]
        /\ UNCHANGED <<db, now, dirty, conn, dirtyCas, selected, running, slave>>
    BY <1>3 DEF watchForKey
  <2> HIDE DEF x
  <2>3. TypeOK'
    BY <2>1, <2>2 DEF TypeOK
  <2>4. WatchIndexAgrees' /\ NoStaleCasFlag'
    BY <2>1, <2>2 DEF TypeOK, WatchInv, WatchIndexAgrees, NoStaleCasFlag
  <2>5. CasSound'
    BY <2>1, <2>2 DEF TypeOK, WatchInv, CasSound
  <2> QED BY <2>3, <2>4, <2>5 DEF WatchInv
<1>4. ASSUME NEW c \in Clients, flagTransaction(c) \/ multiCommand(c)
      PROVE  TypeOK' /\ WatchInv'
  <2>1. TypeOK'
    BY <1>4 DEF flagTransaction, multiCommand, TypeOK
  <2>2. WatchInv'
    BY <1>4 DEF flagTransaction, multiCommand, WatchInv, WatchIndexAgrees, NoStaleCasFlag,
                CasSound
  <2> QED BY <2>1, <2>2
<1>5. ASSUME NEW c \in Clients, discardCommand(c) \/ ExecAbort(c) \/ freeClient(c)
      PROVE  TypeOK' /\ WatchInv'
  <2>1. discardTransaction(c) /\ UNCHANGED <<db, now, dirty, running, slave>>
        /\ selected' \in [Clients -> Dbs]
    BY <1>5, DbAssumption DEF discardCommand, ExecAbort, freeClient, InitialDb, TypeOK
  <2>2. WatchInv'
    BY <2>1, DiscardInv
  <2>3. TypeOK'
    BY <2>1, DiscardInv DEF TypeOK
  <2> QED BY <2>2, <2>3
<1>6. ASSUME NEW c \in Clients, ExecStart(c)
      PROVE  TypeOK' /\ WatchInv'
  <2>1. /\ unwatchAllKeys(c) /\ ~dirtyCas[c]
        /\ running' = [client |-> c, mustPropagate |-> FALSE, dirty |-> dirty]
        /\ UNCHANGED <<db, now, dirty, conn, dirtyCas, selected, slave>>
    BY <1>6 DEF ExecStart
  <2>2. dirtyCas' = [dirtyCas EXCEPT ![c] = FALSE]
    BY <2>1 DEF TypeOK
  <2>3. WatchInv'
    BY <2>1, <2>2, UnwatchInv
  <2>4. TypeOK'
    BY <2>1, UnwatchIndex DEF TypeOK, WatchInv
  <2> QED BY <2>3, <2>4
<1>7. ASSUME ExecStep
      PROVE  TypeOK' /\ WatchInv'
  <2> DEFINE c == running.client
             cmd == Head(mstate[c])
             prefix == execCommandPropagateMulti(c, cmd)
  <2>1. c \in Clients /\ mstate[c] # <<>>
    BY <1>7 DEF ExecStep, Idle, TypeOK
  <2>2. cmd \in Commands /\ Tail(mstate[c]) \in Seq(Commands)
    BY <2>1 DEF TypeOK
  <2>3. /\ Perform(c, cmd, prefix)
        /\ mstate' = [mstate EXCEPT ![c] = Tail(@)]
        /\ running' = [running EXCEPT !.mustPropagate = @ \/ ~ReadOnly(cmd)]
        /\ UNCHANGED <<multi, dirtyExec>>
    BY <1>7 DEF ExecStep
  <2>4. running' \in [client : Clients \cup {NoClient}, mustPropagate : BOOLEAN, dirty : Int]
    BY <2>3 DEF TypeOK
  <2>5. mstate' \in [Clients -> Seq(Commands)]
    BY <2>1, <2>2, <2>3 DEF TypeOK
  <2> HIDE DEF c, cmd, prefix
  <2>6. WatchInv'
    BY <2>1, <2>2, <2>3, PerformInv
  <2>7. TypeOK'
    BY <2>1, <2>2, <2>3, <2>4, <2>5, PerformInv DEF TypeOK
  <2> QED BY <2>6, <2>7
<1>8. ASSUME ExecEnd
      PROVE  TypeOK' /\ WatchInv'
  <2> DEFINE c == running.client
  <2>1. c \in Clients
    BY <1>8 DEF ExecEnd, Idle, TypeOK
  <2>2. /\ discardTransaction(c)
        /\ dirty' = IF running.mustPropagate THEN dirty + 1 ELSE dirty
        /\ running' = NotRunning
        /\ UNCHANGED <<db, now, selected>>
    BY <1>8 DEF ExecEnd
  <2>3. dirty' \in Int
        /\ running' \in [client : Clients \cup {NoClient}, mustPropagate : BOOLEAN, dirty : Int]
    BY <2>2 DEF TypeOK, NotRunning
  <2> HIDE DEF c
  <2>4. WatchInv'
    BY <2>1, <2>2, DiscardInv
  <2>5. TypeOK'
    BY <2>1, <2>2, <2>3, DiscardInv DEF TypeOK
  <2> QED BY <2>4, <2>5
<1>9. ASSUME NEW x \in Places, activeExpireCycleTryExpire(x) \/ freeMemoryIfNeeded(x)
      PROVE  TypeOK' /\ WatchInv'
  BY <1>9, ServerDeleteInv DEF activeExpireCycleTryExpire, freeMemoryIfNeeded
<1>10. ASSUME Tick \/ UNCHANGED vars
       PROVE  TypeOK' /\ WatchInv'
  <2>1. TypeOK'
    BY <1>10 DEF Tick, vars, TypeOK
  <2>2. WatchInv'
    BY <1>10 DEF Tick, vars, WatchInv, WatchIndexAgrees, NoStaleCasFlag, CasSound
  <2> QED BY <2>1, <2>2
<1> QED BY <1>1, <1>2, <1>3, <1>4, <1>5, <1>6, <1>7, <1>8, <1>9, <1>10 DEF Next

\* Type correctness of the command-execution model, for any number of clients,
\* keys and databases and any set of commands.
THEOREM TypeCorrect == Spec => []TypeOK
<1>1. Spec => [](TypeOK /\ WatchInv)
  BY InitInv, NextInv, PTL DEF Spec
<1> QED BY <1>1, PTL

\* The two sides of WATCH always agree and no client keeps a stale
\* REDIS_DIRTY_CAS, whatever the commands.
THEOREM WatchConsistent == Spec => [](WatchIndexAgrees /\ NoStaleCasFlag)
<1>1. Spec => [](TypeOK /\ WatchInv)
  BY InitInv, NextInv, PTL DEF Spec
<1>2. WatchInv => WatchIndexAgrees /\ NoStaleCasFlag
  BY DEF WatchInv
<1> QED BY <1>1, <1>2, PTL

\* Optimistic locking is sound: EXEC runs a transaction only if each watched key
\* has the value it had when it was WATCHed, or expired or was evicted since, or
\* was changed by MOVE, which reports nothing (multi.c: touchWatchedKey).
THEOREM OptimisticLocking == Spec => []CasSound
<1>1. Spec => [](TypeOK /\ WatchInv)
  BY InitInv, NextInv, PTL DEF Spec
<1>2. WatchInv => CasSound
  BY DEF WatchInv
<1> QED BY <1>1, <1>2, PTL
=============================================================================
