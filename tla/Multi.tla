------------------------------- MODULE Multi --------------------------------
(***************************************************************************)
(* Command execution in a Redis master: processCommand(), call() and       *)
(* propagate() of redis.c, transactions and WATCH (multi.c), and the       *)
(* deletions the server makes by itself (activeExpireCycle() and           *)
(* freeMemoryIfNeeded()).                                                  *)
(*                                                                         *)
(* The server is single threaded: a command runs to its end before the     *)
(* next one starts.  EXEC is the one command that is split into steps, one *)
(* per queued command ("running" is the client inside execCommand());      *)
(* nobody else acts meanwhile.                                             *)
(*                                                                         *)
(* The propagated stream is not stored but applied at once to "slave",     *)
(* what a slave (or a reader of the stream that honours MULTI) makes of    *)
(* it.  A slave executes the stream through processCommand(), so between   *)
(* MULTI and EXEC it only queues.  Its clock is SlaveLag ahead: the time a *)
(* command takes to get there.                                             *)
(***************************************************************************)
EXTENDS Keyspace, Sequences, SequencesExt

CONSTANTS
    Clients,
    NoClient,
    Commands,       \* the commands clients send, besides MULTI, EXEC, ...
    SlaveLag,       \* by how much later a slave runs a command
    SaveParams,     \* server.saveparamslen > 0
    IntHalf,        \* -INT_MIN: flushallCommand() keeps dirty in an int
    MaxQueue,       \* bound: length of a transaction
    MaxDirty,       \* bound: commands stop at this value of server.dirty
    MaxTime         \* bound: the clock stops here

ASSUME ClientAssumption == NoClient \notin Clients

ASSUME CommandAssumption == Commands \subseteq Command

ASSUME DbAssumption == 0 \in Dbs

\* What "seen" says of a place that MOVE has changed.
Moved == "moved"

ASSUME MovedAssumption == Moved \notin Vals

ASSUME WidthAssumption ==
    /\ SaveParams \in BOOLEAN
    /\ IntHalf \in Nat \ {0} /\ SlaveLag \in Nat
    /\ MaxQueue \in Nat /\ MaxDirty \in Nat /\ MaxTime \in Nat

VARIABLES
    db,             \* server.db[], the keyspace
    now,            \* mstime()
    dirty,          \* server.dirty
    multi,          \* REDIS_MULTI of each client
    dirtyCas,       \* REDIS_DIRTY_CAS of each client
    dirtyExec,      \* REDIS_DIRTY_EXEC of each client
    mstate,         \* c->mstate.commands of each client
    selected,       \* c->db->id of each client
    watchedKeys,    \* c->watched_keys of each client: a set of places
    dbWatched,      \* db->watched_keys: the clients watching each place
    running,        \* who is in execCommand(), and its local variables
    slave,          \* what the propagated stream makes of a slave
    seen            \* history: what each place held when the client WATCHed
                    \* it, Nil once it has expired or was evicted, Moved
                    \* once MOVE has changed it

conn == <<multi, dirtyExec, mstate>>
watch == <<watchedKeys, dbWatched, seen>>
vars == <<db, now, dirty, conn, dirtyCas, selected, watch, running, slave>>

Idle == running.client = NoClient
NotRunning == [client |-> NoClient, mustPropagate |-> FALSE, dirty |-> 0]

-----------------------------------------------------------------------------
(* Propagation: propagate(), replicationFeedSlaves() and the slave. *)

\* One element of the stream: a command vector and the database it is for.
Op(d, cmd) == [db |-> d, cmd |-> cmd]
MultiOp(d) == Op(d, [op |-> "multi"])
ExecOp(d) == Op(d, [op |-> "exec"])
DelOp(x) == Op(x[1], [op |-> "del", key |-> x[2]])

SlaveCall(s, o) == Proc(s, o.db, o.cmd, now + SlaveLag, "slave").db

\* processCommand() of the slave for one element of the stream.
SlaveProcess(sl, o) ==
    CASE o.cmd.op = "multi" -> [sl EXCEPT !.multi = TRUE]
      [] o.cmd.op = "exec" ->
           IF ~sl.multi THEN sl
           ELSE [db |-> FoldLeft(SlaveCall, sl.db, sl.queue), multi |-> FALSE, queue |-> <<>>]
      [] OTHER ->
           IF sl.multi THEN [sl EXCEPT !.queue = Append(@, o)]
           ELSE [sl EXCEPT !.db = SlaveCall(@, o)]

propagate(ops) == slave' = FoldLeft(SlaveProcess, slave, ops)

\* propagateExpire() for every place of X.
PropagateExpire_Dropped(X) == <<>>

PropagateExpire(X) == SetToSeq({DelOp(x) : x \in X})

-----------------------------------------------------------------------------
(* multi.c: WATCH *)

\* touchWatchedKey() for the places of X, and touchWatchedKeysOnFlush() for
\* the places of F: the first goes through the index of the database, the
\* second through the list of each client.
touchWatchedKeys_IgnoreFlush(X, F) ==
    dirtyCas' = [c \in Clients |-> dirtyCas[c] \/ \E x \in X : c \in dbWatched[x]]

touchWatchedKeys(X, F) ==
    dirtyCas' = [c \in Clients |->
        \/ dirtyCas[c]
        \/ \E x \in X : c \in dbWatched[x]
        \/ watchedKeys[c] \cap F # {}]

\* What watchers are not told: the places X that the server deletes by itself,
\* and the places M that MOVE changes.
Unreported(X, M) ==
    seen' = [c \in Clients |-> [x \in Places |->
        CASE x \in M -> Moved
          [] x \in X \ M -> Nil
          [] OTHER -> seen[c][x]]]

\* The places a command changes without signalModifiedKey(): moveCommand().
MovedBy(s, cmd, e) ==
    {x \in Places : cmd.op = "move" /\ e.db.dict[x] # s.dict[x]}

unwatchAllKeys_KeepIndex(c) ==
    /\ watchedKeys' = [watchedKeys EXCEPT ![c] = {}]
    /\ seen' = [seen EXCEPT ![c] = [x \in Places |-> Nil]]
    /\ UNCHANGED dbWatched

unwatchAllKeys(c) ==
    /\ watchedKeys' = [watchedKeys EXCEPT ![c] = {}]
    /\ dbWatched' = [x \in Places |->
           IF x \in watchedKeys[c] THEN dbWatched[x] \ {c} ELSE dbWatched[x]]
    /\ seen' = [seen EXCEPT ![c] = [x \in Places |-> Nil]]

\* discardTransaction(): initClientMultiState(), the flags, unwatchAllKeys().
discardTransaction(c) ==
    /\ multi' = [multi EXCEPT ![c] = FALSE]
    /\ dirtyExec' = [dirtyExec EXCEPT ![c] = FALSE]
    /\ dirtyCas' = [dirtyCas EXCEPT ![c] = FALSE]
    /\ mstate' = [mstate EXCEPT ![c] = <<>>]
    /\ unwatchAllKeys(c)

-----------------------------------------------------------------------------
(* redis.c: call() *)

\* A C int holding n: values from -IntHalf to IntHalf - 1, wrapping around.
ToInt(n) == ((n + IntHalf) % (2 * IntHalf)) - IntHalf

\* server.dirty after a command.  rdbSave() resets it; FLUSHALL, when save
\* points are configured, keeps it in an int around its own rdbSave().
NewDirty(cmd, e) ==
    CASE cmd.op = "save" -> 0
      [] cmd.op = "flushall" /\ SaveParams -> ToInt(dirty + e.dirty - 1) + 1
      [] OTHER -> dirty + e.dirty

\* call() of an ordinary command, "prefix" being propagated before it.
Call(c, cmd, prefix) ==
    LET d  == selected[c]
        X  == Lapsed(db, d, cmd, now)
        s  == Purge(db, X)
        e  == Proc(s, d, cmd, now, "master")
    IN  /\ db' = e.db
        /\ dirty' = NewDirty(cmd, e)
        /\ propagate(prefix \o PropagateExpire(X)
                     \o (IF dirty' > dirty THEN <<Op(d, e.as)>> ELSE <<>>))
        /\ touchWatchedKeys(e.signal, Flushed(s, d, cmd))
        /\ Unreported(X, MovedBy(s, cmd, e))
        /\ selected' = IF cmd.op = "select" THEN [selected EXCEPT ![c] = selectDb(d, cmd.arg)]
                       ELSE selected
        /\ UNCHANGED <<now, watchedKeys, dbWatched>>

\* UNWATCH is a command of its own: it works on the watch lists only.
unwatchCommand(c) ==
    /\ unwatchAllKeys(c)
    /\ dirtyCas' = [dirtyCas EXCEPT ![c] = FALSE]
    /\ UNCHANGED <<db, now, dirty, selected, slave>>

Perform(c, cmd, prefix) ==
    IF cmd.op = "unwatch" THEN unwatchCommand(c) ELSE Call(c, cmd, prefix)

\* createClient() selects database 0.
InitialDb == 0

-----------------------------------------------------------------------------
(* Actions.  Each is one round of processCommand() for a command of c. *)

\* A client outside MULTI: the command is executed.
ProcessCommand(c, cmd) ==
    /\ Idle /\ ~multi[c] /\ dirty < MaxDirty
    /\ Perform(c, cmd, <<>>)
    /\ UNCHANGED <<conn, running>>

\* A client in MULTI: the command is queued.
queueMultiCommand(c, cmd) ==
    /\ Idle /\ multi[c] /\ Len(mstate[c]) < MaxQueue
    /\ mstate' = [mstate EXCEPT ![c] = Append(@, cmd)]
    /\ UNCHANGED <<db, now, dirty, multi, dirtyExec, dirtyCas, selected, watch, running, slave>>

\* A command in MULTI that is refused with an error: unknown, wrong arity,
\* no authentication, out of memory, failed bgsave, too few slaves, stale
\* slave, running script.
flagTransaction(c) ==
    /\ Idle /\ multi[c]
    /\ dirtyExec' = [dirtyExec EXCEPT ![c] = TRUE]
    /\ UNCHANGED <<db, now, dirty, multi, mstate, dirtyCas, selected, watch, running, slave>>

multiCommand(c) ==
    /\ Idle /\ ~multi[c]
    /\ multi' = [multi EXCEPT ![c] = TRUE]
    /\ UNCHANGED <<db, now, dirty, dirtyExec, mstate, dirtyCas, selected, watch, running, slave>>

discardCommand(c) ==
    /\ Idle /\ multi[c]
    /\ discardTransaction(c)
    /\ UNCHANGED <<db, now, dirty, selected, running, slave>>

\* WATCH for one key; inside MULTI it is refused.
watchForKey(c, k) ==
    LET x == <<selected[c], k>>
    IN  /\ Idle /\ ~multi[c]
        /\ x \notin watchedKeys[c]
        /\ dbWatched' = [dbWatched EXCEPT ![x] = @ \cup {c}]
        /\ watchedKeys' = [watchedKeys EXCEPT ![c] = @ \cup {x}]
        /\ seen' = [seen EXCEPT ![c][x] = db.dict[x]]
        /\ UNCHANGED <<db, now, dirty, conn, dirtyCas, selected, running, slave>>

\* EXEC of a transaction that must not run.
ExecAbort(c) ==
    /\ Idle /\ multi[c]
    /\ dirtyCas[c] \/ dirtyExec[c]
    /\ discardTransaction(c)
    /\ UNCHANGED <<db, now, dirty, selected, running, slave>>

\* EXEC: unwatch ASAP, then the loop over the queue starts.
ExecStart(c) ==
    /\ Idle /\ multi[c] /\ dirty < MaxDirty
    /\ ~dirtyCas[c] /\ ~dirtyExec[c]
    /\ unwatchAllKeys(c)
    /\ running' = [client |-> c, mustPropagate |-> FALSE, dirty |-> dirty]
    /\ UNCHANGED <<db, now, dirty, conn, dirtyCas, selected, slave>>

\* MULTI is propagated before the first command that is not read-only.
execCommandPropagateMulti_Late(c, cmd) ==
    IF running.mustPropagate /\ ~slave.multi THEN <<MultiOp(selected[c])>> ELSE <<>>

execCommandPropagateMulti(c, cmd) ==
    IF ~running.mustPropagate /\ ~ReadOnly(cmd) THEN <<MultiOp(selected[c])>> ELSE <<>>

\* One iteration of the loop of execCommand().
ExecStep ==
    LET c == running.client
        cmd == Head(mstate[c])
    IN  /\ ~Idle /\ mstate[c] # <<>>
        /\ Perform(c, cmd, execCommandPropagateMulti(c, cmd))
        /\ mstate' = [mstate EXCEPT ![c] = Tail(@)]
        /\ running' = [running EXCEPT !.mustPropagate = @ \/ ~ReadOnly(cmd)]
        /\ UNCHANGED <<multi, dirtyExec>>

\* End of execCommand(): discardTransaction(); dirty is raised when MULTI was
\* propagated.  Then call() of EXEC itself propagates it if dirty has grown
\* since execCommand() was entered.
ExecEnd ==
    LET c == running.client
    IN  /\ ~Idle /\ mstate[c] = <<>>
        /\ discardTransaction(c)
        /\ dirty' = IF running.mustPropagate THEN dirty + 1 ELSE dirty
        /\ propagate(IF dirty' > running.dirty THEN <<ExecOp(selected[c])>> ELSE <<>>)
        /\ running' = NotRunning
        /\ UNCHANGED <<db, now, selected>>

\* freeClient() of a client, and a new connection in its slot.
freeClient(c) ==
    /\ Idle
    /\ discardTransaction(c)
    /\ selected' = [selected EXCEPT ![c] = InitialDb]
    /\ UNCHANGED <<db, now, dirty, running, slave>>

\* activeExpireCycleTryExpire() on a key the cron happens to sample, and the
\* deletion of a key that freeMemoryIfNeeded() selects.  Both propagate a DEL
\* and delete the key.
ServerDelete(x) ==
    /\ Idle
    /\ db' = dbDelete(db, x)
    /\ propagate(PropagateExpire({x}))
    /\ Unreported({x}, {})
    /\ UNCHANGED <<now, dirty, conn, dirtyCas, selected, watchedKeys, dbWatched, running>>

activeExpireCycleTryExpire(x) == Expired(db, x, now) /\ ServerDelete(x)

freeMemoryIfNeeded(x) == Exists(db, x) /\ ServerDelete(x)

\* Every mstime() reads the clock: it also moves between the commands of an
\* EXEC.
Tick ==
    /\ now < MaxTime
    /\ now' = now + 1
    /\ UNCHANGED <<db, dirty, conn, dirtyCas, selected, watch, running, slave>>

-----------------------------------------------------------------------------
Init ==
    /\ db = EmptyKeyspace
    /\ now = 0 /\ dirty = 0
    /\ multi = [c \in Clients |-> FALSE]
    /\ dirtyCas = [c \in Clients |-> FALSE]
    /\ dirtyExec = [c \in Clients |-> FALSE]
    /\ mstate = [c \in Clients |-> <<>>]
    /\ selected = [c \in Clients |-> InitialDb]
    /\ watchedKeys = [c \in Clients |-> {}]
    /\ dbWatched = [x \in Places |-> {}]
    /\ running = NotRunning
    /\ slave = [db |-> EmptyKeyspace, multi |-> FALSE, queue |-> <<>>]
    /\ seen = [c \in Clients |-> [x \in Places |-> Nil]]

Next ==
    \/ \E c \in Clients :
         \/ \E cmd \in Commands : ProcessCommand(c, cmd) \/ queueMultiCommand(c, cmd)
         \/ \E k \in Keys : watchForKey(c, k)
         \/ flagTransaction(c) \/ multiCommand(c) \/ discardCommand(c)
         \/ ExecAbort(c) \/ ExecStart(c)
         \/ freeClient(c)
    \/ ExecStep \/ ExecEnd
    \/ \E x \in Places : activeExpireCycleTryExpire(x) \/ freeMemoryIfNeeded(x)
    \/ Tick

Spec == Init /\ [][Next]_vars
-----------------------------------------------------------------------------
(* Properties *)

TypeOK ==
    /\ db \in Keyspaces
    /\ now \in Nat /\ dirty \in Int
    /\ multi \in [Clients -> BOOLEAN]
    /\ dirtyCas \in [Clients -> BOOLEAN]
    /\ dirtyExec \in [Clients -> BOOLEAN]
    /\ mstate \in [Clients -> Seq(Commands)]
    /\ selected \in [Clients -> Dbs]
    /\ watchedKeys \in [Clients -> SUBSET Places]
    /\ dbWatched \in [Places -> SUBSET Clients]
    /\ running \in [client : Clients \cup {NoClient}, mustPropagate : BOOLEAN, dirty : Int]
    /\ seen \in [Clients -> [Places -> Vals \cup {Nil, Moved}]]

\* The two sides of WATCH agree: a client is in the list of a key in
\* db->watched_keys exactly when the key is in its own watched_keys, so that
\* unwatchAllKeys() finds itself in the lists and no list keeps a client that
\* is gone.  (multi.c: watchForKey, unwatchAllKeys)
WatchIndexAgrees ==
    \A c \in Clients, x \in Places : c \in dbWatched[x] <=> x \in watchedKeys[c]

\* Optimistic locking: as long as REDIS_DIRTY_CAS is clear, so that EXEC would
\* run the transaction, every watched key still has the value it had when it
\* was WATCHed, unless it has expired or was evicted since, or MOVE took it to
\* or from another database: moveCommand() tells nobody (MovesNoticed).
\* (multi.c: touchWatchedKey, touchWatchedKeysOnFlush; db.c: signalModifiedKey)
CasSound ==
    \A c \in Clients : ~dirtyCas[c] =>
        \A x \in watchedKeys[c] : seen[c][x] \in {Moved, db.dict[x]}

\* "Every time a key in the database is modified the function
\* signalModifiedKey() is called" (db.c:229-230), so a transaction does not run
\* when MOVE has changed a key it WATCHed.  It does: moveCommand() never calls
\* signalModifiedKey().
MovesNoticed ==
    \A c \in Clients : ~dirtyCas[c] => \A x \in watchedKeys[c] : seen[c][x] # Moved

\* EXEC never fails for a key that is not watched any more: whoever forgets the
\* watched keys of a client also clears REDIS_DIRTY_CAS.  (multi.c:
\* discardTransaction, unwatchCommand, execCommand)
NoStaleCasFlag ==
    \A c \in Clients : dirtyCas[c] => watchedKeys[c] # {}

\* Between commands, what the propagated stream makes of a slave is the
\* master's dataset: every change of a value was propagated, in an order that
\* gives the same result, and no transaction is left open.  The same keys have
\* an expire; EXPIRE and SET are propagated with the TTL they were given, so
\* that of the slave may be later but is never earlier: a slave does not hide
\* a key its master still has.
\* (redis.c: call, propagate; multi.c: execCommand; db.c: propagateExpire)
SlaveAgrees ==
    Idle => /\ slave.db.dict = db.dict /\ ~slave.multi
            /\ \A x \in Places :
                 IF db.expires[x] = NoExpire THEN slave.db.expires[x] = NoExpire
                 ELSE slave.db.expires[x] >= db.expires[x]

\* The stream closes every transaction it opens: once EXEC has returned, the
\* EXEC that matches the propagated MULTI has been propagated too.
\* (multi.c: execCommand "Make sure the EXEC command will be propagated")
ExecPropagated == Idle => ~slave.multi

\* A slave never shows part of a transaction: from the first propagated write
\* of an EXEC until the EXEC itself, its dataset does not move.
\* (multi.c: execCommandPropagateMulti)
SlaveSeesWholeExec == [][running'.mustPropagate => slave'.db = slave.db]_vars
=============================================================================
