---------------------------- MODULE Replication ----------------------------
(***************************************************************************)
(* Master-slave replication of src/data/replication.c: PSYNC, full         *)
(* resynchronisation from an RDB file on disk or streamed to the sockets   *)
(* of the slaves, the backlog, and what happens when a link breaks.        *)
(*                                                                         *)
(* The dataset is its version, the number of write commands executed; the  *)
(* stream is made of items of one offset unit each: the command that leads *)
(* from version v - 1 to version v in database d, SELECT and PING.         *)
(***************************************************************************)
EXTENDS Integers, Sequences, FiniteSets, Functions

CONSTANTS
  Slaves,          \* the servers configured with SLAVEOF
  NoSlave,
  Conns,           \* descriptors of the master available to the slaves
  Dbs,             \* databases, 0 the one a new connection selects
  BacklogSize,     \* server.repl_backlog_size, in items
  NoBacklog,
  NoChild,
  DisklessModes,   \* the values repl-diskless-sync may take
  ForkFails,       \* where a save may fail to start: "sync" in syncCommand,
                   \* "queued" when slaves were already waiting for it
  MaxVersion,      \* bound on the number of write commands
  MaxOffset,       \* bound on the replication offset
  MaxPing,         \* bound on the replication offset up to which PINGs are sent
  MaxFaults        \* bound on broken links, failed saves and user BGSAVEs

\* Descriptor 0 is the standard input, and stands for no connection.
ASSUME ConnAssumption == Conns \subseteq Nat \ {0} /\ Conns # {}
ASSUME DbAssumption == 0 \in Dbs /\ Dbs \subseteq Nat
ASSUME SizeAssumption == BacklogSize \in Nat
ASSUME NoneAssumption ==
  /\ NoSlave \notin Slaves
  /\ NoChild \notin [type : {"disk", "socket"}, rdb : [version : Nat, offset : Nat],
                     fds : SUBSET Conns, sent : SUBSET Conns]
  /\ NoBacklog \notin Seq([type : {"cmd", "select", "ping"}, arg : Int, db : Int])

VARIABLES
  version,      \* the master's dataset
  offset,       \* server.master_repl_offset
  backlog,      \* server.repl_backlog, the last items of the stream
  slaveseldb,   \* server.slaveseldb
  diskless,     \* server.repl_diskless_sync
  child,        \* the RDB child and the dataset it saves
  slaves,       \* server.slaves, a list of connections
  conn,         \* the master's end, and the data in transit, of a connection
  slave,        \* the state of every slave
  faults,       \* how many faults have happened
  stream        \* history: the items of the stream and the version after each

master == <<version, offset, backlog, slaveseldb, diskless, child>>
vars == <<version, offset, backlog, slaveseldb, diskless, child, slaves, conn,
          slave, faults, stream>>

\* Items of the stream and the other messages a slave reads.
Cmd(v, d) == [type |-> "cmd", arg |-> v, db |-> d]
Select(d) == [type |-> "select", arg |-> d, db |-> d]
Ping == [type |-> "ping", arg |-> 0, db |-> 0]
\* History: an entry of the stream.  The offset a new backlog starts with is
\* one nobody receives.
Gap == [type |-> "gap", arg |-> 0, db |-> 0]
Entry(item, v) == [item |-> item, version |-> v]
Entries(items, v) == [i \in 1..Len(items) |-> Entry(items[i], v)]
\* The offset is not part of the file: history, to tell the slaves for which
\* +FULLRESYNC was exact, 0 for one whose buffer does not start at the save.
Rdb(snapshot, early) == [type |-> "rdb", arg |-> snapshot.version,
                         db |-> IF early = 0 THEN snapshot.offset ELSE 0]

\* A client structure that is not in use.  early is history: how many items
\* were in the buffer when the save that will serve the slave was started.
FreeConn == [state |-> "free", peer |-> NoSlave, buf |-> << >>,
             wire |-> << >>, onack |-> FALSE, early |-> 0, rdb |-> [version |-> 0, offset |-> 0]]

\* The states of a connection that is in server.slaves.
Attached == {"wait_start", "wait_end", "send_bulk", "online"}

\* A slave that was never synchronised.  reploff and seldb belong to
\* server.master when connected and to server.cached_master when cached.
FreshSlave == [state |-> "connect", conn |-> 0, cached |-> FALSE, reploff |-> 0,
               seldb |-> 0, initial |-> 0, data |-> 0, exact |-> FALSE,
               resumed |-> FALSE]

Init ==
  /\ version = 0 /\ offset = 0 /\ backlog = NoBacklog /\ slaveseldb = -1
  /\ diskless \in DisklessModes
  /\ child = NoChild
  /\ slaves = << >>
  /\ conn = [c \in Conns |-> FreeConn]
  /\ slave = [s \in Slaves |-> FreshSlave]
  /\ faults = 0
  /\ stream = << >>

----------------------------------------------------------------------------
(* The master: feeding the slaves.                                         *)

\* addReply to a slave: data for a slave that is online and not waiting for
\* its first ACK goes to the socket, all other data stays in the buffer.
addReply(r, items) ==
  IF r.state = "online" /\ ~r.onack
  THEN [r EXCEPT !.wire = IF r.peer = NoSlave THEN << >> ELSE @ \o items]
  ELSE [r EXCEPT !.buf = @ \o items]

FeedFor_Everyone(r, select, item) == select \o <<item>>

\* The items of the stream a slave in the given state receives.
FeedFor(r, select, item) ==
  IF r.state = "wait_start" THEN select ELSE select \o <<item>>

\* The last items of the stream, as the circular buffer keeps them.
Recent(items) ==
  IF Len(items) > BacklogSize
  THEN SubSeq(items, Len(items) - BacklogSize + 1, Len(items)) ELSE items

replicationFeedSlaves(dictid, item, newVersion) ==
  IF backlog = NoBacklog /\ slaves = << >>
  THEN UNCHANGED <<offset, backlog, slaveseldb, conn, stream>>
  ELSE LET select == IF slaveseldb # dictid THEN <<Select(dictid)>> ELSE << >>
       IN /\ slaveseldb' = dictid
          /\ conn' = [c \in Conns |->
               IF conn[c].state \in Attached
               THEN addReply(conn[c], FeedFor(conn[c], select, item)) ELSE conn[c]]
          /\ offset' = offset + Len(select) + 1
          /\ backlog' = Recent(backlog \o select \o <<item>>)
          /\ stream' = stream \o Entries(select, version) \o <<Entry(item, newVersion)>>

\* A write command of a client, propagated by call().
Write(d) ==
  /\ version < MaxVersion /\ offset + 2 <= MaxOffset
  /\ version' = version + 1
  /\ replicationFeedSlaves(d, Cmd(version + 1, d), version + 1)
  /\ UNCHANGED <<diskless, child, slaves, slave, faults>>

\* The PING of replicationCron, which also feeds a backlog without slaves.
PingSlaves ==
  /\ offset + 1 <= MaxPing
  /\ replicationFeedSlaves(slaveseldb, Ping, version)
  /\ UNCHANGED <<version, diskless, child, slaves, slave, faults>>

----------------------------------------------------------------------------
(* The master: saving for the slaves.                                      *)

\* The dataset a child sees, with the place in the stream where it is.
Snapshot == [version |-> version,
             offset |-> IF backlog = NoBacklog THEN offset + 1 ELSE offset]

Child(type, fds) == [type |-> type, rdb |-> Snapshot, fds |-> fds, sent |-> {}]

InState(cs, state) == {c \in Conns : cs[c].state = state}

\* History, when a save starts.
Mark(cs) ==
  [c \in Conns |-> IF cs[c].state = "wait_end"
                   THEN [cs[c] EXCEPT !.early = Len(cs[c].buf)] ELSE cs[c]]

ToEnd(cs) ==
  [c \in Conns |-> IF cs[c].state = "wait_start"
                   THEN [cs[c] EXCEPT !.state = "wait_end"] ELSE cs[c]]

Outcomes == IF "queued" \in ForkFails THEN {"ok", "fork_failed", "pipe_failed"} ELSE {"ok"}

\* startBgsaveForReplication, given the connections cs: the new connections
\* and child.  rdbSaveToSlavesSockets moves the slaves it finds waiting to
\* WAIT_BGSAVE_END before it forks, whether or not fork() succeeds.
BgsaveConns(cs, outcome) ==
  LET found == IF diskless /\ outcome # "pipe_failed" THEN ToEnd(cs) ELSE cs
  IN IF outcome = "ok" THEN Mark(found) ELSE found

BgsaveChild(cs, outcome) ==
  IF outcome # "ok" THEN NoChild
  ELSE IF diskless THEN Child("socket", InState(cs, "wait_start")) ELSE Child("disk", {})

\* freeClient of the connections in gone.  A descriptor is available again
\* when both ends have closed it.
freeClient(cs, gone) ==
  [c \in Conns |->
     IF c \notin gone THEN cs[c]
     ELSE IF cs[c].peer = NoSlave THEN FreeConn
     ELSE [FreeConn EXCEPT !.state = "closed", !.peer = cs[c].peer, !.wire = cs[c].wire,
                           !.early = cs[c].early]]

Without(list, gone) ==
  LET Kept[n \in 0..Len(list)] ==
        IF n = 0 THEN << >>
        ELSE IF list[n] \in gone THEN Kept[n - 1] ELSE Append(Kept[n - 1], list[n])
  IN Kept[Len(list)]

putSlaveOnline_DropBuffer(r) ==
  [r EXCEPT !.state = "online", !.onack = FALSE, !.buf = << >>]

\* putSlaveOnline: install the write handler, which sends what was buffered.
putSlaveOnline(r) ==
  [r EXCEPT !.state = "online", !.onack = FALSE, !.buf = << >>,
            !.wire = IF r.peer = NoSlave THEN << >> ELSE @ \o r.buf]

\* What updateSlavesWaitingBgsave makes of a slave.
Served(r, type, rdb) ==
  CASE r.state = "wait_start" -> [r EXCEPT !.state = "wait_end"]
    [] r.state = "wait_end" /\ type = "socket" ->
         [r EXCEPT !.state = "online", !.onack = TRUE]
    [] r.state = "wait_end" /\ type = "disk" ->
         [r EXCEPT !.state = "send_bulk", !.rdb = rdb]
    [] OTHER -> r

\* updateSlavesWaitingBgsave at the end of a save of the given type: failed are
\* the slaves to close; if one was waiting for the save to start, another is
\* started, and if that fails the slaves that still wait to start are closed.
updateSlavesWaitingBgsave(cs, type, rdb, failed, outcome) ==
  LET served == freeClient([c \in Conns |-> Served(cs[c], type, rdb)], failed)
      startbgsave == InState(cs, "wait_start") # {}
      started == IF startbgsave THEN BgsaveConns(served, outcome) ELSE served
      unlucky == IF startbgsave /\ outcome # "ok" THEN InState(started, "wait_start") ELSE {}
  IN /\ startbgsave \/ outcome = "ok"
     /\ conn' = freeClient(started, unlucky)
     /\ child' = IF startbgsave THEN BgsaveChild(served, outcome) ELSE NoChild
     /\ slaves' = Without(slaves, failed \cup unlucky)

SaveDoneDisk_KeepWaiting(ok, outcome) ==
  /\ child # NoChild /\ child.type = "disk"
  /\ ok \/ faults < MaxFaults
  /\ faults' = IF ok THEN faults ELSE faults + 1
  /\ updateSlavesWaitingBgsave(conn, IF ok THEN "disk" ELSE "none", child.rdb, {}, outcome)
  /\ UNCHANGED <<version, offset, backlog, slaveseldb, diskless, slave, stream>>

\* backgroundSaveDoneHandlerDisk.
SaveDoneDisk(ok, outcome) ==
  /\ child # NoChild /\ child.type = "disk"
  /\ ok \/ faults < MaxFaults
  /\ faults' = IF ok THEN faults ELSE faults + 1
  /\ updateSlavesWaitingBgsave(conn, "disk", child.rdb,
       IF ok THEN {} ELSE InState(conn, "wait_end"), outcome)
  /\ UNCHANGED <<version, offset, backlog, slaveseldb, diskless, slave, stream>>

\* The child of rdbSaveToSlavesSockets has written the whole RDB to a slave.
StreamRdb(c) ==
  /\ child # NoChild /\ child.type = "socket"
  /\ c \in child.fds \ child.sent
  /\ child' = [child EXCEPT !.sent = @ \cup {c}]
  /\ conn' = [conn EXCEPT ![c].wire =
                IF conn[c].peer = NoSlave THEN @ ELSE Append(@, Rdb(child.rdb, conn[c].early))]
  /\ UNCHANGED <<version, offset, backlog, slaveseldb, diskless, slaves, slave,
                 faults, stream>>

\* backgroundSaveDoneHandlerSocket: a slave goes on only if the child reports
\* that it received everything; a child that served nobody exits with an error.
SaveDoneSocket(ok, outcome) ==
  /\ child # NoChild /\ child.type = "socket"
  /\ ok => child.sent # {}
  /\ ok \/ child.fds = {} \/ faults < MaxFaults
  /\ faults' = IF ok \/ child.fds = {} THEN faults ELSE faults + 1
  /\ updateSlavesWaitingBgsave(conn, "socket", child.rdb,
       InState(conn, "wait_end") \ (IF ok THEN child.sent ELSE {}), outcome)
  /\ UNCHANGED <<version, offset, backlog, slaveseldb, diskless, slave, stream>>

\* The BGSAVE command (and the saves of serverCron), always to disk.
bgsaveCommand ==
  /\ child = NoChild /\ faults < MaxFaults
  /\ child' = Child("disk", {})
  /\ conn' = Mark(conn)
  /\ faults' = faults + 1
  /\ UNCHANGED <<version, offset, backlog, slaveseldb, diskless, slaves, slave, stream>>

\* The last part of replicationCron: start the save slaves are waiting for.
CronBgsave(outcome) ==
  /\ child = NoChild /\ InState(conn, "wait_start") # {}
  /\ outcome = "ok" \/ faults < MaxFaults
  /\ faults' = IF outcome = "ok" THEN faults ELSE faults + 1
  /\ child' = BgsaveChild(conn, outcome)
  /\ conn' = IF outcome = "ok" THEN Mark(ToEnd(conn)) ELSE BgsaveConns(conn, outcome)
  /\ UNCHANGED <<version, offset, backlog, slaveseldb, diskless, slaves, slave, stream>>

\* sendBulkToSlave, up to the last byte of the RDB file.
sendBulkToSlave(c) ==
  /\ conn[c].state = "send_bulk"
  /\ conn' = [conn EXCEPT ![c] = putSlaveOnline(
                IF conn[c].peer = NoSlave THEN conn[c]
                ELSE [conn[c] EXCEPT !.wire = Append(@, Rdb(conn[c].rdb, conn[c].early))])]
  /\ UNCHANGED <<master, slaves, slave, faults, stream>>

\* REPLCONF ACK of a slave that has loaded the RDB streamed to its socket.
replconfCommand(c) ==
  /\ conn[c].state = "online" /\ conn[c].onack
  /\ conn[c].peer # NoSlave /\ slave[conn[c].peer].state = "connected"
  /\ conn' = [conn EXCEPT ![c] = putSlaveOnline(conn[c])]
  /\ UNCHANGED <<master, slaves, slave, faults, stream>>

----------------------------------------------------------------------------
(* The master: SYNC and PSYNC.                                             *)

\* server.repl_backlog_off
BacklogOff == offset - Len(backlog) + 1

\* masterTryPartialResynchronization: the requested offset is in the backlog.
CanContinue(req) ==
  backlog # NoBacklog /\ req >= BacklogOff /\ req <= BacklogOff + Len(backlog)

\* Descriptors neither end, nor the child that inherited one, is using; the
\* one accept() returns.
Available ==
  {c \in Conns : conn[c].state = "free" /\ (child = NoChild \/ c \notin child.fds)}
NewConn == CHOOSE x \in Available : \A y \in Available : x <= y

\* A slave connects and asks with PSYNC to go on from the offset of its cached
\* master.  It waits for the answer without doing anything else, so that the
\* request, the master's handler and the answer are one step.
PartialResync(s) ==
  LET req == slave[s].reploff + 1
  IN /\ slave[s].state = "connect" /\ Available # {}
     /\ slave[s].cached /\ CanContinue(req)
     /\ conn' = [conn EXCEPT ![NewConn] =
           [@ EXCEPT !.state = "online", !.peer = s,
                     !.wire = SubSeq(backlog, req - BacklogOff + 1, Len(backlog))]]
     /\ slaves' = Append(slaves, NewConn)
     /\ slave' = [slave EXCEPT ![s] =
           [@ EXCEPT !.state = "connected", !.conn = NewConn, !.cached = FALSE, !.resumed = TRUE]]
     /\ UNCHANGED <<master, faults, stream>>

\* The offset announced by +FULLRESYNC.
FullResyncOffset == IF backlog = NoBacklog THEN offset + 1 ELSE offset

createReplicationBacklog_NoIncrement ==
  /\ backlog' = << >>
  /\ UNCHANGED <<offset, stream>>

createReplicationBacklog ==
  /\ backlog' = << >>
  /\ offset' = offset + 1
  /\ stream' = Append(stream, Entry(Gap, version))

\* The end of syncCommand: the client becomes a slave in the given state.  The
\* slave, told the offset, discards its cached master and waits for the RDB.
Attach(s, cs, state, buf, early) ==
  /\ conn' = [cs EXCEPT ![NewConn] = [FreeConn EXCEPT !.state = state, !.peer = s,
                                        !.buf = buf, !.early = early]]
  /\ slaveseldb' = -1
  /\ slaves' = Append(slaves, NewConn)
  /\ IF slaves = << >> /\ backlog = NoBacklog
     THEN createReplicationBacklog ELSE UNCHANGED <<backlog, offset, stream>>
  /\ slave' = [slave EXCEPT ![s] = [@ EXCEPT !.state = "transfer", !.conn = NewConn,
                                            !.cached = FALSE, !.initial = FullResyncOffset]]
  /\ UNCHANGED <<version, diskless, faults>>

\* A save is in progress or is left to replicationCron: register the
\* differences with the first slave in list order that does, or wait.
WaitForBgsave(s) ==
  LET registering == {i \in DOMAIN slaves : conn[slaves[i]].state = "wait_end"}
  IN /\ child # NoChild \/ diskless
     /\ IF child # NoChild /\ child.type = "disk" /\ registering # {}
        THEN LET other == conn[slaves[(CHOOSE k \in registering : \A j \in registering : k <= j)]]
             IN Attach(s, conn, "wait_end", other.buf, other.early)
        ELSE Attach(s, conn, "wait_start", << >>, 0)
     /\ UNCHANGED child

\* No save is in progress: start one on disk.
StartBgsave(s) ==
  /\ child = NoChild /\ ~diskless
  /\ child' = Child("disk", {})
  /\ Attach(s, Mark(conn), "wait_end", << >>, 0)

\* fork() fails: the client gets an error after the offset, does not become a
\* slave, and closes the link; its cached master is gone.
FailBgsave(s) ==
  /\ child = NoChild /\ ~diskless /\ "sync" \in ForkFails /\ faults < MaxFaults
  /\ faults' = faults + 1
  /\ slave' = [slave EXCEPT ![s].cached = FALSE]
  /\ UNCHANGED <<master, slaves, conn, stream>>

\* PSYNC of a slave without a cached master or with an offset that cannot be
\* continued: syncCommand does a full resynchronisation.
FullResync(s) ==
  /\ slave[s].state = "connect" /\ Available # {}
  /\ ~slave[s].cached \/ ~CanContinue(slave[s].reploff + 1)
  /\ WaitForBgsave(s) \/ StartBgsave(s) \/ FailBgsave(s)

----------------------------------------------------------------------------
(* The master: losing slaves and the backlog.                              *)

\* The master closes a connection: its slave has closed the other end, or the
\* link timed out, failed, or exceeded an output buffer limit.
FreeSlave(c) ==
  /\ conn[c].state \notin {"free", "closed"}
  /\ conn[c].peer = NoSlave \/ faults < MaxFaults
  /\ faults' = IF conn[c].peer = NoSlave THEN faults ELSE faults + 1
  /\ conn' = freeClient(conn, {c})
  /\ slaves' = Without(slaves, {c})
  /\ UNCHANGED <<master, slave, stream>>

\* replicationCron frees the backlog of a master long without slaves.
freeReplicationBacklog ==
  /\ slaves = << >> /\ backlog # NoBacklog /\ offset < MaxOffset
  /\ backlog' = NoBacklog
  /\ UNCHANGED <<version, offset, slaveseldb, diskless, child, slaves, conn, slave, faults, stream>>

\* CONFIG SET repl-diskless-sync
configSetDiskless(mode) ==
  /\ mode # diskless /\ faults < MaxFaults
  /\ diskless' = mode
  /\ faults' = faults + 1
  /\ UNCHANGED <<version, offset, backlog, slaveseldb, child, slaves, conn, slave, stream>>

----------------------------------------------------------------------------
(* The slaves.                                                             *)

\* The next message from the master, and the link after it is read.
Received(s) == conn[slave[s].conn].wire
Readable(s) == slave[s].conn # 0 /\ Received(s) # << >>
ReadOne(s) == conn' = [conn EXCEPT ![slave[s].conn].wire = Tail(@)]

\* The slave closes its end.
CloseLink(s) ==
  LET c == slave[s].conn
  IN conn' = [conn EXCEPT ![c] =
       IF conn[c].state = "closed" THEN FreeConn
       ELSE [conn[c] EXCEPT !.peer = NoSlave, !.wire = << >>]]

\* A slave gives up waiting for the answer to PSYNC: it takes the I/O error for
\* one, discards the cached master and falls back to SYNC on the same link, to
\* wait there for an RDB.  Either the link is dead, and the transfer times out, or
\* the answer comes late: it is no RDB, so that the slave closes the link, while
\* the master, for which the client is a slave already, ignores the SYNC.  (A late
\* +FULLRESYNC is FullResync and then LoseMaster.  There is one timeout for each
\* broken link, which counts as the fault.)
PsyncTimesOut(s) ==
  /\ slave[s].state = "connect" /\ slave[s].cached
  /\ slave' = [slave EXCEPT ![s].cached = FALSE]
  /\ \/ UNCHANGED <<conn, slaves>>
     \/ /\ Available # {} /\ CanContinue(slave[s].reploff + 1)
        /\ conn' = [conn EXCEPT ![NewConn].state = "online"]
        /\ slaves' = Append(slaves, NewConn)
  /\ UNCHANGED <<master, faults, stream>>

\* readSyncBulkPayload at the end of the transfer: load the RDB.
LoadRdb(s) ==
  /\ slave[s].state = "transfer" /\ Readable(s)
  /\ slave' = [slave EXCEPT ![s].state = "connected", ![s].data = Head(Received(s)).arg,
                            ![s].reploff = slave[s].initial, ![s].seldb = 0,
                            ![s].exact = slave[s].initial = Head(Received(s)).db,
                            ![s].resumed = FALSE]
  /\ ReadOne(s)
  /\ UNCHANGED <<master, slaves, faults, stream>>

\* readSyncBulkPayload: the file cannot be loaded once the old dataset has been
\* emptied.
LoadFails(s) ==
  /\ slave[s].state = "transfer" /\ Readable(s) /\ faults < MaxFaults
  /\ slave' = [slave EXCEPT ![s].state = "connect", ![s].conn = 0, ![s].data = 0]
  /\ faults' = faults + 1
  /\ CloseLink(s)
  /\ UNCHANGED <<master, slaves, stream>>

\* The effect of a command of the stream on the slave's dataset.  A command is
\* only right on top of the previous one and in its own database.
Skipped == -1     \* a command was applied without the one before it
Repeated == -2    \* a command was applied again
Misplaced == -3   \* a command was applied to another database
Diverged == {Skipped, Repeated, Misplaced}

Applied(data, seldb, item) ==
  IF data \in Diverged THEN data
  ELSE CASE item.arg > data + 1 -> Skipped
         [] item.arg <= data -> Repeated
         [] item.arg = data + 1 -> IF seldb # item.db THEN Misplaced ELSE item.arg

\* readQueryFromClient and processInputBuffer on the link with the master.
ReadItem(s) ==
  /\ slave[s].state = "connected" /\ Readable(s)
  /\ LET item == Head(Received(s))
     IN slave' = [slave EXCEPT ![s].reploff = @ + 1,
          ![s].seldb = IF item.type = "select" THEN item.db ELSE @,
          ![s].data = IF item.type = "cmd" THEN Applied(@, slave[s].seldb, item) ELSE @]
  /\ ReadOne(s)
  /\ UNCHANGED <<master, slaves, faults, stream>>

\* The slave loses the link, or a timeout makes it give it up.  A connected
\* slave caches its master; one in the middle of a transfer aborts it.
LoseMaster(s) ==
  /\ slave[s].conn # 0
  /\ conn[slave[s].conn].state = "closed" \/ faults < MaxFaults
  /\ faults' = IF conn[slave[s].conn].state = "closed" THEN faults ELSE faults + 1
  /\ slave' = [slave EXCEPT ![s].state = "connect", ![s].conn = 0,
                            ![s].cached = slave[s].state = "connected"]
  /\ CloseLink(s)
  /\ UNCHANGED <<master, slaves, stream>>

----------------------------------------------------------------------------

MasterStep ==
  \/ \E ok \in BOOLEAN, outcome \in Outcomes : SaveDoneDisk(ok, outcome)
  \/ \E ok \in BOOLEAN, outcome \in Outcomes : SaveDoneSocket(ok, outcome)
  \/ \E outcome \in Outcomes : CronBgsave(outcome)
  \/ \E c \in Conns :
       StreamRdb(c) \/ sendBulkToSlave(c) \/ replconfCommand(c) \/ FreeSlave(c)

SlaveStep ==
  \E s \in Slaves :
    \/ PartialResync(s) \/ FullResync(s) \/ PsyncTimesOut(s)
    \/ LoadRdb(s) \/ LoadFails(s) \/ ReadItem(s) \/ LoseMaster(s)

Next ==
  \/ \E d \in Dbs : Write(d)
  \/ PingSlaves
  \/ bgsaveCommand
  \/ freeReplicationBacklog
  \/ \E mode \in DisklessModes : configSetDiskless(mode)
  \/ MasterStep
  \/ SlaveStep

Spec == Init /\ [][Next]_vars

\* The event loop of the master serves every connection that is ready and its
\* cron runs once per second; so do those of every slave.
Fairness ==
  /\ WF_vars(\E ok \in BOOLEAN, outcome \in Outcomes : SaveDoneDisk(ok, outcome))
  /\ WF_vars(\E ok \in BOOLEAN, outcome \in Outcomes : SaveDoneSocket(ok, outcome))
  /\ WF_vars(\E outcome \in Outcomes : CronBgsave(outcome))
  /\ \A c \in Conns :
       /\ WF_vars(StreamRdb(c)) /\ WF_vars(sendBulkToSlave(c))
       /\ WF_vars(replconfCommand(c))
       /\ WF_vars(conn[c].peer = NoSlave /\ FreeSlave(c))
  /\ \A s \in Slaves :
       /\ WF_vars(PartialResync(s) \/ FullResync(s))
       /\ WF_vars(LoadRdb(s) \/ LoadFails(s) \/ ReadItem(s))
       /\ WF_vars(slave[s].conn # 0 /\ conn[slave[s].conn].state = "closed" /\ LoseMaster(s))

FairSpec == Spec /\ Fairness

----------------------------------------------------------------------------

\* A connection is in server.slaves, once, exactly when it is in one of the states
\* of an attached slave, a slave uses no one else's connection, and there is a
\* backlog (replication.c:177: "We can't have slaves attached and no backlog.").
AttachedRight ==
  /\ IsInjective(slaves)
  /\ slaves # << >> => backlog # NoBacklog
  /\ \A c \in Conns : conn[c].state \in Attached <=> c \in Range(slaves)
  /\ \A s \in Slaves : slave[s].conn # 0 => conn[slave[s].conn].peer = s

\* A slave whose +FULLRESYNC announced the offset of the RDB it loaded, and for
\* which buffering started with the save of that RDB, has, at
\* every later offset of the stream, exactly the dataset the master had there,
\* through any number of broken links and partial resynchronisations.  This is
\* what makes PSYNC with the cached offset (replication.c:1131-1133) sound.
ExactSlavesFollow ==
  \A s \in Slaves :
    slave[s].exact /\ (slave[s].state = "connected" \/ slave[s].cached) =>
      /\ slave[s].reploff \in 1..offset
      /\ slave[s].data = stream[slave[s].reploff].version

\* Until it resumes with a partial resynchronisation, a slave that loaded an
\* RDB applies every command exactly once, in order and in its database, whichever
\* save served it: the commands buffered for it (replication.c:239-257) continue the
\* dataset of the RDB it got.  The exception is a queued save that does not start
\* ("queued" \in ForkFails, which no run of this property has): its slaves are in
\* WAIT_BGSAVE_END already (rdb.c:1422, replication.c:751), with no child, and the
\* next save finds commands in their buffers that its dataset contains.
FullSyncSound ==
  \A s \in Slaves :
    slave[s].state = "connected" /\ ~slave[s].resumed => slave[s].data \notin Diverged

\* Nothing is lost on a link: every attached slave is one the master feeds, and what
\* an exact slave has read, and what is on its way to it, add up to the master's
\* offset.
NothingLost ==
  /\ AttachedRight
  /\ \A s \in Slaves :
       slave[s].exact /\ slave[s].state = "connected" =>
         LET r == conn[slave[s].conn]
         IN r.state \in Attached => slave[s].reploff + Len(r.wire) + Len(r.buf) = offset

\* What +FULLRESYNC is for (replication.c:493-494): a slave that resumes with a
\* partial resynchronisation from the offset it was told misses no command and
\* applies none twice.
ResumesExactly == \A s \in Slaves : slave[s].data \notin {Skipped, Repeated}

\* Every slave is connected and has read all that was sent or is to be sent to it.
InSync ==
  \A s \in Slaves :
    /\ slave[s].state = "connected"
    /\ conn[slave[s].conn].wire = << >> /\ conn[slave[s].conn].buf = << >>

\* Once faults stop, every slave gets connected, stays connected and catches
\* up, whatever it went through before.
EventuallyInSync == <>[]InSync
=============================================================================
