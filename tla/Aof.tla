-------------------------------- MODULE Aof --------------------------------
(***************************************************************************)
(* The append only file of src/data/aof.c: the buffer and its flush, the   *)
(* fsync policies and the background fsync thread, the rewrite by a child  *)
(* process, turning the file on and off, SHUTDOWN, crashes and loading.    *)
(*                                                                         *)
(* The dataset is its version, the number of write commands executed.  The *)
(* file is a sequence of halves of commands, so that a write or a crash    *)
(* can stop in the middle of one.                                          *)
(***************************************************************************)
EXTENDS Integers, Sequences

CONSTANTS
  Dbs,            \* databases, 0 the one a new client selects
  Policies,       \* the values of server.aof_fsync: "always", "everysec", "no"
  Truncated,      \* the values of server.aof_load_truncated
  Lazy,           \* the values of server.aof_no_fsync_on_rewrite
  NoChild,
  MaxVersion,     \* bound on the number of write commands
  MaxFaults,      \* bound on failed system calls and crashes
  MaxChanges      \* bound on rewrites and changes of the configuration

ASSUME PolicyAssumption == Policies \subseteq {"always", "everysec", "no"}
ASSUME TruncatedAssumption == Truncated \subseteq BOOLEAN
ASSUME LazyAssumption == Lazy \subseteq BOOLEAN
ASSUME DbAssumption == 0 \in Dbs /\ Dbs \subseteq Nat
ASSUME NoChildAssumption == NoChild \notin [type : {"snap"}, arg : Int, db : Dbs]

VARIABLES
  conf,        \* the configuration: fsync is aof_fsync, truncated is aof_load_truncated,
               \* lazy is aof_no_fsync_on_rewrite
  run,         \* "up", "switching" (in the rewrite handler) or "down"
  version,     \* the dataset
  state,       \* server.aof_state
  fd,          \* server.aof_fd: "none", "live" (the file) or "stale" (closed)
  file,        \* the file named server.aof_filename
  synced,      \* how much of the file is on the disk
  gen,         \* which file it is: every rename makes it another one
  size,        \* server.aof_current_size
  buf,         \* server.aof_buf
  seldb,       \* server.aof_selected_db
  postponed,   \* server.aof_flush_postponed_start # 0
  status,      \* server.aof_last_write_status
  jobs,        \* the fsync jobs of the background thread
  child,       \* the rewriting child: what it writes
  rewritebuf,  \* server.aof_rewrite_buf_blocks
  scheduled,   \* server.aof_rewrite_scheduled
  acked,       \* history: the last version clients were told of with the AOF on
  inside,      \* history: the versions in the middle of a transaction
  orderly,     \* history: the server went down by SHUTDOWN
  stray,       \* history: what was left in the buffer went to a file that was not on
  exposed,     \* history: the process or the machine stopped between the rename and the
               \* fsync of a rewritten file
  faults, changes

server == <<state, fd, size, buf, seldb, postponed, status, child, rewritebuf, scheduled>>
disk == <<file, synced, gen>>
history == <<acked, inside, orderly, stray, exposed>>
vars == <<conf, run, version, state, fd, file, synced, gen, size, buf, seldb, postponed,
          status, jobs, child, rewritebuf, scheduled, acked, inside, orderly, stray,
          exposed, faults, changes>>

----------------------------------------------------------------------------
(* Commands and files.                                                     *)

Cmd(v, d) == [type |-> "cmd", arg |-> v, db |-> d]
Select(d) == [type |-> "select", arg |-> 0, db |-> d]
Multi == [type |-> "multi", arg |-> 0, db |-> 0]
Exec == [type |-> "exec", arg |-> 0, db |-> 0]
\* The commands rewriteAppendOnlyFile emits for a dataset, the last of them in
\* database d.
Snap(v, d) == [type |-> "snap", arg |-> v, db |-> d]

\* The halves of a sequence of commands, and what ftruncate fills a file with.
Halves(items) == [i \in 1..(2 * Len(items)) |->
                    [item |-> items[(i + 1) \div 2], part |-> 2 - (i % 2)]]
Zeros(n) == [i \in 1..n |-> [item |-> Exec, part |-> 0]]

Diverged == -1

\* One command of the file run by the fake client.  Its handler is called
\* directly: commands after MULTI are executed, not queued.
Ran(s, item) ==
  CASE item.type = "snap" -> [s EXCEPT !.data = item.arg, !.db = item.db]
    [] item.type = "select" -> [s EXCEPT !.db = item.db]
    [] item.type = "multi" -> [s EXCEPT !.multi = TRUE]
    [] item.type = "exec" -> [s EXCEPT !.multi = FALSE]
    [] OTHER -> [s EXCEPT !.data = IF item.arg = s.data + 1 /\ item.db = s.db
                                   THEN item.arg ELSE Diverged]

\* One half read by loadAppendOnlyFile: half is the number of halves read of
\* an incomplete command, valid is valid_up_to.
ReadHalf(s, h) ==
  IF s.bad \/ h.part # s.half + 1 THEN [s EXCEPT !.bad = TRUE]
  ELSE IF h.part = 1 THEN [s EXCEPT !.half = 1]
  ELSE [Ran(s, h.item) EXCEPT !.half = 0, !.valid = s.valid + 2]

Loaded(content) ==
  LET after[n \in 0..Len(content)] ==
        IF n = 0 THEN [data |-> 0, db |-> 0, multi |-> FALSE, half |-> 0, valid |-> 0, bad |-> FALSE]
        ELSE ReadHalf(after[n - 1], content[n])
  IN after[Len(content)]

Loads_InMulti(s) == ~s.bad /\ (s.half = 0 \/ conf.truncated)

\* The load succeeds: no format error, and the end of the file is neither in
\* the middle of a command nor of a transaction unless that is tolerated.
Loads(s) == ~s.bad /\ ((s.half = 0 /\ ~s.multi) \/ conf.truncated)

Init ==
  /\ conf \in [fsync : Policies, truncated : Truncated, lazy : Lazy]
  /\ run = "up" /\ version = 0 /\ state \in {"on", "off"}
  /\ fd = IF state = "on" THEN "live" ELSE "none"
  /\ file = << >> /\ synced = 0 /\ gen = 0 /\ size = 0
  /\ buf = << >> /\ seldb = -1 /\ postponed = FALSE /\ status = "ok"
  /\ jobs = << >> /\ child = NoChild /\ rewritebuf = << >> /\ scheduled = FALSE
  /\ acked = 0 /\ inside = {} /\ orderly = FALSE /\ stray = FALSE /\ exposed = FALSE
  /\ faults = 0 /\ changes = 0

----------------------------------------------------------------------------
(* Write commands.                                                         *)

feedAppendOnlyFile(d, items) ==
  LET bytes == Halves((IF d # seldb THEN <<Select(d)>> ELSE << >>) \o items)
  IN /\ seldb' = d
     /\ buf' = IF state = "on" THEN buf \o bytes ELSE buf
     /\ rewritebuf' = IF child # NoChild THEN rewritebuf \o bytes ELSE rewritebuf

\* propagate() feeds the file unless it is off.
propagate(d, items) ==
  IF state # "off" THEN feedAppendOnlyFile(d, items) ELSE UNCHANGED <<seldb, buf, rewritebuf>>

\* processCommand refuses writes after an AOF write error.
Write(d) ==
  /\ run = "up" /\ status = "ok" /\ version < MaxVersion
  /\ version' = version + 1
  /\ propagate(d, <<Cmd(version + 1, d)>>)
  /\ inside' = inside \ {version + 1}
  /\ UNCHANGED <<conf, run, disk, state, fd, size, postponed, status, jobs, child, scheduled,
                 acked, orderly, stray, exposed, faults, changes>>

\* MULTI ... EXEC with two write commands; nothing else runs meanwhile.
Transaction(d) ==
  /\ run = "up" /\ status = "ok" /\ version + 2 <= MaxVersion
  /\ version' = version + 2
  /\ propagate(d, <<Multi, Cmd(version + 1, d), Cmd(version + 2, d), Exec>>)
  /\ inside' = (inside \cup {version + 1}) \ {version + 2}
  /\ UNCHANGED <<conf, run, disk, state, fd, size, postponed, status, jobs, child, scheduled,
                 acked, orderly, stray, exposed, faults, changes>>

----------------------------------------------------------------------------
(* Flushing.                                                               *)

\* A write(2) of the buffer: everything ("ok"), nothing ("error"), a part that
\* ftruncate(2) removes ("undone"), or a part that stays, n halves of it.
\* Descriptor -1 is an error; a closed one is, or is another file by now.
WriteOutcomes ==
  CASE fd = "none" -> {<<"error", 0>>}
    [] fd = "stale" -> {<<"error", 0>>, <<"ok", 0>>}
    [] OTHER -> {<<"ok", 0>>} \cup
                IF faults = MaxFaults THEN {}
                ELSE {<<"error", 0>>, <<"undone", 0>>} \cup
                     {<<"short", n>> : n \in 1..(Len(buf) - 1)}

\* ftruncate(2)
Resized(content, n) ==
  IF n <= Len(content) THEN SubSeq(content, 1, n) ELSE content \o Zeros(n - Len(content))

\* The file after a write with the given outcome.
FileAfter(w) ==
  CASE w[1] = "error" \/ fd # "live" -> file
    [] w[1] = "ok" -> file \o buf
    [] w[1] = "short" -> file \o SubSeq(buf, 1, w[2])
    [] OTHER -> Resized(Append(file, Head(buf)), size)

\* nwritten, when it is positive after the ftruncate(2).
Written(w) == CASE w[1] = "ok" -> Len(buf) [] w[1] = "short" -> w[2] [] OTHER -> 0

BufAfter_KeepAll(w) == IF w[1] = "ok" THEN << >> ELSE buf

\* What is left in the buffer.
BufAfter(w) == SubSeq(buf, Written(w) + 1, Len(buf))

\* flushAppendOnlyFile from the write(2) to the update of the buffer.  A write
\* error is fatal when the policy is always; otherwise the data stays in the
\* buffer and server.aof_last_write_status remembers the error.
WriteBuffer(w) ==
  /\ faults' = IF w[1] = "ok" \/ fd # "live" THEN faults ELSE faults + 1
  /\ file' = FileAfter(w)
  /\ buf' = BufAfter(w)
  /\ postponed' = FALSE
  /\ size' = size + Written(w)
  /\ status' = IF w[1] = "ok" THEN "ok" ELSE "err"
  /\ run' = IF w[1] # "ok" /\ conf.fsync = "always" THEN "down" ELSE run
  /\ stray' = (stray \/ (state # "on" /\ file' # file))

\* no-appendfsync-on-rewrite: no fsync while a child writes to the disk.
FsyncSkipped == conf.lazy /\ child # NoChild

Fsync_OnlyDue(w, due) ==
  /\ synced' = IF w[1] = "ok" /\ conf.fsync = "always" /\ due THEN Len(file')
               ELSE IF Len(file') < synced THEN Len(file') ELSE synced
  /\ jobs' = IF w[1] = "ok" /\ conf.fsync = "everysec" /\ due /\ jobs = << >>
             THEN <<gen>> ELSE jobs

\* The rest of it: fsync(2) here, or by the background thread when none is in
\* progress and a second has passed since the last one (due).
Fsync(w, due) ==
  /\ synced' = IF w[1] = "ok" /\ conf.fsync = "always" /\ ~FsyncSkipped THEN Len(file')
               ELSE IF Len(file') < synced THEN Len(file') ELSE synced
  /\ jobs' = IF w[1] = "ok" /\ conf.fsync = "everysec" /\ ~FsyncSkipped /\ due /\ jobs = << >>
             THEN <<gen>> ELSE jobs

\* flushAppendOnlyFile(0): with an fsync in progress the write is postponed,
\* unless it was and two seconds have passed (late).
flushAppendOnlyFile(w, due, late) ==
  /\ w \in WriteOutcomes
  /\ IF buf = << >>
     THEN UNCHANGED <<run, file, synced, size, buf, postponed, status, jobs, stray, faults>>
     ELSE IF conf.fsync = "everysec" /\ jobs # << >> /\ ~(postponed /\ late)
     THEN /\ postponed' = TRUE
          /\ UNCHANGED <<run, file, synced, size, buf, status, jobs, stray, faults>>
     ELSE WriteBuffer(w) /\ Fsync(w, due)

\* beforeSleep: flush, and then the event loop sends the replies.
beforeSleep(w, due, late) ==
  /\ run = "up" /\ buf # << >>
  /\ flushAppendOnlyFile(w, due, late)
  /\ acked' = IF run' = "up" /\ state = "on" THEN version ELSE acked
  /\ UNCHANGED <<conf, version, state, fd, gen, seldb, child, rewritebuf, scheduled,
                 inside, orderly, exposed, changes>>

\* serverCron tries again when the flush was postponed or failed.
serverCronFlush(w, due, late) ==
  /\ run = "up" /\ (postponed \/ status = "err")
  /\ flushAppendOnlyFile(w, due, late)
  /\ UNCHANGED <<conf, version, state, fd, gen, seldb, child, rewritebuf, scheduled,
                 acked, inside, orderly, exposed, changes>>

\* The background thread finishes an fsync.
bioProcessBackgroundJobs ==
  /\ run # "down" /\ jobs # << >>
  /\ synced' = IF Head(jobs) = gen THEN Len(file) ELSE synced
  /\ jobs' = Tail(jobs)
  /\ UNCHANGED <<conf, run, version, file, gen, server, history, faults, changes>>

----------------------------------------------------------------------------
(* Rewriting.                                                              *)

Fork_KeepDb(d) ==
  /\ child' = Snap(version, d)
  /\ scheduled' = FALSE
  /\ UNCHANGED seldb

\* rewriteAppendOnlyFileBackground, when fork() succeeds.
Fork(d) ==
  /\ child' = Snap(version, d)
  /\ seldb' = -1
  /\ scheduled' = FALSE

\* bgrewriteaofCommand, and serverCron when the file has grown; a fork() that
\* fails changes nothing.
bgrewriteaofCommand(d) ==
  /\ run = "up" /\ child = NoChild /\ changes < MaxChanges
  /\ changes' = changes + 1
  /\ Fork(d)
  /\ UNCHANGED <<conf, run, version, disk, state, fd, size, buf, postponed, status, jobs,
                 rewritebuf, history, faults>>

\* bgrewriteaofCommand while an RDB child is running.
ScheduleRewrite ==
  /\ run = "up" /\ child = NoChild /\ ~scheduled /\ changes < MaxChanges
  /\ scheduled' = TRUE
  /\ changes' = changes + 1
  /\ UNCHANGED <<conf, run, version, disk, state, fd, size, buf, seldb, postponed, status, jobs,
                 child, rewritebuf, history, faults>>

\* serverCron starts a scheduled rewrite.
ScheduledRewrite(d) ==
  /\ run = "up" /\ child = NoChild /\ scheduled
  /\ Fork(d)
  /\ UNCHANGED <<conf, run, version, disk, state, fd, size, buf, postponed, status, jobs,
                 rewritebuf, history, faults, changes>>

Cleanup_NoRetry(newstate) ==
  /\ rewritebuf' = << >>
  /\ child' = NoChild
  /\ UNCHANGED scheduled

\* The label cleanup of backgroundRewriteDoneHandler.
Cleanup(newstate) ==
  /\ rewritebuf' = << >>
  /\ child' = NoChild
  /\ scheduled' = (scheduled \/ newstate = "wait")

\* The child failed, or its file cannot be completed or renamed.
RewriteFails ==
  /\ run = "up" /\ child # NoChild /\ faults < MaxFaults
  /\ Cleanup(state)
  /\ faults' = faults + 1
  /\ UNCHANGED <<conf, run, version, disk, state, fd, size, buf, seldb, postponed, status, jobs,
                 history, changes>>

\* backgroundRewriteDoneHandler up to rename(2): the differences are written to
\* the child's file, of which the child has synced its part.
RewriteRename ==
  /\ run = "up" /\ child # NoChild
  /\ file' = Halves(<<child>>) \o rewritebuf
  /\ synced' = 2
  /\ gen' = gen + 1
  /\ run' = "switching"
  /\ UNCHANGED <<conf, version, server, jobs, history, faults, changes>>

aofUpdateCurrentSize == size' = Len(file)

\* With the file disabled there is no descriptor to replace.  Otherwise the new
\* one replaces the old, which the background thread closes.
ReplaceDescriptor ==
  IF fd = "none" THEN UNCHANGED <<fd, synced, jobs, seldb, size, buf>>
  ELSE /\ fd' = "live"
       /\ synced' = IF conf.fsync = "always" THEN Len(file) ELSE synced
       /\ jobs' = IF conf.fsync = "everysec" THEN Append(jobs, gen) ELSE jobs
       /\ seldb' = -1
       /\ aofUpdateCurrentSize
       /\ buf' = << >>

\* The rest of the handler.  The replies to the commands that were in the
\* buffer are sent when it returns.
RewriteSwitch ==
  /\ run = "switching" /\ run' = "up"
  /\ ReplaceDescriptor
  /\ state' = IF state = "wait" THEN "on" ELSE state
  /\ Cleanup(state')
  /\ acked' = IF state' = "on" THEN version ELSE acked
  /\ UNCHANGED <<conf, version, file, gen, postponed, status, inside, orderly, stray, exposed,
                 faults, changes>>

----------------------------------------------------------------------------
(* Turning the file on and off.                                            *)

\* stopAppendOnly: flush whatever the background thread does, fsync, close, and
\* kill the rewriting child.  Jobs for the closed descriptor sync nothing.
stopAppendOnly(w) ==
  /\ run = "up" /\ state # "off" /\ changes < MaxChanges
  /\ changes' = changes + 1
  /\ w \in WriteOutcomes
  /\ IF buf = << >> THEN UNCHANGED <<run, file, size, buf, postponed, status, stray, faults>>
                     ELSE WriteBuffer(w)
  /\ IF run' = "down"
     THEN UNCHANGED <<state, fd, synced, seldb, jobs, child, rewritebuf, acked>>
     ELSE /\ state' = "off" /\ fd' = "none"
          /\ synced' = Len(file')
          /\ seldb' = -1
          /\ jobs' = [i \in DOMAIN jobs |-> -1]
          /\ child' = NoChild /\ rewritebuf' = << >>
          /\ acked' = 0
  /\ UNCHANGED <<conf, version, gen, scheduled, inside, orderly, exposed>>

\* startAppendOnly: the file cannot be opened; or no rewrite can be started,
\* and the descriptor is closed but server.aof_fd keeps it; or the file is on
\* as soon as the rewrite has ended.
startAppendOnly(opens, forks, d) ==
  /\ run = "up" /\ state = "off" /\ changes < MaxChanges
  /\ (opens /\ forks) \/ faults < MaxFaults
  /\ changes' = changes + 1
  /\ faults' = IF opens /\ forks THEN faults ELSE faults + 1
  /\ fd' = CASE ~opens -> "none"
             [] child # NoChild \/ ~forks -> "stale"
             [] OTHER -> "live"
  /\ IF opens /\ forks /\ child = NoChild
     THEN Fork(d) /\ state' = "wait"
     ELSE UNCHANGED <<child, seldb, scheduled, state>>
  /\ UNCHANGED <<conf, run, version, disk, size, buf, postponed, status, jobs, rewritebuf,
                 history>>

----------------------------------------------------------------------------
(* Stopping and starting the server.                                       *)

\* prepareForShutdown with the file on.  It kills the children, whose end is
\* handled later if the final RDB cannot be saved and the server goes on.
prepareForShutdown(saved) ==
  /\ run = "up" /\ state # "off"
  /\ ~(child # NoChild /\ state = "wait")
  /\ saved \/ faults < MaxFaults
  /\ synced' = Len(file)
  /\ run' = IF saved THEN "down" ELSE "up"
  /\ orderly' = saved
  /\ faults' = IF saved THEN faults ELSE faults + 1
  /\ UNCHANGED <<conf, version, file, gen, server, jobs, acked, inside, stray, exposed, changes>>

\* The process dies; the kernel still has what it wrote.
Crash ==
  /\ run # "down" /\ faults < MaxFaults
  /\ run' = "down"
  /\ exposed' = IF run = "switching" THEN TRUE ELSE exposed
  /\ faults' = faults + 1
  /\ UNCHANGED <<conf, version, disk, server, jobs, acked, inside, orderly, stray, changes>>

\* The machine stops: any part of the file that was not synced may be lost.
PowerFailure(n) ==
  /\ run # "down" /\ faults < MaxFaults
  /\ n \in synced..Len(file)
  /\ run' = "down"
  /\ file' = SubSeq(file, 1, n)
  /\ synced' = n
  /\ exposed' = IF run = "switching" THEN TRUE ELSE exposed
  /\ faults' = faults + 1
  /\ UNCHANGED <<conf, version, gen, server, jobs, acked, inside, orderly, stray, changes>>

\* The server starts again with the AOF on and loads it (initServer,
\* loadAppendOnlyFile); when the load fails it exits again.
loadAppendOnlyFile ==
  /\ run = "down" /\ state # "off"
  /\ LET s == Loaded(file)
     IN /\ Loads(s)
        /\ version' = s.data
        /\ file' = SubSeq(file, 1, s.valid)
        /\ size' = s.valid
        /\ synced' = IF s.valid < synced THEN s.valid ELSE synced
        /\ acked' = IF s.data < acked THEN s.data ELSE acked
  /\ run' = "up" /\ state' = "on" /\ fd' = "live"
  /\ buf' = << >> /\ seldb' = -1 /\ postponed' = FALSE /\ status' = "ok"
  /\ jobs' = << >> /\ child' = NoChild /\ rewritebuf' = << >> /\ scheduled' = FALSE
  /\ orderly' = FALSE
  /\ UNCHANGED <<conf, gen, inside, stray, exposed, faults, changes>>

----------------------------------------------------------------------------

Flush(A(_, _, _)) == \E w \in WriteOutcomes, due, late \in BOOLEAN : A(w, due, late)

Next ==
  \/ \E d \in Dbs : Write(d) \/ Transaction(d)
  \/ Flush(beforeSleep) \/ Flush(serverCronFlush)
  \/ bioProcessBackgroundJobs
  \/ \E d \in Dbs : bgrewriteaofCommand(d) \/ ScheduledRewrite(d)
  \/ ScheduleRewrite \/ RewriteFails \/ RewriteRename \/ RewriteSwitch
  \/ \E w \in WriteOutcomes : stopAppendOnly(w)
  \/ \E opens, forks \in BOOLEAN, d \in Dbs : startAppendOnly(opens, forks, d)
  \/ \E saved \in BOOLEAN : prepareForShutdown(saved)
  \/ Crash
  \/ \E n \in 0..Len(file) : PowerFailure(n)
  \/ loadAppendOnlyFile

Spec == Init /\ [][Next]_vars

----------------------------------------------------------------------------

\* While the file is on, the file and the buffer together reproduce the
\* dataset, every command in its database (feedAppendOnlyFile's SELECT), through
\* short writes, postponed flushes, rewrites and restarts.  And whatever a crash
\* leaves of the file is a dataset the server had: at the worst the load stops
\* at an incomplete command (loadAppendOnlyFile, uxeof).  The size to which the
\* file is truncated after a short write (aof.c:313) is its size.
\* Not after what stopAppendOnly could not write has gone to the file while it
\* was being turned on again (stray): nothing empties server.aof_buf before the
\* switch of the rewrite (aof.c:165-188), so a crash that comes first leaves a
\* file that repeats commands.
FileAndBuffer ==
  state = "on" /\ ~stray =>
    /\ \A n \in synced..Len(file) :
         LET s == Loaded(SubSeq(file, 1, n)) IN ~s.bad /\ s.data \in 0..version
    /\ run = "up" =>
         LET s == Loaded(file \o buf)
         IN ~s.bad /\ s.half = 0 /\ s.data = version /\ size = Len(file)

\* What the rewritten file would be if the child ended now reproduces the
\* dataset: "it will be safe to merge" (aof.c:1120-1123).  And turning the file on
\* is never forgotten: until it is on, a rewrite that will switch it on is running
\* or scheduled, whatever rewrites failed (aof.c:1310-1312).
RewriteComplete ==
  run = "up" =>
    /\ child # NoChild /\ state # "off" =>
         Loaded(Halves(<<child>>) \o rewritebuf).data = version
    /\ state = "wait" => child # NoChild \/ scheduled

\* With appendfsync always and no-appendfsync-on-rewrite no, no acknowledged write
\* is lost when the process or the machine stops: "the contract with the user that
\* on acknowledged write data is synced on disk" (aof.c:330-333).  There is one
\* moment where it may be, which the property leaves out (exposed): between the
\* rename(2) that replaces the file by the rewritten one and the fsync of that
\* file (aof.c:1248-1267), what was synced in the old file is only in the page
\* cache in the new one.
AckedDurable ==
  [][run = "down" /\ run' = "up" /\ conf.fsync = "always" /\ ~conf.lazy /\ ~exposed
       => version' >= acked]_vars

\* With aof-load-truncated off a server that starts has no part of a
\* transaction (loadAppendOnlyFile: "If the client is in the middle of a
\* MULTI/EXEC, log error and quit"), but for the files FileAndBuffer leaves out.
TransactionsWhole == run = "up" /\ ~conf.truncated /\ ~stray => version \notin inside

\* redis.c:1161-1164, on AOF write errors: "in this case we have a buffer to flush
\* as well and clear the AOF error in case of success".
ErrorHasBuffer == run = "up" /\ status = "err" => buf # << >>

\* SHUTDOWN with the file on loses no acknowledged write: redis.c:2206-2207,
\* "the AOF we already have may be longer but contains the full dataset anyway".
ShutdownKeepsData ==
  [][run = "down" /\ orderly /\ run' = "up" => version' >= acked]_vars
=============================================================================
