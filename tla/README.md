# TLA+ models and proofs for the annotated Redis 2.8 tree

These modules model the server, Sentinel and the data structures under `src/`, as far as their
correctness depends on orders of events, on bounds and on representations. TLC checks them on small
instances. TLAPS proves the most important properties of four of them for every value of the constants.

## The system

A Redis server is one thread. Its event loop (`event/ae.c`) reads requests (`net/networking.c`), runs
each command to its end (`main/redis.c`), and sends the replies. A command changes the keyspace
(`data/db.c`) and the values in it (`struct/`). `call()` then propagates the change to the append only
file (`data/aof.c`) and to the slaves (`data/replication.c`). The server forks children that write a dump
(`data/rdb.c`) or a new append only file, and one background thread calls `fsync` (`wrapper/bio.c`). A
slave connects to its master, gets a dump and then the stream of commands; after a broken link it tries
to continue from its offset. Sentinels (`others/sentinel.c`) watch masters and slaves, agree on who is
to fail over a master, and spread the new configuration.

So there are three kinds of concurrency. Clients interleave between commands. Children, the fsync
thread, sockets and slaves interleave with the main thread. Sentinels ask each other for votes, and
requests and votes may be late, repeated or lost; a hello carries what its sender publishes when it is read. In the models an action is what the main thread does without returning to the
event loop, or one step of one of the others; a loop whose intermediate states matter is one step per
iteration (`ReplBacklog`, `Lzf`, `EXEC` in `Multi`).

## Modules

An action or operator has the name of the C function it models where there is one. `PROJECT.json`
gives the lines for each.

| module | models | state |
| --- | --- | --- |
| `Keyspace` | generic commands of `db.c` as functions from a keyspace to its effect | none |
| `Multi` | `processCommand`, `call`, `propagate`; MULTI, EXEC, WATCH; expiry and eviction | keyspace, flags and queues of clients, both sides of WATCH, what the stream makes of a slave |
| `ReplBacklog` | the circular backlog, loop by loop | buffer, index, histlen, offset, the whole stream as history |
| `Replication` | PSYNC, SYNC, saves on disk and to sockets, link failures | version of the dataset, offset, backlog, the child, one record for each connection and each slave |
| `Aof` | buffer, flush, fsync policies, rewrite, turning on and off, SHUTDOWN, crash, load | file as halves of commands, how much is synced, buffers, child, jobs of the fsync thread |
| `SentinelVote` | epochs, votes, election, hellos, restarts | a record for each Sentinel with what its file holds, requests and votes sent |
| `SentinelFailover` | the failover state machine of one Sentinel and the instances it commands | the Sentinel's tables, the instances, SLAVEOFs on the way |
| `SentinelLinks`, `SentinelScripts`, `SentinelConfig` | links and pings; the queue of scripts; SENTINEL commands and the file | as the C structures |
| `Ziplist`, `Dict`, `Skiplist`, `Adlist` | `ziplist.c`, `dict.c`, the skip list of `t_zset.c`, `adlist.c` | the structure, with header fields kept by the code's arithmetic |
| `Zset`, `Sets`, `Hash`, `Lists` | the types over their two encodings, with conversions | the object; the last command for the properties |
| `ZsetSpec`, `SetsSpec`, `HashSpec`, `ListSpec` | what those types promise | a map, a set, a sequence |
| `HyperLogLog`, `Bitops`, `Strings`, `Numbers` | registers and their two encodings; bit operations; string objects with reference counts; conversions of integers | keys and their objects |
| `BlockingOps`, `Protocol`, `Reply`, `Ae`, `PubSub` | BLPOP and the like; request parser; output buffers; event loop; subscriptions and keyspace events | as the C structures |
| `Lzf`, `Rdb` | the compressor step by step; the dump file and `rdbSave()` | input and output; files and keys |

`MCMulti` and `MCReplication` are instances of one module. `MCAof`, `MCSentinel`, `MCData`, `MCServer` and
`MCLiveness` hold several parts that do not interact in the properties checked: the variable `part` says
which one a behaviour is about, and the others stay in their initial state. `MultiProofs`,
`ReplBacklogProofs`, `AofProofs`, and `SentinelLemmas` with `SentinelProofs` hold the proofs.

Operators with a name like `FeedFor_Everyone` are an operator of the code with a plausible mistake in it.
No specification uses them; replacing `FeedFor` by one shows that a property notices the mistake.

### Abstractions

* In `Replication` and `Aof` the dataset is its version, the number of write commands executed. A command
  in the stream says which version it makes and in which database it has to be run. A slave or a load
  that runs it with another database selected, twice, or after a gap has the value of an error
  (`Skipped`, `Repeated`, `Misplaced` in `Replication`, `bad` in `Aof`), and keeps it. `Multi` has the real values and commands.
* Times are choices ("has the period elapsed"), except in `Multi`, `SentinelLinks`, `Ae` and `Reply`,
  which are about time.
* Sizes of encodings (16 bit counts of ziplists, widths of intsets, 4 KB chunks) are constants, so that
  small values reach every limit.
* Undefined contents are choices: the table of `Lzf` is not initialized in the code and holds anything.

History variables do not influence the system: `stream` in `Replication` (the items of the stream and the
dataset after each), `early` in its connections (how many items were in the buffer when the save for the slave started),
`exact` and `resumed` in its slaves; `acked`, `inside`, `orderly`, `stray` and `exposed` in `Aof`; `elected`, `clean` and `mixed`
in `SentinelVote`; `twice` in `SentinelFailover`; `seen` in `Multi`; `lost` and `torn` in `Ziplist`; `unchecked` in `Hash`;
`astride`, `since` and `seen` in `Dict`; `ahead` in the timers of `Ae`; `want` and `over` in `Reply`; `saved` in `Rdb`.

## What the runs check

| run | shows |
| --- | --- |
| `multi_watch` | WATCH: the index by key and the lists of the clients agree (`WatchIndexAgrees`); as long as EXEC would run, every watched key has the value it had, or expired or was evicted (`CasSound`) |
| `repl` | an exact slave has at every offset the dataset the master had there (`ExactSlavesFollow`); after a full resynchronisation commands are applied once, in order, in their database (`FullSyncSound`); what a slave has read and what is on its way add up to the master's offset (`NothingLost`) |
| `aof` | file and buffer reproduce the dataset, and every crash leaves a file that loads (`FileAndBuffer`); so does the file of a rewrite (`RewriteComplete`); no part of a transaction comes up (`TransactionsWhole`); `appendfsync always` loses nothing acknowledged (`AckedDurable`). Its other part is the stream to the slaves: it makes the slave's dataset the master's (`SlaveAgrees`), and no slave shows a part of a transaction (`SlaveSeesWholeExec`) |
| `sentinel` | clean elections have one winner for an epoch (`CleanLeader`), equal configuration epochs mean equal addresses (`ConfigAgreement`), and the failover, links, scripts and configuration of one Sentinel |
| `liveness` | once faults stop every slave gets connected, stays so and has read all that was sent to it (`SlavesCatchUp`), failovers end (`FailoverEnds`), slaves come to replicate from the master (`EventuallyConfigured`) |
| `data` | the backlog, ziplist, dict, skip list, the types in both encodings, HyperLogLog, bit operations; the types implement `ZsetSpec`, `SetsSpec`, `HashSpec` and `ListSpec` (`TypesImplement`) |
| `server` | blocking operations, parser, replies, event loop, subscriptions, string objects, compressor, dump file with crashes at every point |

Five runs end in a violation, of something a comment in the code says:

* `multi_move` (`MovesNoticed`, `db.c:737`): MOVE does not call `signalModifiedKey`, so that a transaction runs
  although a key it watched was moved away, or to where it watched.
* `repl_offset` (`ResumesExactly`, `replication.c:426`): the offset sent with +FULLRESYNC is read before it
  is known which save serves the slave, and its later PSYNC can skip or repeat commands.
* `aof_shutdown` (`ShutdownKeepsData`, `redis.c:2221`): SHUTDOWN does not write the buffer of a flush that
  was postponed behind a background fsync.
* `sentinel_leader` (`OneLeaderPerEpoch`, `sentinel.c:3249`): votes of a newer epoch are counted for the
  election of an older one.
* `sentinel_down` (`AnyDownInTime`, `sentinel.c:2367`): an instance that stops answering when INFO is due is
  never sent a PING and never taken for down.

The passing properties exclude these cases, and others like them, by history:

* `CasSound`: watched keys that MOVE changed (the value `Moved` in `seen`).
* `ExactSlavesFollow`, `NothingLost`: `exact`, slaves whose announced offset was that of their RDB.
* `CleanLeader`, `ConfigAgreement`: `clean` and `Contested` (elections counted in their own epoch), and `mixed` (a
  Sentinel that was reconfiguring slaves took over an epoch without its address, `sentinel.c:2166`).
* `PromotedSlave`: `twice`, a restart with a file that names the promoted slave as master and as slave
  (`sentinel.c:1547`). `FailoverEnds`: a promoted slave that is down (`sentinel.c:3616`).
* `FileAndBuffer`, `TransactionsWhole`: `stray` (what `stopAppendOnly` could not write went to a file that was being
  turned on, `aof.c:167`). `TransactionsWhole` is about `aof-load-truncated no`.
* `AckedDurable`: `exposed`, a stop between the rename and the fsync at the end of a rewrite (`aof.c:1248`).
* `ScanComplete` in `DictRight`: `astride`, a cursor that a larger table left, used while there are two tables.
* `HashEncodingRight` in `EncodingsRight`: `unchecked`, the fields HINCRBY and HINCRBYFLOAT added (`t_hash.c:519`).
* `NoTimerStranded` in `LoopRight`: `ahead`, timers set by a clock that jumped ahead inside a pass and back unseen.
* `ParsedAsWhole`: lines that are too long, and the byte after a line that ends in LF alone (`networking.c:906`), for
  which both readings are allowed.
* `NobodyWaitsInVain` in `ServedRight`: keys that SORT ... STORE turned into lists. `PendingExact` in `LinksRight` is about
  Sentinels, which have one link. `SavedIsLoaded` in `ConfigurationKept`: a quorum of zero given to SENTINEL MONITOR.

Or by the constants of the run: `server.dirty` stays below `IntHalf`, past which FLUSHALL would not be propagated
(`db.c:267`); SAVE is none of the commands (`multi.c:172`); a client of `BlockingOps` sends one command between two
passes (`t_list.c:842`); and in `repl` the fork for which slaves are queued does not fail (`"queued"` in `ForkFails`):
`updateSlavesWaitingBgsave` would leave them in a state in which they collect commands for no save
(`replication.c:798`), and `FullSyncSound` does not hold.

Some modules state more than a run checks, properties that do not hold. Most are what a comment says:
`ScanReturnsAll` (Dict, `dict.c:961`), `UnblockedAlive` (BlockingOps, `networking.c:705`), `SoftLimitContinuous` (Reply,
`networking.c:1572`), `SleepDelaysNothing` (Ae, `ae.c:245`), `ErrorHasBuffer` (Aof, `redis.c:1161`), `ExecPropagated`
(Multi, with SAVE, `multi.c:170`), `LimitIsReal` (SentinelScripts, `sentinel.c:676`). No comment promises `ValuesKept` (Ziplist,
`ziplist.c:1080`) and `ValuesShort` (Hash).

### Bounds

Bounds are constants with names that start with Max, or the sizes of sets. They are chosen so that every
action happens and each of the mistakes above is found.

* `multi_watch`: two clients, two keys, a queue of one; two clients are enough for one to watch while the
  other changes. `multi_move`: one key in two databases.
* `repl`: two slaves on three connections (a slave can come back while the master has not noticed that
  its old connection is gone), two databases, a backlog of two items (older offsets fall out of it), offset
  up to five, two pings, one broken link, failed save or BGSAVE.
* `aof`: two versions, two databases, two faults, two rewrites or switches; not every combination of options
  (`MCInit` of `MCAof`). The stream: one client, one key in two databases, queue of two, so that a transaction has a first
  and a last command.
* `liveness`: two slaves and saves on disk, or one slave, more writes and saves of both kinds; a master with one slave.
* `sentinel`: three Sentinels with a majority of two, two epochs, one restart; a master with two slaves.
* `data`, `server`: limits between 1 and 8, so that structures grow past them, are converted, wrap and shrink.

Symmetry is used where a set of model values is used only as a set (clients, slaves, two of the
Sentinels). No liveness run uses it. The views of `MCData` and `MCServer` leave out variables that no guard
reads and no invariant mentions, and the variables of the parts a behaviour is not about. In `MCServer`,
`all = all` makes TLC evaluate every variable of a state (it is always true), and `Renamed` stands for the
state of the blocking operations up to the names of the clients, which are interchangeable there.

### Fairness

Only `liveness` assumes any. The event loop serves every ready descriptor in each iteration and calls the
cron from a time event, so each handler of the master, of each slave and of the Sentinel that stays
enabled is taken: weak fairness for each of them. Writes, pings, failures, timeouts, BGSAVE by a user and
configuration changes are not fair. With two slaves the run uses saves on disk: with saves to sockets they can turn
each other away for ever, because the child that streams to one serves no other (`replication.c:751`), and
no fairness of the event loops excludes that.

## What is proved

The theorems hold for every value of the constants that satisfies the named assumptions of the modules:
any number of clients, keys, commands, slaves, connections, Sentinels, epochs, faults and restarts, and any
sizes. The assumptions say that sets are sets of numbers, that the value for "none" is not a member, and
that sets of Sentinels, keys and databases are finite.

**`MultiProofs`**: `TypeCorrect`; `WatchConsistent` (`WatchIndexAgrees`, and no client keeps a
REDIS_DIRTY_CAS without watched keys); `OptimisticLocking` (`CasSound`). The inductive invariant is the conjunction:
`CasSound` needs the index, because a command reaches the watchers of a key through `db->watched_keys` and a
flush through the lists of the clients.

**`ReplBacklogProofs`**: `BacklogTypeCorrect`, `PsyncReplyExact`, `PsyncNeverSkips`, `PsyncCorrect`. The
invariant follows the loops: after every iteration the byte k places behind the write index is the byte k
places before the end of what has been written, modulo the size.

**`AofProofs`**: `FileReproducesData`, `RewriteReproducesData`, `NoPartOfTransaction`, and `AlwaysDurable`
(`AckedDurable`). What a load finds in a
file is a function defined by recursion over the file. Lemmas proved by induction say that loading a file
half by half is loading its beginning and going on, so that every action is about what it appends. The
invariant says of the file, the buffer, the rewrite buffer and the file of the child what a load of their
concatenation gives; `Durable` adds that what was acknowledged is in the synced part.

**`SentinelLemmas`, `SentinelProofs`**: `VotingInvariant`, `VotingTypeCorrect`, `CleanElections`,
`ConfigurationsAgree`, `VotesAreFinal`. The invariant relates every vote ever sent to what its Sentinel has in
memory and in its file (a vote is flushed before it is told), every clean election to a majority of such
votes, and every configuration epoch in circulation to the one election that made it. Two majorities meet
(finite cardinalities), a Sentinel has one vote for an epoch, hence one winner.

### Only model-checked

* Liveness (`liveness`): TLAPS 1.4.5 has no rules for ENABLED and fairness.
* `ExactSlavesFollow`, `FullSyncSound` and `NothingLost`.
* `SlaveAgrees` and `SlaveSeesWholeExec`: the slave runs the same command functions as the master on a
  dataset that lags behind inside EXEC, so an invariant would relate two runs of every command.
* The data structures, the types with their refinements, and the parts in `server`. Their properties compare
  a representation with its meaning through recursive functions (`Protocol` and `Reply` use RECURSIVE
  operators, which take the SMT backend from tlapm). The limits of the representations are small constants in
  the runs, so every case of the code is met there.
* `PromotedSlave`, `LinksRight`, `ScriptsTracked`, `ConfigurationKept` and `NoFalseDown`: the parts of one Sentinel,
  whose state is finite but for counters; the run reaches all of it.
* `MovesNoticed`, `OneLeaderPerEpoch`, `ResumesExactly`, `ShutdownKeepsData` and `AnyDownInTime` do not hold.

## What is not modelled

Programs around the server (client, benchmark, file checkers, memory test), the poll backends and system
call wrappers (their outcomes are choices), allocation, logging, latency and slow log, Lua, MIGRATE, SORT's
order, CONFIG parsing. In the parts that are modelled: in replication chained slaves, SLAVEOF at run time,
restarts of the master, the script cache and min-slaves; in the append only file the translation of single
commands, CONFIG SET appendfsync and the child of BGSAVE, which `no-appendfsync-on-rewrite` also heeds; in Sentinel
hellos that arrive late (a promotion by another Sentinel is seen with its hello, in one step of `SentinelFailover`); INCRBYFLOAT, MGET and STRLEN; the floating point estimate and the header checks of HyperLogLogs;
zipmaps and expires in seconds in dumps. `PROJECT.json` lists every part with its status, and every hazard
with the properties that cover it. Two hazards have no property that a run checks:
SAVE inside a transaction resets `server.dirty` and can suppress the EXEC of a propagated MULTI
(`multi.c:172`; `ExecPropagated` of `Multi` does not hold with SAVE), and a rewrite that ends after a failed write
leaves the error set with nothing to retry (`aof.c:1276`; `ErrorHasBuffer` of `Aof`).
