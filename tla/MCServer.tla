------------------------------ MODULE MCServer ------------------------------
(***************************************************************************)
(* The parts of a server that are not the data structures, checked one     *)
(* after another in a single run: a behaviour is one of the part that the  *)
(* variable `part' names.  Ae is instantiated twice, for file events and   *)
(* for time events.  MCView leaves out what no guard reads (what the last  *)
(* command did) and the names of string objects and of blocked clients.    *)
(***************************************************************************)
EXTENDS Integers, Sequences, FiniteSets, TLC

CONSTANTS
  Waiters,               \* the clients of the blocking operations
  Absent                 \* no client, no object, no value

VARIABLES
  part,
  ks, blocking, bcl, unblocked, cur, bphase, bfired, bcall,          \* BlockingOps
  stream, nread, c, done,                                            \* Protocol
  obj, rcl, wire, want, rnow, over,                                  \* Reply
  events, maxfd, setsize, fired, timers, nextId, lastTime, at, clock, last,   \* Ae
  chans, pats, mine, notify, pout,                                   \* PubSub
  st, lru, pending, scall,                                           \* Strings
  in, ip, out, lit, phase,                                           \* Lzf
  db, cfg, now, up, disk, tmp, saved, saves, restored                \* Rdb

-----------------------------------------------------------------------------

BlockOp(keys, target, head) == [keys |-> keys, target |-> target, head |-> head]

B == INSTANCE BlockingOps WITH
  cl <- bcl, phase <- bphase, fired <- bfired, call <- bcall, Clients <- Waiters,
  Keys <- {"a", "b"}, Values <- {1, 2}, NoClient <- Absent, NoKey <- "nokey", MaxLen <- 1, MaxCmds <- 1,
  Blocks <- {BlockOp(<<"a", "b">>, "nokey", TRUE), BlockOp(<<"b">>, "nokey", FALSE), BlockOp(<<"a">>, "b", FALSE)}

\* A blocking command and one with an argument of CR LF, then a line; a large argument,
\* nothing, an empty argument; a line that blocks, QUIT as an argument; errors in each
\* kind of length; QUIT; lines with strings, escapes and an empty argument, with quotes that
\* are not balanced and with a string that goes on; a line that ends in LF alone and a
\* request after it; a line that is too long.
MCStreams == {
  <<"*","2","r","n","$","1","r","n","b","r","n","$","2","r","n","r","n","r","n","x","_","y","r","n">>,
  <<"*","1","r","n","$","3","r","n","x","x","x","r","n","*","0","r","n","*","1","r","n","$","0","r","n","r","n","r","n">>,
  <<"b","r","n","*","2","r","n","$","2","r","n","x","x","r","n","$","1","r","n","q","r","n","r","n","x","r","n">>,
  <<"*","1","r","n","$","-","1","r","n","x","r","n">>,
  <<"*","x","r","n">>,
  <<"*","2","r","n","$","1","r","n","x","r","n","x","1","r","n">>,
  <<"*","1","r","n","$","1","r","n","q","r","n","x","r","n">>,
  <<"\"","_","\\","\"","\"","_","'","\\","'","\\","x","'","_","'","'","r","n","y","\"","x","\"","r","n">>,
  <<"x","r","n","'","x","\"","r","n">>,
  <<"\"","x","\"","y","r","n","x","r","n">>,
  <<"x","n","*","1","r","n","$","1","r","n","y","r","n">>,
  [i \in 1..28 |-> IF i = 28 THEN "n" ELSE "x"] }

Q == INSTANCE Protocol WITH
  Streams <- MCStreams, BigArg <- 2, InlineMax <- 24, IoBuf <- 9, MaxQuery <- 27

R == INSTANCE Reply WITH
  cl <- rcl, now <- rnow, Normal <- "n", Slaves <- {"s1", "s2"}, Feeding <- "s1",
  Values <- <<<<1>>, <<2, 2, 2>>, <<>>>>, Buf <- 2, Chunk <- 3, MaxWrite <- 3, Item <- 1, Header <- 1,
  Hard <- 11, Soft <- 7, Secs <- 0, MaxObj <- 6, MaxBytes <- 5, MaxTime <- 2

\* Two descriptors that connections share, with room for one, for both or for more, and
\* a clock that stands still; one descriptor, and a clock that moves.
F == INSTANCE Ae WITH
  Fds <- {0, 1}, Conns <- {"c1", "c2"}, NoConn <- "none", PerSec <- 2, MaxClock <- 0,
  MaxTimers <- 1, SetSizes <- {1, 2, 3}
T == INSTANCE Ae WITH
  Fds <- {0}, Conns <- {"c1"}, NoConn <- "none", PerSec <- 2, MaxClock <- 3,
  MaxTimers <- 2, SetSizes <- {1}

S == INSTANCE PubSub WITH
  out <- pout, Clients <- {"c1", "c2"}, Channels <- {"k", "e"}, Patterns <- {"p", "q"},
  Match <- {<<"p", "k">>, <<"p", "e">>, <<"q", "k">>}, KeyChannel <- "k", EventChannel <- "e"

G == INSTANCE Strings WITH
  call <- scall, Keys <- {"a", "b"}, NoObj <- Absent, Ids <- 1..6, Args <- [k \in {"a", "b"} |-> IF k = "a" THEN {<<49>>, <<65>>} ELSE {<<49>>}],
  Pairs <- {<<<<49>>, <<65>>>>}, Increments <- {-2, -4}, Offsets <- {1}, IntMax <- 3,
  SharedInts <- 2, MaxLength <- 2, MaxPending <- 1

\* Short inputs of two bytes, and long ones with runs and periods.
MCInputs == UNION {[1..n -> {1, 2}] : n \in {4, 8}} \cup {[i \in 1..n |-> 1] : n \in 5..26}
            \cup {[i \in 1..n |-> i % 3] : n \in 10..26}

Z == INSTANCE Lzf WITH
  Inputs <- MCInputs, Byte <- 8, MaxLit <- 2, LenMax <- 3, MaxRef <- 12, Unroll <- 4

\* "5", "05" and a string that can be compressed.
Five == <<53>>
ZeroFive == <<48, 53>>
Same == <<65, 65, 65, 65, 65>>
K1 == [db |-> 0, name |-> <<107>>]
K2 == [db |-> 1, name |-> Five]
Raw(s) == [enc |-> "raw", s |-> s, n |-> 0]
Num(n) == [enc |-> "int", s |-> <<>>, n |-> n]
NegInf == -1000000
Val(type, enc, items, ex) == [type |-> type, enc |-> enc, items |-> items, ex |-> ex]
\* A value of each type in each encoding, and a number that expires.
MCValues == [k \in {K1, K2} |->
  IF k = K2 THEN {Absent, Val("string", "string", <<Num(-129)>>, 0)}
  ELSE {Absent, Val("string", "string", <<Raw(ZeroFive)>>, -1), Val("string", "string", <<Raw(Same)>>, -1),
        Val("list", "ziplist", <<Five, ZeroFive>>, -1), Val("list", "linkedlist", <<Num(5), Raw(Same)>>, -1),
        Val("set", "intset", <<Five, <<54>>>>, -1), Val("set", "ht", <<Raw(ZeroFive), Num(5)>>, -1),
        Val("zset", "ziplist", <<ZeroFive, 1, Five, 2>>, -1), Val("zset", "skiplist", <<Raw(ZeroFive), NegInf, Num(5), -3>>, -1),
        Val("hash", "ziplist", <<ZeroFive, Five, Five, Five>>, -1), Val("hash", "ht", <<Raw(Same), Num(5)>>, -1)}]
MCFewValues == [k \in {K1, K2} |->
  IF k = K2 THEN {Absent, Val("string", "string", <<Num(-129)>>, 0)}
  ELSE {Absent, Val("list", "ziplist", <<Five, ZeroFive>>, -1), Val("hash", "ht", <<Raw(Same), Num(5)>>, -1)}]
Config(compression, checksum, slave, entries, value, dbnum) ==
  [compression |-> compression, checksum |-> checksum, slave |-> slave, entries |-> entries, value |-> value, dbnum |-> dbnum]
MCConfigs == {Config(TRUE, TRUE, FALSE, 2, 4, 2), Config(FALSE, FALSE, TRUE, 1, 1, 2)}

\* One save of any values; two of a few, and a restart with fewer databases.
D == INSTANCE Rdb WITH
  Names <- {K1, K2}, Values <- MCValues, Nothing <- Absent, Configs <- MCConfigs,
  RdbVersion <- 6, Lzf <- [s \in {Same} |-> <<9>>], LzfMin <- 4, IntBytes <- <<1, 2, 3>>, IntMax <- 1000000000,
  Lengths <- {0, 63, 64, 16383, 16384, 2147483647}, Scores <- {NegInf, -NegInf, 1 - NegInf} \cup -3..20, MaxNow <- 1, MaxSaves <- 1
D2 == INSTANCE Rdb WITH
  Names <- {K1, K2}, Values <- MCFewValues, Nothing <- Absent, Configs <- MCConfigs \cup {Config(TRUE, TRUE, FALSE, 2, 4, 1)},
  RdbVersion <- 6, Lzf <- [s \in {Same} |-> <<9>>], LzfMin <- 4, IntBytes <- <<1, 2, 3>>, IntMax <- 1000000000,
  Lengths <- {}, Scores <- {}, MaxNow <- 1, MaxSaves <- 2

-----------------------------------------------------------------------------

bvars == <<ks, blocking, bcl, unblocked, cur, bphase, bfired>>
qvars == <<stream, nread, c, done>>
rvars == <<obj, rcl, wire, want, rnow, over>>
avars == <<events, maxfd, setsize, fired, timers, nextId, lastTime, at, clock, last>>
svars == <<chans, pats, mine, notify>>
gvars == <<st, lru, pending>>
zvars == <<in, ip, out, lit, phase>>
dvars == <<db, cfg, now, up, disk, tmp, saved, saves, restored>>
calls == <<bcall, pout, scall>>
all == <<part, bvars, qvars, rvars, avars, svars, gvars, zvars, dvars, calls>>
\* The state of the blocking operations up to the names of clients: all the states that
\* a renaming makes of it.
Renamings == {<<p, q>> \in Permutations(Waiters) \X Permutations(Waiters) : \A x \in Waiters : p[q[x]] = x}
Renamed ==
  {LET p == r[1]
       Seqs(s) == [i \in DOMAIN s |-> p[s[i]]]
   IN <<ks, [k \in DOMAIN blocking |-> Seqs(blocking[k])], [x \in Waiters |-> bcl[r[2][x]]], Seqs(unblocked),
        IF cur = Absent THEN cur ELSE p[cur], bphase, {p[x] : x \in bfired}>> : r \in Renamings}

\* The variables of the part that a behaviour is about: the others do not change.
MCView ==
  <<part, all = all, CASE part = "blocking" -> Renamed
            [] part = "protocol" -> qvars
            [] part = "reply" -> rvars
            [] part \in {"files", "timers"} -> avars
            [] part = "pubsub" -> svars
            [] part = "strings" -> G!Shape
            [] part = "lzf" -> zvars
            [] part \in {"dump", "dumps"} -> dvars>>

Parts == {"blocking", "protocol", "reply", "files", "timers", "pubsub", "strings", "lzf", "dump", "dumps"}

\* The parts that a behaviour is not about start in one state.
MCInit ==
  /\ part \in Parts
  /\ B!Init
  /\ Q!Init /\ (part # "protocol" => Len(stream) = 4)
  /\ R!Init /\ (part # "reply" => rcl["n"].alive)
  /\ IF part = "timers" THEN T!Init ELSE F!Init
  /\ part \notin {"files", "timers"} => setsize = 2
  /\ S!Init /\ (part # "pubsub" => notify.K /\ notify.E)
  /\ G!Init /\ (part # "strings" => lru)
  /\ Z!Init /\ (part # "lzf" => in = <<1, 1, 1, 1>>)
  /\ IF part = "dumps" THEN D2!Init ELSE D!Init
  /\ part \notin {"dump", "dumps"} => cfg.slave

MCNext ==
  /\ UNCHANGED part
  /\ \/ /\ part = "blocking" /\ B!Next
        /\ UNCHANGED <<qvars, rvars, avars, svars, gvars, zvars, dvars, pout, scall>>
     \/ /\ part = "protocol" /\ Q!Next
        /\ UNCHANGED <<bvars, rvars, avars, svars, gvars, zvars, dvars, calls>>
     \/ /\ part = "reply" /\ R!Next
        /\ UNCHANGED <<bvars, qvars, avars, svars, gvars, zvars, dvars, calls>>
     \/ /\ part = "files" /\ F!Next
        /\ UNCHANGED <<bvars, qvars, rvars, svars, gvars, zvars, dvars, calls>>
     \/ /\ part = "timers" /\ T!Next
        /\ UNCHANGED <<bvars, qvars, rvars, svars, gvars, zvars, dvars, calls>>
     \/ /\ part = "pubsub" /\ S!Next
        /\ UNCHANGED <<bvars, qvars, rvars, avars, gvars, zvars, dvars, bcall, scall>>
     \/ /\ part = "strings" /\ G!Next
        /\ UNCHANGED <<bvars, qvars, rvars, avars, svars, zvars, dvars, bcall, pout>>
     \/ /\ part = "lzf" /\ Z!Next
        /\ UNCHANGED <<bvars, qvars, rvars, avars, svars, gvars, dvars, calls>>
     \/ /\ part = "dump" /\ D!Next
        /\ UNCHANGED <<bvars, qvars, rvars, avars, svars, gvars, zvars, calls>>
     \/ /\ part = "dumps" /\ D2!Next
        /\ UNCHANGED <<bvars, qvars, rvars, avars, svars, gvars, zvars, calls>>

MCSpec == MCInit /\ [][MCNext]_all

-----------------------------------------------------------------------------
(* The properties of the parts, as this run checks them.                   *)

\* The two sides of blocking agree (t_list.c): a client is in the queue of a key exactly
\* while it is blocked on it; and no command stays in the input buffer of a client that was
\* unblocked.
BlockedRight == part = "blocking" => B!QueuesAgree /\ B!InputNotForgotten

\* A push serves whom it should (handleClientsBlockedOnLists): nobody stays blocked on a
\* key that got elements, those who wait for a key are served in the order they blocked,
\* and what is propagated for the push and for them has their effect.
ServedRight ==
  [][part = "blocking" => B!NobodyWaitsInVain /\ B!ServedInOrder /\ B!StreamExact]_all

\* However reads cut the bytes, the commands are those of the whole (processInputBuffer),
\* but for the byte after a line that ends in LF alone, which may be lost, and for a line
\* that is too long, which may be refused.
ParsedAsWhole == part = "protocol" => Q!ParsedAsWhole

\* The output of a client (networking.c): what was sent and what waits are the replies, in
\* order; building them changes no value of the keyspace; reply_bytes and the reference
\* counts are those of the objects in the lists; who has output has the write handler.
OutputRight ==
  part = "reply" => R!WireExact /\ R!SharedIntact /\ R!BytesAccounted /\ R!OutputNotForgotten

\* The event loop (ae.c): maxfd is the highest descriptor in use, a handler is called once
\* and only for what it is registered for at that time; the loop sleeps until the nearest
\* timer (less than a second if it is overdue), timers registered in a pass wait for the
\* next, and a clock that is set back leaves none in the far future, unless no pass had
\* noted the time from which it was set back.
LoopRight ==
  /\ part = "files" => F!MaxFdRight /\ F!CalledAsRegistered
  /\ part = "timers" => T!SleepBounded /\ T!NewTimersWait /\ T!NoTimerStranded

\* The subscriptions of the clients and of the server are the same, and the restricted mode
\* lasts exactly as long as a client has some (pubsub.c).
PubSubRight == part = "pubsub" => S!SubscriptionsAgree /\ S!ModeRight

\* String objects (object.c): a reply that waits shows the value as it was whatever APPEND
\* does to the key, reference counts count keys and replies, and no number leaves the range
\* of a long long.
ValuesRight == part = "strings" => G!RepliesIntact /\ G!RefsRight /\ G!NumbersInRange

\* A string command changes the keys it names, as it says, whatever objects are shared; a
\* message reaches each subscriber once by channel and once by each matching pattern.
CommandsRight ==
  [][/\ part = "strings" => G!CommandsRight
     /\ part = "pubsub" => S!DeliveredOnce]_all

\* What is written is read back: what lzf_compress returns, within what rdb.c allocates for
\* it, decompresses to its input; lengths and integers of a dump at the ends of their ranges
\* and scores (no variable is involved: the initial states are enough); a dump that is cut
\* or not of this version is noticed.
DumpsReadBack ==
  /\ part = "lzf" => Z!RoundTrip /\ Z!InsideBuffer
  /\ part = "dump" => D!CutsNoticed /\ ((saves = 0 /\ db = D!NoKeys) => D!NumbersRight)

\* After a crash at any point, of the first save or of one over an older dump, the last
\* complete dump is restored, or the server exits because it has fewer databases; packed
\* values have no more elements than this server's configuration allows (rdbSave, rdbLoad).
RestoredRight ==
  [][/\ part = "dump" => D!RestoredRight /\ D!LimitsKept
     /\ part = "dumps" => D2!RestoredRight /\ D2!LimitsKept]_all
=============================================================================
