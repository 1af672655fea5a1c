--------------------------------- MODULE Ae ---------------------------------
(***************************************************************************)
(* The event loop (event/ae.c): file events by descriptor, found ready by  *)
(* a poll and dispatched one after the other, then time events, by id.  A  *)
(* handler may register and delete events of any kind, so what a poll has  *)
(* found may be gone, or another connection's, when its turn comes.        *)
(*                                                                         *)
(* Time is in seconds and units of which PerSec make a second; the clock   *)
(* moves, and may be set ahead or back, between any two readings of it.    *)
(***************************************************************************)
EXTENDS Integers, Sequences, FiniteSets, FiniteSetsExt, SequencesExt

CONSTANTS
  Fds,         \* 0..n
  Conns,       \* connections: a descriptor is given to one after another
  NoConn,
  PerSec,      \* milliseconds in a second
  MaxClock,    \* bound on the clock
  MaxTimers,   \* bound on the ids of time events
  SetSizes     \* sizes the event loop is given by aeResizeSetSize

VARIABLES
  events,      \* fd -> [mask, r, w, conn]: the handlers are named by what they do
  maxfd,
  setsize,
  fired,       \* what aeApiPoll returned and was not handled yet: [fd, mask]
  timers,      \* timeEventHead: [id, sec, ms], newest first, and `ahead': the second by the
               \* clock when the timer was set, while no pass has noted one as late; else -1
  nextId,
  lastTime,
  at,          \* "main", "files", or "timers" with the place in the list
  clock,       \* gettimeofday
  last         \* what the last step was: [what, ...]

vars == <<events, maxfd, setsize, fired, timers, nextId, lastTime, at, clock, last>>

R == "readable"
W == "writable"
Sec(t) == t \div PerSec
Ms(t) == t % PerSec
When(t) == t.sec * PerSec + t.ms

----------------------------------------------------------------------------
(* File events.                                                            *)

\* aeCreateFileEvent; e is the pair of the table and of maxfd.  It fails for a
\* descriptor the tables have no room for.
aeCreateFileEvent(e, fd, m, proc, conn) ==
  IF fd >= setsize THEN e
  ELSE [tab |-> [e.tab EXCEPT ![fd] = [mask |-> @.mask \cup m, r |-> IF R \in m THEN proc ELSE @.r,
                                       w |-> IF W \in m THEN proc ELSE @.w, conn |-> conn]],
        max |-> IF fd > e.max THEN fd ELSE e.max]

\* aeDeleteFileEvent.
aeDeleteFileEvent(e, fd, m) ==
  LET left == e.tab[fd].mask \ m
      tab == [e.tab EXCEPT ![fd].mask = left]
      used == {f \in Fds : f < fd /\ tab[f].mask # {}}
  IN IF fd >= setsize \/ e.tab[fd].mask = {} THEN e
     ELSE [tab |-> tab,
           max |-> IF fd = e.max /\ left = {} THEN IF used = {} THEN -1 ELSE Max(used) ELSE e.max]

Loop == [tab |-> events, max |-> maxfd]
Set(e) == events' = e.tab /\ maxfd' = e.max

\* What freeClient and acceptTcpHandler do: the events of a connection are deleted
\* before its descriptor is closed; a new connection gets the lowest one.
Close(e, fd) == [aeDeleteFileEvent(aeDeleteFileEvent(e, fd, {R}), fd, {W}) EXCEPT !.tab[fd].conn = NoConn]
Accept(e, conn) ==
  LET free == {f \in Fds : e.tab[f].conn = NoConn}
  IN IF free = {} \/ \E f \in Fds : e.tab[f].conn = conn THEN e
     ELSE aeCreateFileEvent(e, Min(free), {R}, "read", conn)

\* What a handler may do to file events: close a connection, accept one, perhaps in
\* the descriptor that was closed, have a reply written or stop that, or, as the
\* connection to a master, have one handler for both kinds.  A creation that the poll
\* refuses (aeApiAddEvent) changes nothing, and the caller at most closes the
\* connection: both are among these.
Effects(e) ==
  LET open == {f \in Fds : e.tab[f].conn # NoConn}
  IN {e} \cup {Close(e, f) : f \in open} \cup {Accept(e, c) : c \in Conns}
         \cup {Accept(Close(e, f), c) : f \in open, c \in Conns}
         \cup {aeCreateFileEvent(e, f, {W}, "write", e.tab[f].conn) : f \in open}
         \cup {aeCreateFileEvent(e, f, {R, W}, "both", e.tab[f].conn) : f \in open}
         \cup {aeDeleteFileEvent(e, f, {W}) : f \in open}

\* aeResizeSetSize.
aeResizeSetSize(n) ==
  /\ at.what = "main" /\ n # setsize /\ maxfd < n
  /\ setsize' = n
  /\ events' = [f \in Fds |-> IF f > maxfd THEN [events[f] EXCEPT !.mask = {}] ELSE events[f]]
  /\ last' = [what |-> "resize"]
  /\ UNCHANGED <<maxfd, fired, timers, nextId, lastTime, at, clock>>

----------------------------------------------------------------------------
(* Time events.                                                            *)

\* aeAddMillisecondsToNow, as the code adds seconds and milliseconds; now is the clock.
aeAddMillisecondsToNow(now, ms) ==
  LET s == Sec(now) + ms \div PerSec
      m == Ms(now) + (ms % PerSec)
  IN IF m >= PerSec THEN [sec |-> s + 1, ms |-> m - PerSec] ELSE [sec |-> s, ms |-> m]

Ahead(now) == IF Sec(now) > lastTime THEN Sec(now) ELSE -1

aeCreateTimeEvent(ts, now, ms) ==
  LET w == aeAddMillisecondsToNow(now, ms)
  IN <<[id |-> nextId, sec |-> w.sec, ms |-> w.ms, ahead |-> Ahead(now)]>> \o ts

aeDeleteTimeEvent(ts, id) == SelectSeq(ts, LAMBDA t : t.id # id)

Before(s, t) == s.sec < t.sec \/ (s.sec = t.sec /\ s.ms < t.ms)

\* aeSearchNearestTimer, for a list that is not empty.
aeSearchNearestTimer(ts) ==
  LET first == {i \in DOMAIN ts : \A j \in DOMAIN ts : ~Before(ts[j], ts[i])} IN ts[Min(first)]

\* How long aeProcessEvents has the poll wait for timer t.
PollTime(t) ==
  LET borrow == t.ms < Ms(clock)
      usec == IF borrow THEN t.ms + PerSec - Ms(clock) ELSE t.ms - Ms(clock)
      sec == t.sec - Sec(clock) - (IF borrow THEN 1 ELSE 0)
  IN (IF sec < 0 THEN 0 ELSE sec) * PerSec + usec

----------------------------------------------------------------------------
(* An iteration.                                                           *)

\* aeApiPoll: it returns some of what is registered (external: which of it is ready),
\* an error or a hangup as writable even if only reads are, or nothing after the time
\* it was given has passed.
aeProcessEvents ==
  LET found == SetToSeq({f \in Fds : events[f].mask # {}})
      time == IF timers = <<>> THEN MaxClock ELSE PollTime(aeSearchNearestTimer(timers))
  IN /\ at.what = "main"
     /\ \/ \E ms \in [ToSet(found) -> SUBSET {R, W}] :
             LET ready == SelectSeq(found, LAMBDA f : ms[f] # {})
             IN /\ ready # <<>> /\ \A f \in ToSet(found) : R \in ms[f] => R \in events[f].mask
                /\ fired' = [i \in DOMAIN ready |->
                              [fd |-> ready[i], mask |-> ms[ready[i]], rfired |-> FALSE]]
                /\ UNCHANGED clock
        \/ fired' = <<>> /\ timers # <<>> /\ clock + time <= MaxClock /\ clock' = clock + time
     /\ at' = [what |-> "files"]
     /\ last' = IF timers = <<>> THEN [what |-> "block"]
                ELSE [what |-> "poll", time |-> time, until |-> When(aeSearchNearestTimer(timers)), clock |-> clock]
     /\ UNCHANGED <<events, maxfd, setsize, timers, nextId, lastTime>>

StillValid_AsFired(f, m) == m \in f.mask

\* fe->mask & mask & m.
StillValid(f, m) == m \in f.mask /\ m \in events[f.fd].mask

\* The next handler of the first event that fired: readable, then writable unless
\* it is the one that was called already.
Dispatch ==
  LET f == Head(fired)
      m == IF ~f.rfired /\ StillValid(f, R) THEN R ELSE W
  IN /\ at.what = "files" /\ fired # <<>>
     /\ IF \/ ~f.rfired /\ StillValid(f, R)
           \/ StillValid(f, W) /\ (~f.rfired \/ events[f.fd].w # events[f.fd].r)
        THEN /\ \E e \in Effects(Loop) : Set(e)
             /\ fired' = (IF m = R THEN <<[f EXCEPT !.rfired = TRUE]>> ELSE <<>>) \o Tail(fired)
             /\ last' = [what |-> "call", m |-> m, on |-> events[f.fd].mask, again |-> m = W /\ f.rfired,
                         proc |-> IF m = R THEN events[f.fd].r ELSE events[f.fd].w]
        ELSE /\ fired' = Tail(fired) /\ last' = [what |-> "skip"]
             /\ UNCHANGED <<events, maxfd>>
     /\ UNCHANGED <<setsize, timers, nextId, lastTime, at, clock>>

processTimeEvents_NoSkew ==
  /\ at.what = "files" /\ fired = <<>>
  /\ timers' = [i \in DOMAIN timers |-> IF Sec(clock) >= timers[i].ahead THEN [timers[i] EXCEPT !.ahead = -1] ELSE timers[i]]
  /\ lastTime' = Sec(clock)
  /\ at' = [what |-> "timers", i |-> 1, maxId |-> nextId - 1]
  /\ last' = [what |-> "time"]
  /\ UNCHANGED <<events, maxfd, setsize, fired, nextId, clock>>

\* processTimeEvents begins: if the clock is behind the last pass's all are due.
processTimeEvents ==
  /\ at.what = "files" /\ fired = <<>>
  /\ timers' = [i \in DOMAIN timers |->
                 IF Sec(clock) < lastTime THEN [timers[i] EXCEPT !.sec = 0, !.ahead = -1]
                 ELSE IF Sec(clock) >= timers[i].ahead THEN [timers[i] EXCEPT !.ahead = -1] ELSE timers[i]]
  /\ lastTime' = Sec(clock)
  /\ at' = [what |-> "timers", i |-> 1, maxId |-> nextId - 1]
  /\ last' = [what |-> "time"]
  /\ UNCHANGED <<events, maxfd, setsize, fired, nextId, clock>>

\* An event that was registered by a handler of this pass.
Skipped(t) == t.id > at.maxId

\* An event is looked at: if it is due its handler runs, which may create an event or
\* delete another one (a handler gets rid of its own by its result); then the list
\* is gone through again.  The clock is read again when the handler is done.
TimeEvent ==
  LET t == timers[at.i]
      due == Sec(clock) > t.sec \/ (Sec(clock) = t.sec /\ Ms(clock) >= t.ms)
  IN /\ at.what = "timers" /\ at.i <= Len(timers)
     /\ IF Skipped(t) \/ ~due
        THEN /\ at' = [at EXCEPT !.i = @ + 1] /\ last' = [what |-> "skip"]
             /\ UNCHANGED <<timers, nextId, clock>>
        ELSE /\ \E then \in 0..MaxClock, next \in {-1, 1, PerSec + 1}, more \in BOOLEAN, gone \in {-1} \cup {timers[i].id : i \in DOMAIN timers} :
                  LET a == IF gone = t.id THEN timers ELSE aeDeleteTimeEvent(timers, gone)
                      b == IF more /\ nextId < MaxTimers THEN aeCreateTimeEvent(a, then, 0) ELSE a
                      w == aeAddMillisecondsToNow(then, next)
                  IN /\ timers' = IF next = -1 THEN aeDeleteTimeEvent(b, t.id)
                                  ELSE [i \in DOMAIN b |-> IF b[i].id = t.id
                                                           THEN [b[i] EXCEPT !.sec = w.sec, !.ms = w.ms, !.ahead = Ahead(then)]
                                                           ELSE b[i]]
                     /\ nextId' = IF more /\ nextId < MaxTimers THEN nextId + 1 ELSE nextId
                     /\ clock' = then
             /\ at' = [at EXCEPT !.i = 1]
             /\ last' = [what |-> "timer", id |-> t.id, maxId |-> at.maxId]
     /\ UNCHANGED <<events, maxfd, setsize, fired, lastTime>>

\* The pass is over, and so is the iteration.
TimeDone ==
  /\ at.what = "timers" /\ at.i > Len(timers)
  /\ at' = [what |-> "main"] /\ last' = [what |-> "done"]
  /\ UNCHANGED <<events, maxfd, setsize, fired, timers, nextId, lastTime, clock>>

\* Time passes, and the clock may be set, wherever the loop is.
Clock ==
  /\ \E t \in 0..MaxClock : t # clock /\ clock' = t
  /\ last' = [what |-> "clock"]
  /\ UNCHANGED <<events, maxfd, setsize, fired, timers, nextId, lastTime, at>>

Init ==
  /\ setsize \in SetSizes
  /\ LET e == aeCreateFileEvent([tab |-> [f \in Fds |-> [mask |-> {}, r |-> "none", w |-> "none", conn |-> NoConn]], max |-> -1], 0, {R}, "read",
                                CHOOSE c \in Conns : TRUE)
     IN events = e.tab /\ maxfd = e.max
  /\ fired = <<>> /\ timers = <<[id |-> 0, sec |-> 0, ms |-> 1, ahead |-> -1]>> /\ nextId = 1 /\ lastTime = 0
  /\ at = [what |-> "main"] /\ clock = 0 /\ last = [what |-> "done"]

Next ==
  \/ \E n \in SetSizes : aeResizeSetSize(n)
  \/ aeProcessEvents \/ Dispatch \/ processTimeEvents \/ TimeEvent \/ TimeDone \/ Clock

Spec == Init /\ [][Next]_vars

----------------------------------------------------------------------------

\* maxfd is the highest descriptor with an event, after any order of additions and
\* deletions, and always one the tables have room for: the poll and a change of the
\* size go by it.
MaxFdRight ==
  LET used == {f \in Fds : events[f].mask # {}}
  IN maxfd = (IF used = {} THEN -1 ELSE Max(used)) /\ maxfd < setsize

\* A handler is called only for a kind of event it is registered for at that time,
\* whatever handlers before it in the same iteration deleted, and a handler that is
\* registered for both kinds is called once.
CalledAsRegistered ==
  last.what = "call" => last.m \in last.on /\ ~(last.again /\ last.proc = "both")

\* The loop sleeps exactly until the nearest timer is due; if it is overdue already
\* the loop still sleeps, for the negative seconds are cut off without the fraction,
\* but less than a second.
SleepBounded ==
  last.what = "poll" => IF last.until >= last.clock THEN last.time = last.until - last.clock
                        ELSE last.time < PerSec

\* Time events that handlers register during a pass wait for the next one.
NewTimersWait == last.what = "timer" => last.id <= last.maxId

\* A clock that is set back leaves no timer in the far future: after every pass each
\* timer is due less than a second more than the time its handler asked for after the
\* time the pass noted (lastTime).  Except those that were set by a clock in a later
\* second than any pass has noted since: when the clock jumps ahead in a pass (a
\* handler sets its timer by it) and back before the next one, nothing tells.
NoTimerStranded ==
  last.what = "done" =>
    \A i \in DOMAIN timers : timers[i].ahead = -1 => When(timers[i]) - lastTime * PerSec < PerSec + 1 + PerSec

\* The search for the nearest timer tells how long to sleep "without to delay any
\* event" (ae.c:245): the loop does not sleep when a timer is overdue.  It does not hold.
SleepDelaysNothing == (last.what = "poll" /\ last.until <= last.clock) => last.time = 0
=============================================================================
