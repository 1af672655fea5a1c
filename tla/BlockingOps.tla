---------------------------- MODULE BlockingOps ----------------------------
(***************************************************************************)
(* Blocking list operations: BLPOP, BRPOP and BRPOPLPUSH clients waiting   *)
(* on keys (t_list.c), the keys that become ready, the clients served      *)
(* after the command that made them so, and the return of an unblocked     *)
(* client to its own input, in the iteration of the event loop             *)
(* (beforeSleep, processInputBuffer) or when it times out or goes away.    *)
(*                                                                         *)
(* The server is one thread: `cur' is the client whose input buffer is     *)
(* being run, and nothing else happens until that is done.  An iteration   *)
(* polls every socket at most once (`fired'), then runs the cron, then     *)
(* beforeSleep drains the list of unblocked clients.                       *)
(***************************************************************************)
EXTENDS Naturals, Sequences, FiniteSets, SequencesExt

CONSTANTS
  Clients, Keys, Values, NoClient, NoKey,
  Blocks,     \* the blocking commands: [keys : sequence, target, head : BLPOP or not]
  MaxLen,     \* bound on the length of a list
  MaxCmds     \* bound on the commands one read delivers

VARIABLES
  ks,         \* key -> [type, l]
  blocking,   \* db->blocking_keys: key -> clients in the order they blocked
  cl,         \* client -> [alive, blocked, unblocked, op, buf]
  unblocked,  \* server.unblocked_clients
  cur,        \* the client whose input is being processed
  phase,      \* of the iteration: "poll", "cron" or "sleep"
  fired,      \* clients whose socket was served in this iteration
  call        \* what the last command did: [prop, served, stored]

vars == <<ks, blocking, cl, unblocked, cur, phase, fired, call>>

None == [type |-> "none", l |-> <<>>]
Str == [type |-> "string", l |-> <<>>]
List(s) == [type |-> "list", l |-> s]
NoOp == [keys |-> <<>>, target |-> NoKey, head |-> FALSE]

Without(s, x) == SelectSeq(s, LAMBDA y : y # x)

-----------------------------------------------------------------------------
(* The state a command works on, threaded through the functions it calls:  *)
(* the keyspace, the blocking tables and the ready keys.                   *)

World == [ks |-> ks, blocking |-> blocking, cl |-> cl, unblocked |-> unblocked,
          ready |-> <<>>, prop |-> <<>>, served |-> <<>>]

\* A key listed twice is blocked on once.
blockForKeys(w, c, op) ==
    [w EXCEPT !.blocking = [k \in Keys |-> IF k \in Range(op.keys)
                                           THEN Append(w.blocking[k], c) ELSE w.blocking[k]],
              !.cl[c].blocked = TRUE, !.cl[c].op = op]

\* The bug of leaving the client in the queues of the other keys it waited for.
unblockClientWaitingData_OneKey(w, c) ==
    [w EXCEPT !.blocking = [k \in Keys |-> IF k = w.cl[c].op.keys[1]
                                           THEN Without(w.blocking[k], c) ELSE w.blocking[k]],
              !.cl[c].blocked = FALSE, !.cl[c].unblocked = TRUE, !.cl[c].op = NoOp,
              !.unblocked = Append(@, c)]

unblockClientWaitingData(w, c) ==
    [w EXCEPT !.blocking = [k \in Keys |-> Without(w.blocking[k], c)],
              !.cl[c].blocked = FALSE, !.cl[c].unblocked = TRUE, !.cl[c].op = NoOp,
              !.unblocked = Append(@, c)]

signalListAsReady(w, k) ==
    IF w.blocking[k] = <<>> \/ k \in Range(w.ready) THEN w
    ELSE [w EXCEPT !.ready = Append(@, k)]

\* dbAdd of a list tells the clients waiting for the key; dbOverwrite does not.
dbAdd(w, k, o) ==
    LET a == [w EXCEPT !.ks[k] = o] IN IF o.type = "list" THEN signalListAsReady(a, k) ELSE a

setKey(w, k, o) ==
    IF w.ks[k].type = "none" THEN dbAdd(w, k, o) ELSE [w EXCEPT !.ks[k] = o]

PushTo(w, k, v, head) ==
    LET a == IF w.ks[k].type = "none" THEN dbAdd(w, k, List(<<>>)) ELSE w
    IN [a EXCEPT !.ks[k].l = IF head THEN <<v>> \o @ ELSE Append(@, v)]

PopFrom(w, k, head) == [w EXCEPT !.ks[k].l = IF head THEN Tail(@) ELSE Front(@)]
End(s, head) == IF head THEN s[1] ELSE Last(s)
DeleteIfEmpty(w, k) == IF w.ks[k].l = <<>> THEN [w EXCEPT !.ks[k] = None] ELSE w

Propagate(w, op) == [w EXCEPT !.prop = Append(@, op)]
Pop(k, head) == [name |-> "pop", key |-> k, v |-> 0, head |-> head]
Push(k, v, head) == [name |-> "push", key |-> k, v |-> v, head |-> head]

\* The first client in the queue of k is given an element: it is unblocked, then
\* served; a BRPOPLPUSH whose target is not a list is answered with an error and
\* its element put back where it came from.
Serve(w, k) ==
    LET c == w.blocking[k][1]
        op == w.cl[c].op
        v == End(w.ks[k].l, op.head)
        u == unblockClientWaitingData(PopFrom(w, k, op.head), c)
        given == [u EXCEPT !.served = Append(@, [c |-> c, key |-> k])]
    IN IF op.target = NoKey THEN Propagate(given, Pop(k, op.head))
       ELSE IF w.ks[op.target].type = "string" THEN PushTo(u, k, v, op.head)
       ELSE Propagate(PushTo(Propagate(given, Pop(k, FALSE)), op.target, v, TRUE),
                      Push(op.target, v, TRUE))

\* The bug of stopping at the first client that could not be served.
ServeKey_Once(w, k) ==
    LET n == Len(w.blocking[k])
        Loop[i \in 0..n] ==
            IF i = 0 THEN w
            ELSE IF Loop[i - 1].ks[k].l = <<>> \/ i > 1 THEN Loop[i - 1] ELSE Serve(Loop[i - 1], k)
    IN IF w.ks[k].type # "list" THEN w ELSE DeleteIfEmpty(Loop[n], k)

\* As many clients as were waiting when the loop began, while elements last.
ServeKey(w, k) ==
    LET n == Len(w.blocking[k])
        Loop[i \in 0..n] ==
            IF i = 0 THEN w
            ELSE IF Loop[i - 1].ks[k].l = <<>> THEN Loop[i - 1] ELSE Serve(Loop[i - 1], k)
    IN IF w.ks[k].type # "list" THEN w ELSE DeleteIfEmpty(Loop[n], k)

\* The outer loop repeats while serving BRPOPLPUSH made other keys ready; every
\* round that makes one ready unblocks a client, so Clients bounds the rounds.
handleClientsBlockedOnLists(w) ==
    LET Round(u) ==
            LET keys == u.ready
                \* every key leaves db->ready_keys just before it is served
                Do[i \in 0..Len(keys)] ==
                    IF i = 0 THEN u
                    ELSE LET s == Do[i - 1]
                             left == SubSeq(keys, i + 1, Len(keys))
                             more == SubSeq(s.ready, Len(keys) - i + 2, Len(s.ready))
                         IN ServeKey([s EXCEPT !.ready = left \o more], keys[i])
            IN Do[Len(keys)]
        Rounds[i \in 0..(Cardinality(Clients) + 1)] ==
            IF i = 0 THEN w ELSE Round(Rounds[i - 1])
    IN Rounds[Cardinality(Clients) + 1]

-----------------------------------------------------------------------------
(* Commands: what call() executes, then the clients it made ready.         *)

Finish(w, stored) ==
    \E h \in {handleClientsBlockedOnLists(w)} :
       /\ \A k \in Keys : Len(h.ks[k].l) <= MaxLen
       /\ ks' = h.ks /\ blocking' = h.blocking /\ unblocked' = h.unblocked
       /\ cl' = [h.cl EXCEPT ![cur].buf = @ - 1]
       /\ call' = [prop |-> h.prop, served |-> h.served, stored |-> stored]

Running == cur # NoClient /\ cl[cur].buf > 0 /\ ~cl[cur].blocked

\* RPUSH k v1 ... vn, propagated as it stands.
pushGenericCommand(k, vs) ==
    LET pushed[i \in 0..Len(vs)] ==
            IF i = 0 THEN World
            ELSE Propagate(PushTo(pushed[i - 1], k, vs[i], FALSE), Push(k, vs[i], FALSE))
    IN ks[k].type # "string" /\ Finish(pushed[Len(vs)], {})

\* MULTI, a push on each key, EXEC: the clients are served once, at the end.
execPushes(k1, k2, v) ==
    /\ k1 # k2 /\ \A k \in {k1, k2} : ks[k].type # "string"
    /\ LET w1 == Propagate(PushTo(World, k1, v, FALSE), Push(k1, v, FALSE))
       IN Finish(Propagate(PushTo(w1, k2, v, FALSE), Push(k2, v, FALSE)), {})

Store(k, o, stored) ==
    Finish(Propagate(setKey(World, k, o), [name |-> "store", key |-> k, o |-> o]), stored)

setCommand(k) == Store(k, Str, {})
sortStore(k, v) == Store(k, List(<<v>>), IF ks[k].type = "none" THEN {} ELSE {k})
delCommand(k) ==
    Finish(Propagate([World EXCEPT !.ks[k] = None], [name |-> "store", key |-> k, o |-> None]), {})

\* BLPOP and BRPOP: the first key that holds anything decides.
blockingPopGenericCommand(op) ==
    LET held == {i \in 1..Len(op.keys) : ks[op.keys[i]].type # "none"}
        i == CHOOSE i \in held : \A j \in held : i <= j
        k == op.keys[i]
    IN /\ op.target = NoKey
       /\ Finish(IF held = {} THEN blockForKeys(World, cur, op)
                 ELSE IF ks[k].type = "string" THEN World
                 ELSE Propagate(DeleteIfEmpty(PopFrom(World, k, op.head), k), Pop(k, op.head)), {})

brpoplpushCommand(op) ==
    LET k == op.keys[1]
        v == Last(ks[k].l)
        popped == PopFrom(World, k, FALSE)
        moved == DeleteIfEmpty(PushTo(popped, op.target, v, TRUE), k)
    IN /\ op.target # NoKey
       /\ Finish(IF ks[k].type = "none" THEN blockForKeys(World, cur, op)
                 ELSE IF ks[k].type = "string" \/ ks[op.target].type = "string" THEN World
                 ELSE Propagate(Propagate(moved, Pop(k, FALSE)), Push(op.target, v, TRUE)), {})

\* freeClient: out of the blocking queues, and out of the list of unblocked
\* clients once if its flag says that it is there.
freeClient(w, c) ==
    LET u == IF w.cl[c].blocked THEN unblockClientWaitingData(w, c) ELSE w
    IN [u EXCEPT !.cl[c] = [alive |-> FALSE, blocked |-> FALSE, unblocked |-> FALSE,
                            op |-> NoOp, buf |-> 0],
                 !.unblocked = IF u.cl[c].unblocked THEN RemoveFirst(@, c) ELSE @]

clientKill(c) == cl[c].alive /\ c # cur /\ Finish(freeClient(World, c), {})

-----------------------------------------------------------------------------
(* The event loop.                                                         *)

Idle == [prop |-> <<>>, served |-> <<>>, stored |-> {}]

\* A socket is readable: the commands join the buffer, which is run unless the
\* client is blocked (processInputBuffer returns at once then).
readQueryFromClient(c) ==
    /\ phase = "poll" /\ cur = NoClient /\ c \notin fired /\ cl[c].alive
    /\ \E n \in 1..MaxCmds :
         /\ cl[c].buf + n <= MaxCmds
         /\ cl' = [cl EXCEPT ![c].buf = @ + n]
    /\ fired' = fired \cup {c}
    /\ cur' = IF cl[c].blocked THEN NoClient ELSE c
    /\ call' = Idle
    /\ UNCHANGED <<ks, blocking, unblocked, phase>>

\* End of file on the socket.
Disconnect(c) ==
    /\ phase = "poll" /\ cur = NoClient /\ c \notin fired /\ cl[c].alive
    /\ \E w \in {freeClient(World, c)} :
         blocking' = w.blocking /\ cl' = w.cl /\ unblocked' = w.unblocked
    /\ fired' = fired \cup {c} /\ call' = Idle
    /\ UNCHANGED <<ks, cur, phase>>

\* clientsCron: the timeout of a blocked client has passed, or another was idle for
\* too long and is freed.
clientsCronHandleTimeout(c) ==
    /\ phase = "cron" /\ cl[c].alive
    /\ \E w \in {IF cl[c].blocked THEN unblockClientWaitingData(World, c) ELSE freeClient(World, c)} :
         blocking' = w.blocking /\ cl' = w.cl /\ unblocked' = w.unblocked
    /\ call' = Idle
    /\ UNCHANGED <<ks, cur, phase, fired>>

\* One command of the buffer.
Command ==
    /\ Running
    /\ \E k \in Keys :
         \/ \E v \in Values :
              \/ pushGenericCommand(k, <<v>>)
              \/ \E v2 \in Values : pushGenericCommand(k, <<v, v2>>)
              \/ sortStore(k, v)
              \/ \E k2 \in Keys : execPushes(k, k2, v)
         \/ setCommand(k)
         \/ delCommand(k)
         \/ \E op \in Blocks : blockingPopGenericCommand(op) \/ brpoplpushCommand(op)
         \/ \E c \in Clients : clientKill(c)
    /\ UNCHANGED <<cur, phase, fired>>

\* processInputBuffer returns: the buffer is empty or the client is blocked.
InputDone ==
    /\ cur # NoClient /\ ~Running
    /\ cur' = NoClient /\ call' = Idle
    /\ UNCHANGED <<ks, blocking, cl, unblocked, phase, fired>>

serverCron ==
    /\ phase = "poll" /\ cur = NoClient
    /\ phase' = "cron" /\ call' = Idle
    /\ UNCHANGED <<ks, blocking, cl, unblocked, cur, fired>>

beforeSleep ==
    /\ phase = "cron"
    /\ phase' = "sleep" /\ call' = Idle
    /\ UNCHANGED <<ks, blocking, cl, unblocked, cur, fired>>

\* The next unblocked client.  An entry whose client was freed is a use of freed
\* memory: no behaviour continues from there (see UnblockedAlive).
ProcessUnblocked ==
    /\ phase = "sleep" /\ cur = NoClient /\ unblocked # <<>>
    /\ LET c == Head(unblocked)
       IN /\ cl[c].alive
          /\ cl' = [cl EXCEPT ![c].unblocked = FALSE]
          /\ cur' = IF cl[c].buf > 0 THEN c ELSE NoClient
    /\ unblocked' = Tail(unblocked) /\ call' = Idle
    /\ UNCHANGED <<ks, blocking, phase, fired>>

Sleep ==
    /\ phase = "sleep" /\ cur = NoClient /\ unblocked = <<>>
    /\ phase' = "poll" /\ fired' = {} /\ call' = Idle
    /\ UNCHANGED <<ks, blocking, cl, unblocked, cur>>

Init ==
    /\ ks = [k \in Keys |-> None]
    /\ blocking = [k \in Keys |-> <<>>]
    /\ cl = [c \in Clients |-> [alive |-> TRUE, blocked |-> FALSE, unblocked |-> FALSE,
                                op |-> NoOp, buf |-> 0]]
    /\ unblocked = <<>> /\ cur = NoClient /\ phase = "poll" /\ fired = {} /\ call = Idle

Next ==
    \/ \E c \in Clients : \/ readQueryFromClient(c) \/ Disconnect(c)
                          \/ clientsCronHandleTimeout(c)
    \/ Command \/ InputDone \/ serverCron \/ beforeSleep \/ ProcessUnblocked \/ Sleep

Spec == Init /\ [][Next]_vars

-----------------------------------------------------------------------------
(* Properties.  Those with primes are about every step.                    *)

\* The two sides of blocking agree: a client is in the queue of a key, once, exactly
\* when it is blocked on that key, whatever unblocked, timed out or freed it.
QueuesAgree == \A k \in Keys, c \in Clients :
    /\ Cardinality({i \in 1..Len(blocking[k]) : blocking[k][i] = c}) <= 1
    /\ c \in Range(blocking[k]) <=> cl[c].blocked /\ k \in Range(cl[c].op.keys)

\* Once a command is over nobody is blocked on a key that holds a list: every way
\* elements arrive at a key signals it, the pushes made by serving others included.
\* (SORT ... STORE over a key of another type does not, see `stored': those keys
\* are left out.)
NobodyWaitsInVain ==
    \A k \in Keys : blocking'[k] # <<>> /\ ks'[k].type = "list" =>
      k \in call'.stored \/ (blocking[k] # <<>> /\ ks[k].type = "list")

\* The pops and pushes propagated for a command and for the clients it served,
\* applied in order to the lists as they were, give the lists as they are.
Replay(lists, ops) ==
    LET Apply[i \in 0..Len(ops)] ==
            IF i = 0 THEN lists
            ELSE LET op == ops[i]
                     old == Apply[i - 1]
                     l == old[op.key].l
                 IN [old EXCEPT ![op.key] =
                       CASE op.name = "store" -> op.o
                         [] op.name = "push" ->
                              List(IF op.head THEN <<op.v>> \o l ELSE Append(l, op.v))
                         [] op.name = "pop" ->
                              IF Len(l) = 1 THEN None
                              ELSE List(IF op.head THEN Tail(l) ELSE Front(l))]
    IN Apply[Len(ops)]
StreamExact == ks' = Replay(ks, call'.prop)

\* Clients waiting for the same key are served in the order they blocked: when one
\* is given an element of the key, nobody who was before it is still waiting.
ServedInOrder ==
    \A i \in 1..Len(call'.served) :
      LET s == call'.served[i]
      IN \A n, m \in 1..Len(blocking[s.key]) :
           blocking[s.key][m] = s.c /\ n < m =>
             blocking[s.key][n] \notin Range(blocking'[s.key])

\* No command is forgotten in an input buffer: its client is blocked, or it is in
\* the list beforeSleep goes through, or its input is being processed.
InputNotForgotten == \A c \in Clients :
    cl[c].buf > 0 => cl[c].blocked \/ c = cur \/ c \in Range(unblocked)

\* "When client was just unblocked because of a blocking operation, remove it from
\* the list of unblocked clients": the list holds no client that was freed.
UnblockedAlive == \A c \in Range(unblocked) : cl[c].alive
=============================================================================
