------------------------------- MODULE PubSub -------------------------------
(***************************************************************************)
(* Subscriptions (wrapper/pubsub.c) and the keyspace events published by   *)
(* commands (wrapper/notify.c).  A subscription is kept twice: with the    *)
(* client, to count and to end it, and with the server, by channel and in  *)
(* the list of patterns, to deliver.                                       *)
(***************************************************************************)
EXTENDS Integers, Sequences, FiniteSets, SequencesExt

CONSTANTS
  Clients, Channels, Patterns,
  Match,         \* stringmatchlen: the pairs of a pattern and a channel it matches
  KeyChannel,    \* the channel __keyspace@<db>__:<key> of the key that is written,
  EventChannel   \* and __keyevent@<db>__:<event>

VARIABLES
  chans,     \* server.pubsub_channels: channel -> clients
  pats,      \* server.pubsub_patterns: [p, c]
  mine,      \* client -> [alive, chans : its channels, pats : its patterns, mode : REDIS_PUBSUB]
  notify,    \* server.notify_keyspace_events: K and E, for the class of the event
  out        \* what the last command sent, in order

vars == <<chans, pats, mine, notify, out>>

\* The tables and what is sent, threaded through the calls of a command.
World == [chans |-> chans, pats |-> pats, mine |-> mine, out |-> <<>>]
Become(w) == chans' = w.chans /\ pats' = w.pats /\ mine' = w.mine /\ out' = w.out

Without(s, x) == SelectSeq(s, LAMBDA y : y # x)

clientSubscriptionsCount(w, c) == Cardinality(w.mine[c].chans) + Len(w.mine[c].pats)

\* The reply to c about one subscription; null is in the place of its name.
Notify(w, c, kind, name) ==
  [w EXCEPT !.out = Append(@, [to |-> c, kind |-> kind, name |-> name, n |-> clientSubscriptionsCount(w, c)])]

pubsubSubscribeChannel(w, c, ch) ==
  Notify(IF ch \in w.mine[c].chans THEN w
         ELSE [w EXCEPT !.mine[c].chans = @ \cup {ch}, !.chans[ch] = Append(@, c)], c, "subscribe", ch)

pubsubUnsubscribeChannel(w, c, ch, notifies) ==
  LET u == IF ch \notin w.mine[c].chans THEN w
           ELSE [w EXCEPT !.mine[c].chans = @ \ {ch}, !.chans[ch] = Without(@, c)]
  IN IF notifies THEN Notify(u, c, "unsubscribe", ch) ELSE u

pubsubSubscribePattern(w, c, p) ==
  Notify(IF p \in ToSet(w.mine[c].pats) THEN w
         ELSE [w EXCEPT !.mine[c].pats = Append(@, p), !.pats = Append(@, [p |-> p, c |-> c])], c, "psubscribe", p)

pubsubUnsubscribePattern_AnyClient(w, c, p, notifies) ==
  LET at == SelectInSeq(w.pats, LAMBDA x : x.p = p)
      u == IF p \notin ToSet(w.mine[c].pats) THEN w
           ELSE [w EXCEPT !.mine[c].pats = Without(@, p), !.pats = RemoveAt(@, at)]
  IN IF notifies THEN Notify(u, c, "punsubscribe", p) ELSE u

\* listSearchKey finds the pattern of this client by listMatchPubsubPattern.
pubsubUnsubscribePattern(w, c, p, notifies) ==
  LET at == SelectInSeq(w.pats, LAMBDA x : x.p = p /\ x.c = c)
      u == IF p \notin ToSet(w.mine[c].pats) THEN w
           ELSE [w EXCEPT !.mine[c].pats = Without(@, p), !.pats = RemoveAt(@, at)]
  IN IF notifies THEN Notify(u, c, "punsubscribe", p) ELSE u

\* A subscription to nothing is answered as well.
pubsubUnsubscribeAllChannels(w, c, notifies) ==
  LET all == SetToSeq(w.mine[c].chans)
      each[i \in 0..Len(all)] ==
        IF i = 0 THEN w ELSE pubsubUnsubscribeChannel(each[i - 1], c, all[i], notifies)
  IN IF notifies /\ all = <<>> THEN Notify(w, c, "unsubscribe", "null") ELSE each[Len(all)]
pubsubUnsubscribeAllPatterns(w, c, notifies) ==
  LET all == w.mine[c].pats
      each[i \in 0..Len(all)] ==
        IF i = 0 THEN w ELSE pubsubUnsubscribePattern(each[i - 1], c, all[i], notifies)
  IN IF notifies /\ all = <<>> THEN Notify(w, c, "punsubscribe", "null") ELSE each[Len(all)]

\* The subscribers of the channel, then those of the patterns that match, each in
\* the order they came.
pubsubPublishMessage(w, ch) ==
  LET byChannel == [i \in DOMAIN w.chans[ch] |-> [to |-> w.chans[ch][i], kind |-> "message", name |-> ch, n |-> 0]]
      hits == SelectSeq(w.pats, LAMBDA x : <<x.p, ch>> \in Match)
      byPattern == [i \in DOMAIN hits |-> [to |-> hits[i].c, kind |-> "pmessage", name |-> hits[i].p, n |-> 0]]
  IN [w EXCEPT !.out = @ \o byChannel \o byPattern]

----------------------------------------------------------------------------
(* Commands.  processCommand lets a client with REDIS_PUBSUB do no other   *)
(* than these and QUIT.                                                    *)

\* The mode ends with the last subscription of either kind.
Leave(w, c) == IF clientSubscriptionsCount(w, c) = 0 THEN [w EXCEPT !.mine[c].mode = FALSE] ELSE w

\* The arguments of a command: one or two names.
Args(S) == {<<x>> : x \in S} \cup (S \X S)

\* A function of the tables, applied for each argument in turn.
Each(F(_, _), args) ==
  LET w[i \in 0..Len(args)] == IF i = 0 THEN World ELSE F(w[i - 1], args[i]) IN w[Len(args)]

subscribeCommand(c) ==
  /\ mine[c].alive
  /\ \E args \in Args(Channels) :
       Become([Each(LAMBDA w, x : pubsubSubscribeChannel(w, c, x), args) EXCEPT !.mine[c].mode = TRUE])
psubscribeCommand(c) ==
  /\ mine[c].alive
  /\ \E args \in Args(Patterns) :
       Become([Each(LAMBDA w, x : pubsubSubscribePattern(w, c, x), args) EXCEPT !.mine[c].mode = TRUE])

\* With arguments, or without.
unsubscribeCommand(c) ==
  /\ mine[c].alive
  /\ \/ \E args \in Args(Channels) :
          Become(Leave(Each(LAMBDA w, x : pubsubUnsubscribeChannel(w, c, x, TRUE), args), c))
     \/ Become(Leave(pubsubUnsubscribeAllChannels(World, c, TRUE), c))
punsubscribeCommand(c) ==
  /\ mine[c].alive
  /\ \/ \E args \in Args(Patterns) :
          Become(Leave(Each(LAMBDA w, x : pubsubUnsubscribePattern(w, c, x, TRUE), args), c))
     \/ Become(Leave(pubsubUnsubscribeAllPatterns(World, c, TRUE), c))

publishCommand(c, ch) == mine[c].alive /\ ~mine[c].mode /\ Become(pubsubPublishMessage(World, ch))

\* A command of c writes a key: notifyKeyspaceEvent.
notifyKeyspaceEvent(c) ==
  LET k == IF notify.K THEN pubsubPublishMessage(World, KeyChannel) ELSE World
  IN /\ mine[c].alive /\ ~mine[c].mode
     /\ Become(IF notify.E THEN pubsubPublishMessage(k, EventChannel) ELSE k)

\* freeClient; later a new client takes its place.
freeClient(c) ==
  LET w == pubsubUnsubscribeAllPatterns(pubsubUnsubscribeAllChannels(World, c, FALSE), c, FALSE)
  IN mine[c].alive /\ Become([w EXCEPT !.mine[c].alive = FALSE, !.mine[c].mode = FALSE])
createClient(c) == ~mine[c].alive /\ Become([World EXCEPT !.mine[c].alive = TRUE])

Init ==
  /\ chans = [ch \in Channels |-> <<>>] /\ pats = <<>> /\ out = <<>>
  /\ mine = [c \in Clients |-> [alive |-> TRUE, chans |-> {}, pats |-> <<>>, mode |-> FALSE]]
  /\ notify \in [K : BOOLEAN, E : BOOLEAN]

Next ==
  /\ \E c \in Clients :
       \/ \E ch \in Channels : publishCommand(c, ch)
       \/ subscribeCommand(c) \/ psubscribeCommand(c) \/ unsubscribeCommand(c) \/ punsubscribeCommand(c) \/ notifyKeyspaceEvent(c)
       \/ freeClient(c) \/ createClient(c)
  /\ UNCHANGED notify

Spec == Init /\ [][Next]_vars

----------------------------------------------------------------------------
(* Properties.  Those with primes are about every step.                    *)

\* The two records of subscriptions agree, each subscription once, also after clients
\* came and went: nothing is sent to a client that is gone.
SubscriptionsAgree ==
  /\ \A ch \in Channels : IsInjective(chans[ch]) /\ ToSet(chans[ch]) = {c \in Clients : ch \in mine[c].chans}
  /\ IsInjective(pats) /\ ToSet(pats) = {x \in [p : Patterns, c : Clients] : x.p \in ToSet(mine[x.c].pats)}
  /\ \A c \in Clients : ~mine[c].alive => mine[c].chans = {} /\ mine[c].pats = <<>>

\* A client is in the restricted mode exactly while it has subscriptions of one kind
\* or the other.
ModeRight == \A c \in Clients : mine[c].mode <=> mine[c].chans # {} \/ mine[c].pats # <<>>

\* Every client receives a message once by its channel and once by each of its own
\* patterns that match, in the order in which it subscribed to them.
DeliveredOnce ==
  \A c \in Clients, ch \in Channels : publishCommand(c, ch) =>
    \A d \in Clients :
      SelectSeq(out', LAMBDA x : x.to = d) =
        (IF ch \in mine[d].chans THEN <<[to |-> d, kind |-> "message", name |-> ch, n |-> 0]>> ELSE <<>>)
        \o LET own == SelectSeq(mine[d].pats, LAMBDA p : <<p, ch>> \in Match)
           IN [i \in DOMAIN own |-> [to |-> d, kind |-> "pmessage", name |-> own[i], n |-> 0]]
=============================================================================
