---------------------------- MODULE SentinelLinks ----------------------------
(***************************************************************************)
(* One instance monitored by a Sentinel (src/others/sentinel.c): its two   *)
(* links, the commands sent over them and not answered, and the pings      *)
(* from which the Sentinel tells that the instance is down.  A step of the *)
(* timer is the unit of time; the fields that hold times are ages here.    *)
(* The instance is another Sentinel, or a Redis instance in the role the   *)
(* Sentinel believes it has.                                               *)
(***************************************************************************)
EXTENDS Integers, Sequences

CONSTANTS
  DownAfter,     \* down_after_period
  PingPeriod,    \* SENTINEL_PING_PERIOD
  InfoPeriod,    \* SENTINEL_INFO_PERIOD
  MaxPending,    \* SENTINEL_MAX_PENDING_COMMANDS
  MaxDrift       \* bounds what pending_commands is wrong by, when pc is killed

VARIABLES
  kind,       \* "redis", or "sentinel": no INFO is sent and there is no pc
  cc, pc,     \* the command link and the Pub/Sub link are there
  disc,       \* SRI_DISCONNECTED
  sent,       \* the commands sent over cc and not answered
  psent,      \* the number of those sent over pc that count as pending
  pending,    \* pending_commands
  ping,       \* the age of last_ping_time, NoPing if that is 0
  pong,       \* the age of last_pong_time
  refresh,    \* the age of info_refresh
  sdown,      \* SRI_S_DOWN
  killed,     \* SRI_SCRIPT_KILL_SENT
  silent,     \* how long ago the last acceptable reply to a PING came
  failed      \* since the last reply to a PING a connection has failed at once, or
              \* too many commands were pending

vars == <<kind, cc, pc, disc, sent, psent, pending, ping, pong, refresh, sdown, killed,
          silent, failed>>

NoPing == -1
Detection == PingPeriod + DownAfter + 2   \* the time in which a silent instance is down
Older(age, cap) == IF age = NoPing \/ age = cap THEN age ELSE age + 1

\* createSentinelRedisInstance.
Init ==
  /\ kind \in {"redis", "sentinel"}
  /\ cc = FALSE /\ pc = FALSE /\ disc = TRUE
  /\ sent = <<>> /\ psent = 0 /\ pending = 0
  /\ ping = 0 /\ pong = 0 /\ silent = 0 /\ refresh = InfoPeriod + 1
  /\ sdown = FALSE /\ killed = FALSE /\ failed = FALSE

----------------------------------------------------------------------------
(* The timer, as functions of a record x of the variables it changes.      *)

\* sentinelSendPing: the age is that of the first PING not answered.
SendPing(x) ==
  [x EXCEPT !.sent = Append(@, "ping"), !.pending = @ + 1,
            !.ping = IF @ = NoPing THEN 0 ELSE @]

KillCommands_KeepPending(x) == [x EXCEPT !.cc = FALSE, !.disc = TRUE, !.sent = <<>>]

\* sentinelKillLink.
KillCommands(x) == [x EXCEPT !.cc = FALSE, !.disc = TRUE, !.pending = 0, !.sent = <<>>]
KillPubsub(x) == [x EXCEPT !.pc = FALSE, !.disc = TRUE, !.psent = 0]

\* sentinelReconnectInstance: each new link starts with CLIENT SETNAME, the
\* command link with a PING as well; err: connecting fails at once.
ReconnectCommands(x, err) ==
  CASE x.cc -> x
    [] ~x.cc /\ err -> [KillCommands(x) EXCEPT !.failed = TRUE]
    [] OTHER -> SendPing([x EXCEPT !.cc = TRUE, !.sent = <<"other">>, !.pending = @ + 1])

ReconnectPubsub(x, err) ==
  CASE x.pc \/ kind = "sentinel" -> x
    [] ~x.pc /\ err -> [KillPubsub(x) EXCEPT !.failed = TRUE]
    [] OTHER -> [x EXCEPT !.pc = TRUE, !.pending = @ + 1, !.psent = 1]

ReconnectInstance(x, cerr, perr) ==
  LET y == ReconnectPubsub(ReconnectCommands(x, cerr), perr)
  IN IF ~x.disc THEN x
     ELSE [y EXCEPT !.disc = ~(y.cc /\ (kind = "sentinel" \/ y.pc))]

\* sentinelSendPeriodicCommands; hello: it is time to publish one.  info_refresh
\* only moves with a reply: until then each call sends INFO, and no PING.
SendPeriodicCommands(x, hello) ==
  CASE x.disc -> x
    [] x.pending >= MaxPending -> [x EXCEPT !.failed = TRUE]
    [] kind = "redis" /\ x.refresh > InfoPeriod ->
         [x EXCEPT !.sent = Append(@, "info"), !.pending = @ + 1]
    [] x.pong > PingPeriod -> SendPing(x)
    [] hello -> [x EXCEPT !.sent = Append(@, "other"), !.pending = @ + 1]
    [] OTHER -> x

CheckSubjectivelyDown_Early(x, cidle, pidle) ==
  [x EXCEPT !.sdown = x.ping >= DownAfter]

\* sentinelCheckSubjectivelyDown: idle links are killed, those that are not too
\* new (a choice); then SRI_S_DOWN is set or cleared.
CheckSubjectivelyDown(x, cidle, pidle) ==
  LET late == 2 * x.ping > DownAfter /\ 2 * x.pong > DownAfter
      y == IF x.cc /\ cidle /\ late THEN KillCommands(x) ELSE x
      z == IF y.pc /\ pidle THEN KillPubsub(y) ELSE y
      down == x.ping > DownAfter
  IN [z EXCEPT !.sdown = down, !.killed = @ /\ down]

\* sentinelHandleRedisInstance, one unit of time after the last one.
HandleRedisInstance(cerr, perr, hello, cidle, pidle) ==
  LET x == [cc |-> cc, pc |-> pc, disc |-> disc, sent |-> sent, psent |-> psent,
            pending |-> pending, sdown |-> sdown, killed |-> killed, failed |-> failed,
            refresh |-> Older(refresh, InfoPeriod + 1), ping |-> Older(ping, DownAfter + 2),
            pong |-> Older(pong, Detection)]
  IN \E y \in {CheckSubjectivelyDown(
                 SendPeriodicCommands(ReconnectInstance(x, cerr, perr), hello), cidle, pidle)} :
     /\ y.pending - Len(y.sent) - y.psent \in -MaxDrift..MaxDrift
     /\ cc' = y.cc /\ pc' = y.pc /\ disc' = y.disc /\ sent' = y.sent /\ psent' = y.psent
     /\ pending' = y.pending /\ sdown' = y.sdown /\ killed' = y.killed /\ failed' = y.failed
     /\ ping' = y.ping /\ pong' = y.pong /\ refresh' = y.refresh
     /\ silent' = Older(silent, DownAfter + 1)
     /\ UNCHANGED kind

----------------------------------------------------------------------------
(* Replies and errors: of the commands sent over cc the first is answered. *)

\* sentinelPingReplyCallback; good: PONG, LOADING or MASTERDOWN.
PingReply(reply) ==
  LET kill == reply = "busy" /\ sdown /\ ~killed IN
  /\ cc /\ sent # <<>> /\ Head(sent) = "ping"
  /\ sent' = Tail(sent) \o (IF kill THEN <<"other">> ELSE <<>>)
  /\ pending' = pending - 1 + (IF kill THEN 1 ELSE 0)
  /\ killed' = (killed \/ kill)
  /\ ping' = IF reply = "good" THEN NoPing ELSE ping
  /\ silent' = IF reply = "good" THEN 0 ELSE silent
  /\ pong' = 0 /\ failed' = FALSE
  /\ UNCHANGED <<kind, cc, pc, disc, psent, refresh, sdown>>

\* sentinelInfoReplyCallback; good: a bulk, not an error.
InfoReply(good) ==
  /\ cc /\ sent # <<>> /\ Head(sent) = "info"
  /\ sent' = Tail(sent) /\ pending' = pending - 1
  /\ refresh' = IF good THEN 0 ELSE refresh
  /\ UNCHANGED <<kind, cc, pc, disc, psent, ping, pong, sdown, killed, silent, failed>>

\* sentinelDiscardReplyCallback and sentinelPublishReplyCallback.
OtherReply ==
  /\ cc /\ sent # <<>> /\ Head(sent) = "other"
  /\ sent' = Tail(sent) /\ pending' = pending - 1
  /\ UNCHANGED <<kind, cc, pc, disc, psent, ping, pong, refresh, sdown, killed, silent, failed>>

PubsubReply ==
  /\ pc /\ psent > 0
  /\ psent' = psent - 1 /\ pending' = pending - 1
  /\ UNCHANGED <<kind, cc, pc, disc, sent, ping, pong, refresh, sdown, killed, silent, failed>>

\* sentinelDisconnectInstanceFromContext, after the callbacks of the commands not
\* answered were called without a reply.
CommandsDisconnected ==
  /\ cc /\ cc' = FALSE /\ disc' = TRUE
  /\ sent' = <<>> /\ pending' = pending - Len(sent)
  /\ UNCHANGED <<kind, pc, psent, ping, pong, refresh, sdown, killed, silent, failed>>

PubsubDisconnected ==
  /\ pc /\ pc' = FALSE /\ disc' = TRUE
  /\ psent' = 0 /\ pending' = pending - psent
  /\ UNCHANGED <<kind, cc, sent, ping, pong, refresh, sdown, killed, silent, failed>>

Next ==
  \/ \E cerr \in {FALSE, ~cc}, cidle, hello \in BOOLEAN :
       \E perr \in {FALSE, kind = "redis" /\ ~pc}, pidle \in {FALSE, kind = "redis"} :
         HandleRedisInstance(cerr, perr, hello, cidle, pidle)
  \/ \E reply \in {"good", "busy", "error"} : PingReply(reply)
  \/ \E good \in BOOLEAN : InfoReply(good)
  \/ OtherReply
  \/ PubsubReply
  \/ CommandsDisconnected
  \/ PubsubDisconnected

Spec == Init /\ [][Next]_vars

----------------------------------------------------------------------------

\* A link that is missing is flagged: whatever is sent while SRI_DISCONNECTED is
\* clear has a link to be sent over (sentinelSendPeriodicCommands).
LinksThere == ~disc => cc /\ (pc \/ kind = "sentinel")

\* pending_commands of a Sentinel is what was sent to it and not answered, through
\* any killing and reconnecting of the link: it never stays at its limit, where
\* sentinelSendPeriodicCommands stops pinging.
PendingExact == kind = "sentinel" => pending = Len(sent)

\* A Sentinel that no longer answers is subjectively down in time, whatever
\* happens to the link meanwhile: killing it and connecting again does not
\* restart the clock of sentinelCheckSubjectivelyDown.  Two things alone stop the
\* pings: connecting fails at once, and SENTINEL_MAX_PENDING_COMMANDS.
DownInTime ==
  (kind = "sentinel" /\ ~failed /\ pong = Detection) => sdown

\* The links of an instance, what is counted of them and what is concluded from them.
LinksRight == LinksThere /\ PendingExact /\ DownInTime

\* DownInTime of any instance: it is pinged as soon as its last reply is older than
\* the period, as the comment in sentinelSendPeriodicCommands says.
AnyDownInTime == (~failed /\ pong = Detection) => sdown

\* An instance is taken for down only when it was silent for the whole
\* down_after_period.
NoFalseDown == [][(~sdown /\ sdown') => silent' > DownAfter]_vars
=============================================================================
