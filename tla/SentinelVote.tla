---------------------------- MODULE SentinelVote ----------------------------
(***************************************************************************)
(* How the Sentinels of src/others/sentinel.c agree on who fails over a    *)
(* master and on where the master is: epochs, votes, the election, the     *)
(* gossip of configurations, and what survives a restart.  What the        *)
(* elected Sentinel does to the Redis instances is not detailed: the       *)
(* states from select_slave to wait_promotion are one, "elected", and      *)
(* those from reconf_slaves to update_config are one, "reconf_slaves".     *)
(* SENTINEL FAILOVER, which takes no vote, is left out.                    *)
(*                                                                         *)
(* Time and availability are choices of the handlers that read them: when  *)
(* a timer has expired, and when enough Sentinels see the master down (in  *)
(* the words of the code "a weak quorum", without any guarantee).          *)
(* Requests and votes stay in the model once they are sent, and a handler  *)
(* acts on any of them: requests and replies may be late, repeated, lost.  *)
(***************************************************************************)
EXTENDS Integers, FiniteSets

CONSTANTS
  Sentinels,      \* they all know each other
  Nobody,         \* the NULL leader, and the runid "*"
  Addrs,          \* the addresses of the Redis instances
  FirstMaster,    \* the address every Sentinel is configured with
  Promotable,     \* the instances whose slave_priority is not 0
  Quorum,         \* master->quorum
  Seeing,         \* the Sentinels that may see the master objectively down
  Restarting,     \* the Sentinels that may be restarted
  MaxEpoch,       \* bound on sentinel.current_epoch
  MaxRestarts     \* bound on the restarts of Sentinels

ASSUME NobodyAssumption == Nobody \notin Sentinels
ASSUME AddrAssumption == FirstMaster \in Addrs /\ Promotable \subseteq Addrs
ASSUME QuorumAssumption == Quorum \in Nat /\ MaxEpoch \in Nat /\ MaxRestarts \in Nat
ASSUME FiniteAssumption == IsFiniteSet(Sentinels) /\ Seeing \cup Restarting \subseteq Sentinels

VARIABLES
  sen,        \* the state of each Sentinel about the master
  asks,       \* the requests for votes sent
  votes,      \* the votes given, and told in the replies
  elected,    \* history: the elections won
  mixed,      \* history: the epochs of configurations taken over without their address
  restarts

vars == <<sen, asks, votes, elected, mixed, restarts>>

----------------------------------------------------------------------------
(* The state of a Sentinel.                                                *)

States == {"none", "wait_start", "elected", "reconf_slaves"}

Config == [epoch : Nat, addr : Addrs, cfg : Nat, leaderEpoch : Nat]

\* sentinelGetCurrentMasterAddress: the promoted slave once it is a master.
CurrentMasterAddress(r) == IF r.state = "reconf_slaves" THEN r.promoted ELSE r.addr

sentinelFlushConfig_OldAddress(r) ==
  [r EXCEPT !.disk = [epoch |-> r.epoch, addr |-> r.addr,
                      cfg |-> r.cfg, leaderEpoch |-> r.leaderEpoch]]

\* rewriteConfigSentinelOption, followed by an fsync.
sentinelFlushConfig(r) ==
  [r EXCEPT !.disk = [epoch |-> r.epoch, addr |-> CurrentMasterAddress(r),
                      cfg |-> r.cfg, leaderEpoch |-> r.leaderEpoch]]

\* A master instance as createSentinelRedisInstance makes it, with what the
\* configuration file says.
Loaded(disk) ==
  [epoch |-> IF disk.cfg > disk.epoch THEN disk.cfg ELSE disk.epoch,
   addr |-> disk.addr, cfg |-> disk.cfg, leader |-> Nobody, leaderEpoch |-> disk.leaderEpoch,
   state |-> "none", failoverEpoch |-> 0, promoted |-> disk.addr,
   recent |-> FALSE, disk |-> disk]

Others(s) == Sentinels \ {s}

Init ==
  /\ sen = [s \in Sentinels |->
        Loaded([epoch |-> 0, addr |-> FirstMaster, cfg |-> 0, leaderEpoch |-> 0])]
  /\ asks = {} /\ votes = {} /\ elected = {} /\ mixed = {} /\ restarts = 0

----------------------------------------------------------------------------
(* Voting.                                                                 *)

\* A request with a newer epoch first moves the current epoch.
NewEpoch(r, e) == IF e > r.epoch THEN sentinelFlushConfig([r EXCEPT !.epoch = e]) ELSE r

MayVote_Again(r, e) == r.leaderEpoch <= e /\ r.epoch <= e

MayVote(r, e) == r.leaderEpoch < e /\ r.epoch <= e

\* sentinelVoteLeader: Sentinel s, in state r, is asked to vote for c in epoch
\* e.  A vote for another Sentinel delays a failover of its own.
sentinelVoteLeader(r, s, e, c) ==
  LET n == NewEpoch(r, e)
  IN IF MayVote(n, e)
     THEN sentinelFlushConfig([n EXCEPT !.leader = c, !.leaderEpoch = n.epoch,
                                        !.recent = @ \/ c # s])
     ELSE n

\* The vote that took Sentinel s from state old to state new, if one did.
VoteOf(s, old, new) ==
  IF new.leaderEpoch > old.leaderEpoch
  THEN {[by |-> s, leader |-> new.leader, epoch |-> new.leaderEpoch]} ELSE {}

\* The votes of the others that the table of Sentinels of s may hold for the
\* epoch it counts, once it has asked: sentinelGetLeader counts the current one.
Heard(r, s) ==
  SUBSET {v \in votes : /\ v.by # s /\ v.epoch = r.epoch
                        /\ \E q \in asks : q.from = s /\ q.epoch = v.epoch}

VotesFor(heard, c) == Cardinality({v \in heard : v.leader = c})

\* The possible values of winner before the vote of s itself is counted: the
\* order of the dictionary decides between equals.
Leading(heard) ==
  IF heard = {} THEN {Nobody}
  ELSE {c \in Sentinels : \A d \in Sentinels : VotesFor(heard, c) >= VotesFor(heard, d)}

IsLeader_AnyNumber(r, n, heard, s, w) ==
  n.leader = s /\ n.leaderEpoch = r.failoverEpoch

\* sentinelGetLeader says that s, in state r before and n after its own vote,
\* and with w leading among the others, is the leader.
IsLeader(r, n, heard, s, w) ==
  LET counted == n.leader # Nobody /\ n.leaderEpoch = r.failoverEpoch
      mine == VotesFor(heard, n.leader) + 1
      most == VotesFor(heard, w)
      overtakes == counted /\ mine > most
      winner == IF overtakes THEN n.leader ELSE w
      max == IF overtakes THEN mine ELSE most
  IN /\ winner = s
     /\ max >= (Cardinality(Sentinels) \div 2) + 1
     /\ max >= Quorum

----------------------------------------------------------------------------
(* The timer.                                                              *)

\* sentinelStartFailover: the new epoch is not saved here.
sentinelStartFailover(r) ==
  [r EXCEPT !.state = "wait_start", !.epoch = @ + 1, !.failoverEpoch = r.epoch + 1,
            !.recent = TRUE]

sentinelStartFailoverIfNeeded(r, odown) ==
  IF odown /\ r.state = "none" /\ ~r.recent /\ r.epoch < MaxEpoch
  THEN sentinelStartFailover(r) ELSE r

\* failover_epoch is only read while a failover is in progress: it is 0 when
\* there is none.
sentinelAbortFailover(r) == [r EXCEPT !.state = "none", !.failoverEpoch = 0]

sentinelResetMasterAndChangeAddress(r, a) ==
  sentinelFlushConfig([r EXCEPT !.addr = a, !.leader = Nobody, !.state = "none",
                                !.failoverEpoch = 0,
                                !.promoted = a, !.recent = FALSE])

\* sentinelFailoverWaitStart: s votes, and goes on if it is the leader; when the
\* election has timed out it gives up.
sentinelFailoverWaitStart(r, heard, s, w, late) ==
  LET n == sentinelVoteLeader(r, s, r.failoverEpoch, IF w = Nobody THEN s ELSE w)
  IN IF IsLeader(r, n, heard, s, w)
     THEN [n EXCEPT !.state = "elected"]
     ELSE IF late THEN sentinelAbortFailover(n) ELSE n

\* sentinelFailoverStateMachine and, last, the switch of
\* sentinelHandleDictOfRedisInstances.  late: a timer of the state has expired.
sentinelFailoverStateMachine(r, heard, s, w, late) ==
  CASE r.state = "wait_start" -> sentinelFailoverWaitStart(r, heard, s, w, late)
    [] r.state = "elected" /\ late -> sentinelAbortFailover(r)
    [] r.state = "reconf_slaves" /\ late -> sentinelResetMasterAndChangeAddress(r, r.promoted)
    [] OTHER -> r

\* sentinelAskMasterStateToOtherSentinels, which asks for votes during a failover.
Asked(r, s) == IF r.state = "none" THEN {} ELSE {[from |-> s, addr |-> r.addr, epoch |-> r.epoch]}

\* sentinelHandleRedisInstance for the master.  due: the master is objectively
\* down or, in the course of a failover, the timer of the state has expired.
sentinelTimer(s) ==
  \E due \in BOOLEAN :
    LET b == sentinelStartFailoverIfNeeded(sen[s], due /\ s \in Seeing)
        late == due /\ sen[s].state # "none"
    IN \E heard \in IF b.state = "wait_start" THEN Heard(b, s) ELSE {{}} : \E w \in Leading(heard) :
         LET c == sentinelFailoverStateMachine(b, heard, s, w, late)
             won == b.state = "wait_start" /\ c.state = "elected"
         IN /\ sen' = [sen EXCEPT ![s] = c]
            /\ asks' = asks \cup Asked(c, s)
            /\ votes' = votes \cup VoteOf(s, b, c)
            /\ elected' = elected \cup
                 (IF won THEN {[by |-> s, epoch |-> b.failoverEpoch,
                                clean |-> b.epoch = b.failoverEpoch]} ELSE {})
            /\ UNCHANGED <<mixed, restarts>>

\* Twice failover_timeout has passed since failover_start_time.
DelayOver(s) ==
  /\ sen[s].recent
  /\ sen' = [sen EXCEPT ![s].recent = FALSE]
  /\ UNCHANGED <<asks, votes, elected, mixed, restarts>>

----------------------------------------------------------------------------
(* Messages and commands.                                                  *)

\* sentinelCommand, is-master-down-by-addr: t votes for the sender of q, if it
\* knows the master and has not voted, and answers with the vote it has given.
IsMasterDownByAddr(q, t) ==
  LET r == sentinelVoteLeader(sen[t], t, q.epoch, q.from)
  IN /\ q.from # t /\ q.addr = sen[t].addr
     /\ sen' = [sen EXCEPT ![t] = r]
     /\ votes' = votes \cup VoteOf(t, sen[t], r)
     /\ UNCHANGED <<asks, elected, mixed, restarts>>

\* A configuration with a newer epoch replaces the one of the receiver.
Newer(r, a, cfg) ==
  IF r.cfg < cfg
  THEN LET n == [r EXCEPT !.cfg = cfg]
       IN IF a # r.addr THEN sentinelResetMasterAndChangeAddress(n, a) ELSE n
  ELSE r

\* The epoch of the configuration h that took the Sentinel from state old to new,
\* if the address it publishes afterwards is not that of h.
MixedBy(h, old, new) ==
  IF new.cfg > old.cfg /\ CurrentMasterAddress(new) # CurrentMasterAddress(h) THEN {h.cfg} ELSE {}

\* sentinelProcessHelloMessage: t receives what s publishes.
sentinelProcessHelloMessage(s, t) ==
  LET h == sen[s]
      r == Newer(NewEpoch(sen[t], h.epoch), CurrentMasterAddress(h), h.cfg)
  IN /\ s # t /\ r # sen[t]
     /\ sen' = [sen EXCEPT ![t] = r]
     /\ mixed' = mixed \cup MixedBy(h, sen[t], r)
     /\ UNCHANGED <<asks, votes, elected, restarts>>

\* sentinelRefreshInstanceInfo: the slave selected by s says that it is a master.
Promoted(s, i) ==
  /\ sen[s].state = "elected" /\ i \in Promotable \ {sen[s].addr}
  /\ sen' = [sen EXCEPT ![s] = sentinelFlushConfig(
        [@ EXCEPT !.cfg = sen[s].failoverEpoch, !.state = "reconf_slaves", !.promoted = i])]
  /\ UNCHANGED <<asks, votes, elected, mixed, restarts>>

\* The process of s dies and is started again with its configuration file.
Restart(s) ==
  /\ s \in Restarting /\ restarts < MaxRestarts
  /\ restarts' = restarts + 1
  /\ sen' = [sen EXCEPT ![s] = Loaded(@.disk)]
  /\ asks' = {q \in asks : q.from # s}
  /\ UNCHANGED <<votes, elected, mixed>>

Next ==
  \/ \E s \in Sentinels : \/ sentinelTimer(s)
                          \/ DelayOver(s)
                          \/ Restart(s)
                          \/ \E i \in Addrs : Promoted(s, i)
  \/ \E q \in asks, t \in Sentinels : IsMasterDownByAddr(q, t)
  \/ \E s, t \in Sentinels : sentinelProcessHelloMessage(s, t)

Spec == Init /\ [][Next]_vars

----------------------------------------------------------------------------

\* The fields have their types, and no vote and no configuration carries an
\* epoch the Sentinel has not reached: current_epoch is moved first, in
\* sentinelVoteLeader and in sentinelProcessHelloMessage.
TypeOK ==
  /\ \A s \in Sentinels :
       /\ sen[s].epoch \in 0..MaxEpoch /\ sen[s].addr \in Addrs /\ sen[s].state \in States
       /\ sen[s].leader \in Sentinels \cup {Nobody}
       /\ sen[s].leaderEpoch <= sen[s].epoch /\ sen[s].cfg <= sen[s].epoch
       /\ sen[s].disk \in Config
  /\ restarts \in 0..MaxRestarts

\* A Sentinel votes at most once in an epoch, and in no epoch before one it
\* voted in, whatever restarts come between: the vote is only ever forgotten.
VoteIsFinal ==
  [][\A s \in Sentinels :
       \/ sen'[s].leaderEpoch > sen[s].leaderEpoch
       \/ sen'[s].leaderEpoch = sen[s].leaderEpoch /\ sen'[s].leader \in {sen[s].leader, Nobody}]_vars

\* Two Sentinels never both win the failover of one epoch: what the comment
\* over sentinelGetLeader requires of a leader, the votes of a majority for the
\* same epoch.
OneLeaderPerEpoch ==
  \A x, y \in elected :
     (x.epoch = y.epoch) => x.by = y.by

\* The elections in which the epoch the others' votes are counted for
\* (current_epoch) was the epoch of the failover (failover_epoch) have one
\* winner per epoch: sentinelGetLeader wants a majority, and nobody votes twice.
CleanLeader ==
  \A x, y \in elected :
     (x.epoch = y.epoch /\ x.clean /\ y.clean) => x.by = y.by

\* Somebody won epoch e with votes of another epoch.
Contested(e) == \E x \in elected : x.epoch = e /\ ~x.clean

\* Sentinels whose configurations of the master have the same epoch agree on
\* its address, through promotions, hellos and restarts: config_epoch is the
\* failover_epoch of an election, and the address flushed is the promoted one.
\* Left out are the epochs that were won with votes of another, and those that a
\* Sentinel which was still reconfiguring slaves took over without the address:
\* sentinelProcessHelloMessage compares it with master->addr, and what is
\* published at that time is the address of the promoted slave.
ConfigAgreement ==
  \A s, t \in Sentinels :
     (sen[s].cfg = sen[t].cfg /\ ~Contested(sen[s].cfg) /\ sen[s].cfg \notin mixed) =>
        CurrentMasterAddress(sen[s]) = CurrentMasterAddress(sen[t])
=============================================================================
