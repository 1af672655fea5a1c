-------------------------- MODULE SentinelFailover --------------------------
(***************************************************************************)
(* One Sentinel of src/others/sentinel.c, the master it monitors and the   *)
(* slaves of that master: the instances as the Sentinel sees them, the     *)
(* failover state machine, and the Redis instances themselves, which run   *)
(* the SLAVEOF commands the Sentinel sends and say in INFO what they are.  *)
(*                                                                         *)
(* Whether the Sentinel wins the election is a choice here (SentinelVote   *)
(* models the votes), and so is whether a period has elapsed.  A command   *)
(* is sent over a link and may be lost with it, or run late: also after    *)
(* commands sent over the next link to the same instance.                  *)
(***************************************************************************)
EXTENDS Integers, FiniteSets, Sequences

CONSTANTS
  Addrs,          \* the addresses of the Redis instances
  FirstMaster,    \* the master of the configuration file; the others its slaves
  None,           \* NULL; as the argument of SLAVEOF: NO ONE
  Priority,       \* slave_priority of each instance
  Offset,         \* slave_repl_offset of each instance
  Runid,          \* the run id of each instance, as its rank
  ParallelSyncs,  \* master->parallel_syncs
  MaxFailovers,   \* bound on the failovers started
  MaxWire,        \* bound on the commands on their way to an instance
  MaxFaults       \* bound on instances stopping, links failing, resets, tilts, restarts

VARIABLES
  sen,      \* the Sentinel: the master's fields and its tables
  inst,     \* the Redis instances: running or not, and slave of whom
  wire,     \* the SLAVEOF commands on their way to an instance
  failovers, faults

vars == <<sen, inst, wire, failovers, faults>>

----------------------------------------------------------------------------
(* Instances.                                                              *)

States == {"none", "wait_start", "select_slave", "send_slaveof_noone",
           "wait_promotion", "reconf_slaves", "update_config"}

\* An instance as createSentinelRedisInstance leaves it.  reconf: which of the
\* flags SRI_RECONF_SENT, _INPROG, _DONE are set; seen: info_refresh is not 0.
NewInstance ==
  [disc |-> TRUE, sdown |-> FALSE, promoted |-> FALSE, reconf |-> {}, seen |-> FALSE]

\* A Sentinel just started with a configuration file: the instance of the master,
\* at address addr, and the table ri of those of its slaves.  twice is history: the
\* file named the master among its slaves.
Loaded(disk) ==
  [addr |-> disk.addr, slaves |-> disk.slaves,
   master |-> NewInstance, ri |-> [a \in Addrs |-> NewInstance],
   state |-> "none", forced |-> FALSE, promoted |-> None,
   role |-> "master", odown |-> FALSE, tilt |-> FALSE, disk |-> disk,
   twice |-> disk.addr \in disk.slaves]

Init ==
  /\ sen = Loaded([addr |-> FirstMaster, slaves |-> Addrs \ {FirstMaster}])
  /\ inst = [a \in Addrs |-> [up |-> TRUE, of |-> IF a = FirstMaster THEN None ELSE FirstMaster]]
  /\ wire = [a \in Addrs |-> <<>>]
  /\ failovers = 0 /\ faults = 0

\* sentinelFlushConfig: monitor is written with the address of the promoted slave
\* once it is a master, known-slave with the addresses in the table, that of the
\* promoted slave among them.
sentinelFlushConfig(s) ==
  [s EXCEPT !.disk = [addr |-> IF s.state = "reconf_slaves" THEN s.promoted ELSE s.addr,
                      slaves |-> s.slaves]]

Known(s) == s.slaves \cup {s.addr}

\* The links to the instances in as are closed, by sentinelKillLink or because
\* of an error: what was sent may still arrive.
Stale(as) == [a \in Addrs |-> IF a \in as THEN [i \in DOMAIN wire[a] |-> [wire[a][i] EXCEPT !.old = TRUE]]
                              ELSE wire[a]]

\* sentinelResetMaster, with the address the master has after it: every link is
\* closed and every instance but the master, which keeps its info_refresh, forgotten.
sentinelResetMaster(s, a) ==
  [s EXCEPT !.addr = a, !.slaves = {}, !.master = [NewInstance EXCEPT !.seen = s.master.seen],
            !.ri = [b \in Addrs |-> NewInstance], !.state = "none", !.forced = FALSE,
            !.promoted = None, !.role = "master", !.odown = FALSE, !.twice = FALSE]

\* sentinelResetMasterAndChangeAddress: the old master is a slave from now on.
sentinelResetMasterAndChangeAddress(s, a) ==
  sentinelFlushConfig([sentinelResetMaster(s, a) EXCEPT !.slaves = Known(s) \ {a}])

sentinelMasterLooksSane_NoRefresh(s) ==
  s.role = "master" /\ ~s.master.sdown /\ ~s.odown /\ ~s.master.seen

\* sentinelMasterLooksSane, for a recent INFO.
sentinelMasterLooksSane(s) ==
  s.role = "master" /\ ~s.master.sdown /\ ~s.odown /\ s.master.seen

----------------------------------------------------------------------------
(* The choice of the slave to promote.                                     *)

\* compareSlavesForPromotion: a comes before b.
Before(a, b) ==
  \/ Priority[a] < Priority[b]
  \/ /\ Priority[a] = Priority[b]
     /\ \/ Offset[a] > Offset[b]
        \/ Offset[a] = Offset[b] /\ Runid[a] < Runid[b]

\* Those of the slaves that sentinelSelectSlave considers; fresh are the ones
\* whose PONG and INFO are recent and whose link was not down for too long.
Suitable(s, fresh) ==
  {a \in s.slaves \cap fresh : /\ ~s.ri[a].sdown /\ ~s.ri[a].disc
                               /\ s.ri[a].seen /\ Priority[a] # 0}

sentinelSelectSlave(s, fresh) ==
  IF Suitable(s, fresh) = {} THEN None
  ELSE CHOOSE a \in Suitable(s, fresh) : \A b \in Suitable(s, fresh) \ {a} : Before(a, b)

----------------------------------------------------------------------------
(* The failover.                                                           *)

sentinelAbortFailover_KeepFlag(s) ==
  [s EXCEPT !.state = "none", !.forced = FALSE, !.promoted = None]

\* sentinelAbortFailover; the Sentinel stops tracking the slave it had chosen,
\* which may have been told to become a master.
sentinelAbortFailover(s) ==
  [s EXCEPT !.state = "none", !.forced = FALSE, !.promoted = None,
            !.ri = [a \in Addrs |-> IF a = s.promoted THEN [s.ri[a] EXCEPT !.promoted = FALSE]
                                    ELSE s.ri[a]]]

\* sentinelFailoverWaitStart.
WaitStart(s, elected, late) ==
  IF elected \/ s.forced THEN [s EXCEPT !.state = "select_slave"]
  ELSE IF late THEN sentinelAbortFailover(s) ELSE s

\* sentinelFailoverSelectSlave.
SelectSlave(s, fresh) ==
  LET a == sentinelSelectSlave(s, fresh)
  IN IF a = None THEN sentinelAbortFailover(s)
     ELSE [s EXCEPT !.ri[a].promoted = TRUE, !.promoted = a, !.state = "send_slaveof_noone"]

\* sentinelFailoverSendSlaveOfNoOne: the state after it, and whom SLAVEOF NO ONE
\* is sent to.
SendSlaveOfNoOne(s, late) ==
  IF ~s.ri[s.promoted].disc THEN [s EXCEPT !.state = "wait_promotion"]
  ELSE IF late THEN sentinelAbortFailover(s) ELSE s

ToldNoOne(s) ==
  IF s.state = "send_slaveof_noone" /\ ~s.ri[s.promoted].disc THEN {s.promoted} ELSE {}

WaitPromotion_NoTimeout(s, late) == s

\* sentinelFailoverWaitPromotion.
WaitPromotion(s, late) == IF late THEN sentinelAbortFailover(s) ELSE s

InProgress(s) == {a \in s.slaves : s.ri[a].reconf \cap {"sent", "inprog"} # {}}

\* One round of the loop of sentinelFailoverReconfNextSlave, for slave a; slow:
\* SRI_RECONF_SENT was set too long ago.  x.n is in_progress, x.told the slaves
\* SLAVEOF was sent to.
ReconfSlave(x, a, slow) ==
  LET r == x.s.ri[a]
      out == slow /\ "sent" \in r.reconf
      flags == IF out THEN (r.reconf \ {"sent"}) \cup {"done"} ELSE r.reconf
      send == ~r.disc /\ flags \cap {"sent", "inprog"} = {}
  IN IF x.n >= ParallelSyncs \/ r.promoted \/ "done" \in r.reconf THEN x
     ELSE [s |-> [x.s EXCEPT !.ri[a].reconf = IF send THEN flags \cup {"sent"} ELSE flags],
           n |-> IF send THEN x.n + 1 ELSE x.n,
           told |-> IF send THEN x.told \cup {a} ELSE x.told]

\* The orders a dictionary may have.
Orders(as) == {f \in [1..Cardinality(as) -> as] : \A a \in as : \E i \in DOMAIN f : f[i] = a}

\* The loop itself.
ReconfSlaves(s, order, slow) ==
  LET x[i \in 0..Len(order)] ==
        IF i = 0 THEN [s |-> s, n |-> Cardinality(InProgress(s)), told |-> {}]
        ELSE ReconfSlave(x[i - 1], order[i], order[i] \in slow)
  IN x[Len(order)]

\* sentinelFailoverDetectEnd.  The SLAVEOF commands it sends when it is late are
\* still in the buffers of the links when the switch that follows in the same
\* call of the timer frees the links: they do not reach the slaves.
DetectEnd(s, late) ==
  IF s.promoted = None \/ s.ri[s.promoted].sdown THEN s
  ELSE IF late \/ \A a \in s.slaves : \/ s.ri[a].promoted \/ s.ri[a].sdown
                                      \/ "done" \in s.ri[a].reconf
       THEN [s EXCEPT !.state = "update_config"] ELSE s

\* sentinelFailoverSwitchToPromotedSlave.
SwitchToPromotedSlave(s) ==
  IF s.state = "update_config" THEN sentinelResetMasterAndChangeAddress(s, s.promoted) ELSE s

\* sentinelFailoverStateMachine.
StateMachine(s, elected, late, fresh) ==
  CASE s.state = "wait_start" -> WaitStart(s, elected, late)
    [] s.state = "select_slave" -> SelectSlave(s, fresh)
    [] s.state = "send_slaveof_noone" -> SendSlaveOfNoOne(s, late)
    [] s.state = "wait_promotion" -> WaitPromotion(s, late)
    [] OTHER -> s

----------------------------------------------------------------------------
(* The timer.                                                              *)

\* sentinelReconnectInstance: connecting is asynchronous, it seldom fails at once.
Reconnected(r, ok) == [r EXCEPT !.disc = @ /\ ~ok]

\* sentinelCheckSubjectivelyDown of instance r at address a, when the periods it
\* looks at have elapsed; demoted: a master that reports to be a slave.
CheckSubjectivelyDown(r, a, demoted) == [r EXCEPT !.sdown = ~inst[a].up \/ r.disc \/ demoted]

\* sentinelCheckObjectivelyDown; agree: enough Sentinels said so.
CheckObjectivelyDown(s, agree) == [s EXCEPT !.odown = agree /\ s.master.sdown]

\* sentinelHandleRedisInstance for a slave; due: the periods have elapsed.
HandleSlave(a, ok, due) ==
  LET r == Reconnected(sen.ri[a], ok)
  IN /\ a \in sen.slaves
     /\ sen' = [sen EXCEPT !.ri[a] = IF due THEN CheckSubjectivelyDown(r, a, FALSE) ELSE r,
                           !.tilt = @ /\ ~due]
     /\ UNCHANGED <<inst, wire, failovers, faults>>

\* sentinelStartFailoverIfNeeded.
StartFailoverIfNeeded(s, due) ==
  IF s.odown /\ s.state = "none" /\ due /\ failovers < MaxFailovers
  THEN [s EXCEPT !.state = "wait_start"] ELSE s

\* SLAVEOF is put in the buffers of the links to the instances in as.
sentinelSendSlaveOf(as, target) ==
  [a \in Addrs |-> IF a \in as THEN Append(wire[a], [of |-> target, old |-> FALSE]) ELSE wire[a]]

\* The first part of sentinelHandleRedisInstance for the master.
MasterChecked(s, ok, due) ==
  LET r == Reconnected(s.master, ok)
  IN [s EXCEPT !.master = IF due THEN CheckSubjectivelyDown(r, s.addr, s.role = "slave") ELSE r,
               !.tilt = @ /\ ~due]

\* sentinelHandleRedisInstance for the master, in a state other than
\* reconf_slaves; in tilt mode nothing is done.
HandleMaster(ok, due) ==
  LET d == MasterChecked(sen, ok, due)
      told == ToldNoOne(d)
  IN /\ sen.state # "reconf_slaves"
     /\ UNCHANGED <<inst, faults>>
     /\ IF d.tilt THEN sen' = d /\ UNCHANGED <<wire, failovers>>
        ELSE \E agree \in {FALSE, d.master.sdown} :
               LET o == CheckObjectivelyDown(d, agree)
                   b == StartFailoverIfNeeded(o, due)
               IN /\ \A a \in told : Len(wire[a]) < MaxWire
                  /\ \E elected \in {FALSE, b.state = "wait_start"},
                        fresh \in SUBSET {a \in d.slaves : b.state = "select_slave"} :
                       sen' = StateMachine(b, elected, due, fresh)
                  /\ wire' = sentinelSendSlaveOf(told, None)
                  /\ failovers' = IF b.state # o.state THEN failovers + 1 ELSE failovers

\* The same in state reconf_slaves: sentinelFailoverReconfNextSlave and, when the
\* failover ends, the switch of sentinelHandleDictOfRedisInstances.
HandleMasterReconf(ok, due) ==
  LET d == MasterChecked(sen, ok, due)
  IN /\ sen.state = "reconf_slaves"
     /\ UNCHANGED <<inst, failovers, faults>>
     /\ IF d.tilt THEN sen' = d /\ UNCHANGED wire
        ELSE \E agree \in {FALSE, d.master.sdown}, slow \in SUBSET {a \in InProgress(d) : due}, order \in Orders(d.slaves) :
               LET x == ReconfSlaves(CheckObjectivelyDown(d, agree), order, slow)
                   e == DetectEnd(x.s, due)
               IN /\ \A a \in x.told : Len(wire[a]) < MaxWire
                  /\ sen' = SwitchToPromotedSlave(e)
                  /\ IF e.state = "update_config"
                     THEN wire' = Stale(Addrs)
                     ELSE wire' = sentinelSendSlaveOf(x.told, sen.promoted)

----------------------------------------------------------------------------
(* The replies to INFO.                                                    *)

\* The INFO of the master is answered and read by sentinelRefreshInstanceInfo,
\* which takes over its role and creates the slaves it did not know.
RefreshMasterInfo ==
  LET new == {b \in Addrs \ Known(sen) : inst[b] = [up |-> TRUE, of |-> sen.addr]}
  IN /\ ~sen.master.disc /\ inst[sen.addr].up
     /\ sen' = [sen EXCEPT !.master.seen = TRUE, !.slaves = @ \cup new,
                  !.ri = [b \in Addrs |-> IF b \in new THEN NewInstance ELSE sen.ri[b]],
                  !.role = IF inst[sen.addr].of = None THEN "master" ELSE "slave"]
     /\ UNCHANGED <<inst, wire, failovers, faults>>

\* SRI_RECONF_SENT, then SRI_RECONF_INPROG, then SRI_RECONF_DONE; up: the slave
\* says that its link to its master is up.
Reconfigured(s, a, up) ==
  LET r == s.ri[a].reconf
      f == IF "sent" \in r /\ inst[a].of = s.promoted THEN (r \ {"sent"}) \cup {"inprog"} ELSE r
  IN [s EXCEPT !.ri[a].reconf = IF "inprog" \in f /\ up THEN (f \ {"inprog"}) \cup {"done"} ELSE f]

\* The link of a slave to its master can be up only if there is a master there.
LinkMayBeUp(a) == inst[a].of # None /\ inst[inst[a].of] = [up |-> TRUE, of |-> None]

\* The INFO that sentinelSendPeriodicCommands has sent to a slave is answered, over a
\* link that works, and read by sentinelRefreshInstanceInfo.  waited: nothing has
\* changed for the time the Sentinel waits before it changes an instance's role.
\* That the reply is read at once is no restriction: it does not tell a command
\* that has been run since from one that is still on its way.
RefreshInstanceInfo(a, waited, up) ==
  LET s == [sen EXCEPT !.ri[a].seen = TRUE]
      acting == ~sen.tilt
      master == inst[a].of = None
      acked == acting /\ master /\ s.ri[a].promoted /\ s.state = "wait_promotion"
      convert == acting /\ master /\ ~s.ri[a].promoted
      fix == acting /\ ~master /\ inst[a].of # s.addr
      told == IF (convert \/ fix) /\ waited /\ sentinelMasterLooksSane(s) THEN {a} ELSE {}
  IN /\ a \in sen.slaves /\ ~sen.ri[a].disc /\ inst[a].up
     /\ up => LinkMayBeUp(a)
     /\ \A b \in told : Len(wire[b]) < MaxWire
     /\ sen' = CASE acked -> sentinelFlushConfig([s EXCEPT !.state = "reconf_slaves"])
                 [] acting /\ ~master -> Reconfigured(s, a, up)
                 [] OTHER -> s
     /\ wire' = sentinelSendSlaveOf(told, s.addr)
     /\ UNCHANGED <<inst, failovers, faults>>

----------------------------------------------------------------------------
(* Commands, and what other Sentinels say.                                 *)

\* SENTINEL FAILOVER.
FailoverCommand(fresh) ==
  /\ sen.state = "none" /\ failovers < MaxFailovers
  /\ sentinelSelectSlave(sen, fresh) # None
  /\ sen' = [sen EXCEPT !.state = "wait_start", !.forced = TRUE]
  /\ failovers' = failovers + 1
  /\ UNCHANGED <<inst, wire, faults>>

Fault == faults < MaxFaults /\ faults' = faults + 1

\* SENTINEL RESET.
ResetCommand ==
  /\ Fault
  /\ sen' = sentinelResetMaster(sen, sen.addr)
  /\ wire' = Stale(Addrs)
  /\ UNCHANGED <<inst, failovers>>

\* sentinelProcessHelloMessage: another Sentinel has promoted a.
Hello(a) ==
  /\ Fault /\ a # sen.addr /\ inst[a].up
  /\ inst' = [inst EXCEPT ![a].of = None]
  /\ sen' = sentinelResetMasterAndChangeAddress(sen, a)
  /\ wire' = Stale(Addrs)
  /\ UNCHANGED failovers

\* The configuration is written for other reasons as well: votes, SENTINEL SET.
FlushConfig ==
  /\ sen' = sentinelFlushConfig(sen)
  /\ UNCHANGED <<inst, wire, failovers, faults>>

\* The Sentinel is stopped and started again.
Restart ==
  /\ Fault
  /\ sen' = Loaded(sen.disk)
  /\ wire' = Stale(Addrs)
  /\ UNCHANGED <<inst, failovers>>

\* sentinelCheckTiltCondition: the clock jumped, or the process was stopped.
Tilt ==
  /\ Fault
  /\ sen' = [sen EXCEPT !.tilt = TRUE]
  /\ UNCHANGED <<inst, wire, failovers>>

----------------------------------------------------------------------------
(* Instances and links.                                                    *)

\* An instance runs a SLAVEOF: the first that came over the link there is, or
\* one that came over an earlier link.
RunSlaveOf(a, i) ==
  /\ inst[a].up /\ i \in DOMAIN wire[a]
  /\ wire[a][i].old \/ \A j \in 1..(i - 1) : wire[a][j].old
  /\ inst' = [inst EXCEPT ![a].of = wire[a][i].of]
  /\ wire' = [wire EXCEPT ![a] = SubSeq(@, 1, i - 1) \o SubSeq(@, i + 1, Len(@))]
  /\ UNCHANGED <<sen, failovers, faults>>

\* A command sent over a link that has failed may never arrive.
Lost(a, i) ==
  /\ i \in DOMAIN wire[a] /\ wire[a][i].old
  /\ wire' = [wire EXCEPT ![a] = SubSeq(@, 1, i - 1) \o SubSeq(@, i + 1, Len(@))]
  /\ UNCHANGED <<sen, inst, failovers, faults>>

\* sentinelDisconnectCallback, or the links are killed for being idle.
LinkFails(a) ==
  /\ Fault /\ a \in sen.slaves /\ ~sen.ri[a].disc
  /\ sen' = [sen EXCEPT !.ri[a].disc = TRUE]
  /\ wire' = Stale({a})
  /\ UNCHANGED <<inst, failovers>>

MasterLinkFails ==
  /\ Fault /\ ~sen.master.disc
  /\ sen' = [sen EXCEPT !.master.disc = TRUE]
  /\ UNCHANGED <<inst, wire, failovers>>

Stops(a) ==
  /\ Fault /\ inst[a].up
  /\ inst' = [inst EXCEPT ![a].up = FALSE]
  /\ sen' = [sen EXCEPT !.ri[a].disc = TRUE, !.master.disc = @ \/ a = sen.addr]
  /\ wire' = [wire EXCEPT ![a] = <<>>]
  /\ UNCHANGED failovers

\* The role of an instance survives in its configuration file: SLAVEOF is sent
\* with a CONFIG REWRITE.
Starts(a) ==
  /\ ~inst[a].up
  /\ inst' = [inst EXCEPT ![a].up = TRUE]
  /\ UNCHANGED <<sen, wire, failovers, faults>>

Next ==
  \/ \E ok, due \in BOOLEAN : \/ HandleMaster(ok, due)
                             \/ HandleMasterReconf(ok, due)
                             \/ \E a \in Addrs : HandleSlave(a, ok, due)
  \/ \E a \in Addrs : \/ \E waited, up \in BOOLEAN : RefreshInstanceInfo(a, waited, up)
                       \/ Hello(a) \/ LinkFails(a) \/ Stops(a) \/ Starts(a)
                       \/ \E i \in 1..MaxWire : RunSlaveOf(a, i) \/ Lost(a, i)
  \/ \E fresh \in SUBSET sen.slaves : FailoverCommand(fresh)
  \/ RefreshMasterInfo \/ MasterLinkFails
  \/ ResetCommand \/ FlushConfig \/ Restart \/ Tilt

\* The timer goes on and its periods elapse; an instance that runs answers and
\* reads what it was sent; and the Sentinel goes on reading INFO, also after the
\* time it waits before it acts on what it reads.
Fairness ==
  /\ WF_vars(HandleMaster(TRUE, TRUE)) /\ WF_vars(HandleMasterReconf(TRUE, TRUE))
  /\ WF_vars(RefreshMasterInfo)
  /\ \A a \in Addrs : /\ WF_vars(HandleSlave(a, TRUE, TRUE))
                       /\ WF_vars(RefreshInstanceInfo(a, TRUE, FALSE))
                       /\ WF_vars(\E i \in 1..MaxWire : RunSlaveOf(a, i))

Spec == Init /\ [][Next]_vars /\ Fairness

----------------------------------------------------------------------------

\* promoted_slave points to a slave in the table exactly from the choice of it to
\* the end of the failover, that slave is the only one flagged SRI_PROMOTED, and
\* the pointer is there as long as sentinelRefreshInstanceInfo may follow it for
\* a slave that was sent its new master.  The master is none of its own slaves,
\* unless the Sentinel was restarted with a file written between a promotion and the
\* switch (the history field twice): line 1547 of sentinel.c writes the address of
\* the promoted slave as monitor and as known-slave, against the comment at 1539.
PromotedSlave ==
  /\ sen.slaves \subseteq Addrs /\ sen.promoted \in sen.slaves \cup {None}
  /\ sen.addr \in sen.slaves => sen.twice
  /\ (sen.promoted # None) <=> (sen.state \in {"send_slaveof_noone", "wait_promotion", "reconf_slaves"})
  /\ \A a \in Addrs : sen.ri[a].promoted <=> a = sen.promoted
  /\ InProgress(sen) # {} => sen.promoted # None

\* A failover that was started ends, with the switch or by being given up, or
\* else the slave that was promoted is down and stays so: DetectEnd waits for it.
FailoverEnds ==
  (sen.state # "none") ~> (sen.state = "none" \/ (sen.promoted # None /\ sen.ri[sen.promoted].sdown))

Configured == \A a \in sen.slaves \ {sen.addr} : inst[a].up => inst[a].of = sen.addr

\* Once the master stays up as a master, the slaves that run come to replicate
\* from it whatever happened before: aborted failovers that left a second master,
\* commands that arrived late, other Sentinels' switches.
EventuallyConfigured ==
  <>[](inst[sen.addr] = [up |-> TRUE, of |-> None]) => []<>Configured
=============================================================================
