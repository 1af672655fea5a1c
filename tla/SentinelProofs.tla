--------------------------- MODULE SentinelProofs ---------------------------
(***************************************************************************)
(* Proofs about SentinelVote, for any number of Sentinels, epochs and      *)
(* restarts: a Sentinel votes once in an epoch, the elections counted in   *)
(* their own epoch have one winner, and configurations with the same epoch *)
(* have the same address.                                                  *)
(***************************************************************************)
EXTENDS SentinelLemmas

----------------------------------------------------------------------------
(* The actions.                                                            *)

LEMMA InitHolds == Init => IInv
<1> SUFFICES ASSUME Init PROVE IInv OBVIOUS
<1> DEFINE d == [epoch |-> 0, addr |-> FirstMaster, cfg |-> 0, leaderEpoch |-> 0]
           i == [epoch |-> 0, addr |-> FirstMaster, cfg |-> 0, leader |-> Nobody,
                 leaderEpoch |-> 0, state |-> "none", failoverEpoch |-> 0,
                 promoted |-> FirstMaster, recent |-> FALSE, disk |-> d]
<1>1. Loaded(d) = i BY DEF Loaded
<1>2. sen = [s \in Sentinels |-> i] /\ asks = {} /\ votes = {} /\ elected = {} /\ restarts = 0
  BY <1>1 DEF Init
<1>3. d \in Config BY AddrAssumption DEF Config
<1>4. i \in Sen BY <1>3, AddrAssumption DEF Sen, States
<1>5. Ok(i) BY <1>4, QuorumAssumption DEF Ok
<1>6. /\ i.cfg = 0 /\ i.addr = FirstMaster /\ i.disk.cfg = 0 /\ i.disk.addr = FirstMaster
      /\ i.state = "none" /\ i.leader = Nobody
  OBVIOUS
<1>7. Said(i) = {[cfg |-> 0, addr |-> FirstMaster]} BY <1>6 DEF Said, CurrentMasterAddress
<1> HIDE DEF i
<1>8. \A s \in Sentinels : sen[s] = i BY <1>2
<1>9. \A k \in Known : k = [cfg |-> 0, addr |-> FirstMaster] BY <1>7, <1>8 DEF Known
<1>10. SenOK BY <1>2, <1>4, <1>5 DEF SenOK
<1>11. AsksOK /\ VotesOK /\ ElectedOK BY <1>2, <1>6, <1>8 DEF AsksOK, VotesOK, ElectedOK
<1>12. WonOnce BY <1>2, <1>6, <1>8 DEF WonOnce
<1>13. KnownOK BY <1>2, <1>6, <1>8, <1>9 DEF KnownOK
<1> QED BY <1>2, <1>10, <1>11, <1>12, <1>13, QuorumAssumption DEF IInv

\* A step of t in which it does not vote, wins nothing and says nothing new.
LEMMA QuietStep ==
  ASSUME IInv, NEW t \in Sentinels, NEW n, Keeps(sen[t], n), Quiet(sen[t], n),
         sen' = [sen EXCEPT ![t] = n], UNCHANGED <<votes, elected, mixed>>,
         AsksOK', restarts' \in 0..MaxRestarts
  PROVE  IInv'
<1>1. SenOK' BY Zenon, SenStep DEF IInv, Keeps
<1>2. VotesOK' BY Zenon, NoVoteStep DEF IInv, Keeps
<1>3. ElectedOK' BY ElectedStep DEF IInv
<1>4. WonOnce' BY Zenon, WonStep DEF IInv, Keeps, Goes, GoesOn
<1>5. KnownOK'
  <2>1. \A k \in Said(n) : k \in Known BY DEF Keeps, Known
  <2>2. n.state = "elected" => sen[t].state = "elected" /\ n.failoverEpoch = sen[t].failoverEpoch
    BY DEF Keeps, Goes
  <2> QED BY Zenon, <2>1, <2>2, KnownStep DEF IInv, Keeps
<1> QED BY <1>1, <1>2, <1>3, <1>4, <1>5 DEF IInv

LEMMA DelayKeeps ==
  ASSUME IInv, NEW s \in Sentinels, DelayOver(s)
  PROVE  IInv'
<1>1. PICK n : n = [sen[s] EXCEPT !.recent = FALSE] BY Zenon
<1>2. Ok(sen[s]) /\ sen[s] \in Sen BY DEF IInv, SenOK, Ok
<1>3. /\ n \in Sen /\ n.epoch = sen[s].epoch /\ n.addr = sen[s].addr /\ n.cfg = sen[s].cfg
      /\ n.leader = sen[s].leader /\ n.leaderEpoch = sen[s].leaderEpoch /\ n.state = sen[s].state
      /\ n.failoverEpoch = sen[s].failoverEpoch /\ n.promoted = sen[s].promoted /\ n.disk = sen[s].disk
  BY Zenon, <1>1, <1>2 DEF Sen
<1>4. CurrentMasterAddress(n) = CurrentMasterAddress(sen[s]) BY SMTT(30), <1>3 DEF CurrentMasterAddress
<1>5. Ok(n) /\ n.disk.epoch \in Nat BY SMTT(30), <1>2, <1>3 DEF Ok, Sen, Config
<1>6. Keeps(sen[s], n) BY <1>3, <1>4, <1>5 DEF Keeps, Goes, Said
<1>7. Quiet(sen[s], n) BY <1>3 DEF Quiet
<1>8. sen' = [sen EXCEPT ![s] = n] /\ UNCHANGED <<asks, votes, elected, mixed, restarts>>
  BY <1>1 DEF DelayOver
<1>9. AsksOK' /\ restarts' \in 0..MaxRestarts BY <1>8 DEF IInv, AsksOK
<1> QED BY Zenon, <1>6, <1>7, <1>8, <1>9, QuietStep

LEMMA RestartKeeps ==
  ASSUME IInv, NEW s \in Sentinels, Restart(s)
  PROVE  IInv'
<1>1. PICK n : n = Loaded(sen[s].disk) OBVIOUS
<1>2. Ok(sen[s]) BY DEF IInv, SenOK
<1>3. Keeps(sen[s], n) /\ Quiet(sen[s], n) BY <1>1, <1>2, LoadedKeeps
<1>4. sen' = [sen EXCEPT ![s] = n] /\ UNCHANGED <<votes, elected, mixed>> BY <1>1 DEF Restart
<1>5. AsksOK' BY DEF Restart, IInv, AsksOK
<1>6. restarts' \in 0..MaxRestarts BY QuorumAssumption DEF Restart, IInv
<1> QED BY Zenon, <1>3, <1>4, <1>5, <1>6, QuietStep

\* A step of t in which it votes if its leader_epoch has changed.
LEMMA VotesAfter ==
  ASSUME SenOK, VotesOK, NEW t \in Sentinels, NEW n, Ok(n), sen' = [sen EXCEPT ![t] = n],
         NEW b, b.leaderEpoch = sen[t].leaderEpoch,
         votes' = votes \cup VoteOf(t, b, n),
         \/ n.leaderEpoch = sen[t].leaderEpoch /\ n.leader \in {sen[t].leader, Nobody}
         \/ n.leaderEpoch > sen[t].leaderEpoch /\ n.leader \in Sentinels
  PROVE  VotesOK' /\ votes \subseteq votes'
<1>1. n.leaderEpoch \in Nat /\ sen[t].leaderEpoch \in Nat BY DEF SenOK, Ok, Sen
<1>2. CASE n.leaderEpoch = sen[t].leaderEpoch /\ n.leader \in {sen[t].leader, Nobody}
  <2>1. votes' = votes BY <1>1, <1>2 DEF VoteOf
  <2> QED BY Zenon, <1>2, <2>1, NoVoteStep DEF Quiet
<1>3. CASE n.leaderEpoch > sen[t].leaderEpoch /\ n.leader \in Sentinels
  <2>1. votes' = votes \cup {Vote(t, n.leader, n.leaderEpoch)} BY <1>1, <1>3 DEF VoteOf, Vote
  <2> QED BY Zenon, <1>3, <2>1, VoteStep
<1> QED BY <1>2, <1>3

LEMMA RequestKeeps ==
  ASSUME IInv, NEW q \in asks, NEW t \in Sentinels, IsMasterDownByAddr(q, t)
  PROVE  IInv'
<1>1. q.from \in Sentinels /\ q.epoch \in 0..MaxEpoch BY DEF IInv, AsksOK
<1>2. PICK n : n = sentinelVoteLeader(sen[t], t, q.epoch, q.from) OBVIOUS
<1>3. Ok(sen[t]) BY DEF IInv, SenOK
<1>4. /\ Keeps(sen[t], n)
      /\ \/ n.leaderEpoch = sen[t].leaderEpoch /\ n.leader = sen[t].leader
         \/ n.leaderEpoch > sen[t].leaderEpoch /\ n.leader = q.from
  BY SMTT(30), <1>1, <1>2, <1>3, VoteKeeps
<1>5. /\ sen' = [sen EXCEPT ![t] = n] /\ votes' = votes \cup VoteOf(t, sen[t], n)
      /\ UNCHANGED <<asks, elected, mixed, restarts>>
  BY <1>2 DEF IsMasterDownByAddr
<1>6. SenOK' BY Zenon, <1>4, <1>5, SenStep DEF IInv, Keeps
<1>7. VotesOK' /\ votes \subseteq votes'
  <2>1. \/ n.leaderEpoch = sen[t].leaderEpoch /\ n.leader \in {sen[t].leader, Nobody}
        \/ n.leaderEpoch > sen[t].leaderEpoch /\ n.leader \in Sentinels
    BY <1>1, <1>4
  <2> QED BY Zenon, <1>4, <1>5, <2>1, VotesAfter DEF IInv, Keeps
<1>8. ElectedOK' BY <1>5, <1>7, ElectedStep DEF IInv
<1>9. WonOnce' BY Zenon, <1>4, <1>5, WonStep DEF IInv, Keeps, Goes, GoesOn
<1>10. KnownOK'
  <2>1. \A k \in Said(n) : k \in Known BY <1>4 DEF Keeps, Known
  <2>2. n.state = "elected" => sen[t].state = "elected" /\ n.failoverEpoch = sen[t].failoverEpoch
    BY <1>4 DEF Keeps, Goes
  <2> QED BY Zenon, <1>4, <1>5, <2>1, <2>2, KnownStep DEF IInv, Keeps
<1>11. AsksOK' /\ restarts' \in 0..MaxRestarts BY <1>5 DEF IInv, AsksOK
<1> QED BY <1>6, <1>7, <1>8, <1>9, <1>10, <1>11 DEF IInv

LEMMA HelloKeeps ==
  ASSUME IInv, NEW s \in Sentinels, NEW t \in Sentinels, sentinelProcessHelloMessage(s, t)
  PROVE  IInv'
<1> DEFINE h == sen[s]
<1>1. Ok(sen[t]) /\ Ok(h) /\ h \in Sen BY SMTT(30) DEF IInv, SenOK, Ok
<1>2. h.epoch \in 0..MaxEpoch /\ h.cfg \in Nat /\ h.cfg <= h.epoch /\ CurrentMasterAddress(h) \in Addrs
  BY <1>1 DEF Ok, Sen, CurrentMasterAddress
<1>3. PICK m : m = NewEpoch(sen[t], h.epoch) OBVIOUS
<1>4. PICK n : n = Newer(m, CurrentMasterAddress(h), h.cfg) BY SMTT(30)
<1>5. /\ Keeps(sen[t], m) /\ Quiet(sen[t], m) /\ m.cfg = sen[t].cfg
      /\ m.epoch = IF h.epoch > sen[t].epoch THEN h.epoch ELSE sen[t].epoch
  BY SMTT(30), <1>1, <1>2, <1>3, NewEpochKeeps
<1>6. Ok(m) /\ h.cfg <= m.epoch
  BY SMTT(30), <1>1, <1>2, <1>5 DEF Keeps, Ok, Sen
<1>7. /\ Ok(n) /\ n.disk.epoch >= m.disk.epoch /\ Goes(m, n) /\ Quiet(m, n)
      /\ \A k \in Said(n) : \/ k \in Said(m)
                            \/ k = [cfg |-> h.cfg, addr |-> CurrentMasterAddress(h)]
                            \/ /\ h.cfg > m.cfg /\ n.cfg = h.cfg
                               /\ CurrentMasterAddress(n) # CurrentMasterAddress(h)
                               /\ k.cfg = h.cfg
  <2>1. PICK a : a = CurrentMasterAddress(h) BY Zenon
  <2>2. PICK g : g = h.cfg BY Zenon
  <2>3. a \in Addrs /\ g \in Nat /\ g <= m.epoch /\ n = Newer(m, a, g) /\ Ok(m)
    BY Zenon, <1>2, <1>4, <1>6, <2>1, <2>2
  <2>4. /\ Ok(n) /\ n.disk.epoch >= m.disk.epoch /\ Goes(m, n) /\ Quiet(m, n)
        /\ \A k \in Said(n) : \/ k \in Said(m)
                              \/ k = [cfg |-> g, addr |-> a]
                              \/ /\ g > m.cfg /\ n.cfg = g /\ CurrentMasterAddress(n) # a
                                 /\ k.cfg = g
    BY SMTT(60), <2>3, NewerKeeps
  <2> QED BY ZenonT(60), <2>1, <2>2, <2>4
<1>8. /\ sen' = [sen EXCEPT ![t] = n] /\ mixed' = mixed \cup MixedBy(h, sen[t], n)
      /\ UNCHANGED <<asks, votes, elected, restarts>>
  BY SMTT(30), <1>3, <1>4 DEF sentinelProcessHelloMessage
<1>20. Ok(n) /\ n.disk.epoch >= m.disk.epoch /\ Goes(m, n) BY Zenon, <1>7
<1>21. Keeps(sen[t], m) BY Zenon, <1>5
<1>9. n.disk.epoch >= sen[t].disk.epoch
  <2>1. m.disk.epoch >= sen[t].disk.epoch BY SMTT(30), <1>21 DEF Keeps
  <2>2. n.disk.epoch \in Nat /\ m.disk.epoch \in Nat /\ sen[t].disk.epoch \in Nat
    BY Zenon, <1>1, <1>6, <1>20 DEF Ok, Sen, Config
  <2> QED BY SMTT(30), <1>20, <2>1, <2>2
<1>10. Goes(sen[t], n) BY Zenon, <1>20, <1>21 DEF Keeps, Goes
<1>11. Quiet(sen[t], n) BY ZenonT(60), <1>5, <1>7 DEF Quiet
<1>12. SenOK' BY Zenon, <1>7, <1>8, SenStep DEF IInv
<1>13. VotesOK' BY Zenon, <1>7, <1>8, <1>11, NoVoteStep DEF IInv
<1>14. ElectedOK' BY <1>8, ElectedStep DEF IInv
<1>15. WonOnce' BY Zenon, <1>7, <1>8, <1>9, <1>10, WonStep DEF IInv, Goes, GoesOn
<1>16. KnownOK'
  <2>1. [cfg |-> h.cfg, addr |-> CurrentMasterAddress(h)] \in Known BY DEF Known, Said
  <2>2. Said(m) \subseteq Known BY <1>5 DEF Keeps, Known
  <2>3. ASSUME NEW k \in Said(n), k \notin Known
        PROVE  k.cfg \in mixed' /\ k.cfg > 0 /\ \E l \in Known : l.cfg = k.cfg
    <3>1. /\ h.cfg > sen[t].cfg /\ n.cfg = h.cfg
          /\ CurrentMasterAddress(n) # CurrentMasterAddress(h) /\ k.cfg = h.cfg
      BY <1>5, <1>7, <2>1, <2>2, <2>3
    <3>2. h.cfg \in mixed' BY SMTT(30), <1>8, <3>1 DEF MixedBy
    <3>3. h.cfg > 0 BY <1>1, <1>2, <3>1 DEF Ok, Sen
    <3> QED BY SMTT(30), <2>1, <3>1, <3>2, <3>3
  <2>4. n.state = "elected" => sen[t].state = "elected" /\ n.failoverEpoch = sen[t].failoverEpoch
    BY <1>10 DEF Goes
  <2> QED BY ZenonT(60), <1>7, <1>8, <2>3, <2>4, KnownStep DEF IInv
<1>17. AsksOK' /\ restarts' \in 0..MaxRestarts BY SMTT(30), <1>8 DEF IInv, AsksOK
<1> QED BY SMTT(30), <1>12, <1>13, <1>14, <1>15, <1>16, <1>17 DEF IInv

LEMMA PromotionKeeps ==
  ASSUME IInv, NEW s \in Sentinels, NEW i \in Addrs, Promoted(s, i)
  PROVE  IInv'
<1> DEFINE f == sen[s].failoverEpoch
           new == [cfg |-> f, addr |-> i]
<1>1. PICK n : n = sentinelFlushConfig([sen[s] EXCEPT !.cfg = sen[s].failoverEpoch,
                                                      !.state = "reconf_slaves", !.promoted = i])
  OBVIOUS
<1>2. /\ sen[s].state = "elected" /\ sen' = [sen EXCEPT ![s] = n]
      /\ UNCHANGED <<asks, votes, elected, mixed, restarts>>
  BY <1>1 DEF Promoted
<1>3. Ok(sen[s]) BY DEF IInv, SenOK
<1>4. /\ Ok(n) /\ n.disk.epoch >= sen[s].disk.epoch /\ Quiet(sen[s], n)
      /\ n.state = "reconf_slaves" /\ n.failoverEpoch = f /\ Said(n) = {new}
  BY <1>1, <1>2, <1>3, PromotedKeeps, ZenonT(60)
<1>5. SenOK' /\ sen'[s] = n /\ \A t \in Sentinels : t # s => sen'[t] = sen[t]
  BY Zenon, <1>2, <1>4, SenStep DEF IInv
<1>6. VotesOK' BY Zenon, <1>2, <1>4, NoVoteStep DEF IInv
<1>7. ElectedOK' BY <1>2, ElectedStep DEF IInv
<1>8. WonOnce' BY Zenon, <1>2, <1>4, WonStep DEF IInv, GoesOn
<1>9. \A k \in Known' : k \in Known \/ k = new BY Zenon, <1>2, <1>4, KnownAfter DEF IInv
<1>10. f \in Nat /\ f >= 1 BY <1>2, <1>3 DEF Ok, Sen
<1>11. PICK w \in elected : w.by = s /\ w.epoch = f BY <1>2 DEF IInv, WonOnce
<1>12. \A e : Contested(e)' <=> Contested(e) BY <1>2 DEF Contested
<1>13. ~Contested(f) => \A k \in Known : k.cfg # f BY <1>2 DEF IInv, KnownOK
<1>14. KnownOK'
  <2>1. \A k \in Known' : k.cfg = 0 => k.addr = FirstMaster
    BY SMTT(30), <1>9, <1>10 DEF IInv, KnownOK
  <2>2. \A k \in Known' : k.cfg > 0 => \E x \in elected' : x.epoch = k.cfg
    BY SMTT(30), <1>2, <1>9, <1>11 DEF IInv, KnownOK
  <2>3. ASSUME NEW t \in Sentinels, sen'[t].state = "elected", ~Contested(sen[t].failoverEpoch)',
               NEW k \in Known'
        PROVE  k.cfg # sen'[t].failoverEpoch
    <3>1. t # s /\ sen'[t] = sen[t] BY <1>4, <1>5, <2>3
    <3>2. ~Contested(sen[t].failoverEpoch) BY SMTT(30), <1>2, <2>3, <3>1 DEF Contested
    <3>3. CASE k \in Known BY <2>3, <3>1, <3>2, <3>3 DEF IInv, KnownOK
    <3>4. CASE k = new
      <4> SUFFICES ASSUME f = sen[t].failoverEpoch PROVE FALSE BY SMTT(30), <3>1, <3>4
      <4>1. PICK x \in elected : x.by = t /\ x.epoch = f BY <2>3, <3>1 DEF IInv, WonOnce
      <4>2. x.clean /\ w.clean BY <1>11, <3>2, <4>1 DEF Contested
      <4>3. x.by = w.by BY <1>11, <4>1, <4>2, CleanWinner DEF IInv
      <4> QED BY <1>11, <3>1, <4>1, <4>3
    <3> QED BY SMTT(30), <1>9, <3>3, <3>4
  <2>4. ASSUME NEW k \in Known', NEW l \in Known', k.cfg = l.cfg, ~Contested(k.cfg)', k.cfg \notin mixed'
        PROVE  k.addr = l.addr
    <3>1. ~Contested(k.cfg) /\ k.cfg \notin mixed BY SMTT(30), <1>2, <1>12, <2>4
    <3>2. CASE k \in Known /\ l \in Known BY <2>4, <3>1, <3>2 DEF IInv, KnownOK
    <3>3. CASE k = new BY SMTT(30), <1>9, <1>13, <2>4, <3>1, <3>3
    <3>4. CASE l = new BY <1>9, <1>13, <2>4, <3>1, <3>4
    <3> QED BY <1>9, <3>2, <3>3, <3>4
  <2> QED BY SMTT(30), <2>1, <2>2, <2>3, <2>4 DEF KnownOK, Contested
<1>15. AsksOK' /\ restarts' \in 0..MaxRestarts BY <1>2 DEF IInv, AsksOK
<1> QED BY <1>5, <1>6, <1>7, <1>8, <1>14, <1>15 DEF IInv

Elect(n) == [n EXCEPT !.state = "elected"]

\* What the timer may do, without the reasons: b is the Sentinel after a failover was
\* started, c after the state machine.
Machine(b, c, heard, s, w) ==
  \/ /\ b.state = "wait_start"
     /\ \E n : /\ n = sentinelVoteLeader(b, s, b.failoverEpoch, IF w = Nobody THEN s ELSE w)
               /\ \/ IsLeader(b, n, heard, s, w) /\ c = Elect(n)
                  \/ c = sentinelAbortFailover(n)
                  \/ c = n
  \/ b.state = "elected" /\ c = sentinelAbortFailover(b)
  \/ b.state = "reconf_slaves" /\ c = sentinelResetMasterAndChangeAddress(b, b.promoted)
  \/ b.state # "wait_start" /\ c = b
Won(s, b) == [by |-> s, epoch |-> b.failoverEpoch, clean |-> b.epoch = b.failoverEpoch]

LEMMA TimerCases ==
  ASSUME NEW s \in Sentinels, sentinelTimer(s)
  PROVE  \E b, c, heard, w :
           /\ \/ b = sen[s]
              \/ /\ b = sentinelStartFailover(sen[s])
                 /\ sen[s].state = "none" /\ sen[s].epoch < MaxEpoch
           /\ b.state = "wait_start" => heard \in Heard(b, s)
           /\ w \in Leading(heard) /\ Machine(b, c, heard, s, w)
           /\ sen' = [sen EXCEPT ![s] = c] /\ asks' = asks \cup Asked(c, s)
           /\ votes' = votes \cup VoteOf(s, b, c)
           /\ elected' = elected \cup (IF b.state = "wait_start" /\ c.state = "elected"
                                       THEN {Won(s, b)} ELSE {})
           /\ UNCHANGED <<mixed, restarts>>
<1> DEFINE B(due) == sentinelStartFailoverIfNeeded(sen[s], due /\ s \in Seeing)
           C(due, heard, w) ==
             sentinelFailoverStateMachine(B(due), heard, s, w, due /\ sen[s].state # "none")
<1>1. PICK due \in BOOLEAN :
        \E heard \in IF B(due).state = "wait_start" THEN Heard(B(due), s) ELSE {{}} :
        \E w \in Leading(heard) :
          /\ sen' = [sen EXCEPT ![s] = C(due, heard, w)]
          /\ asks' = asks \cup Asked(C(due, heard, w), s)
          /\ votes' = votes \cup VoteOf(s, B(due), C(due, heard, w))
          /\ elected' = elected \cup
               (IF B(due).state = "wait_start" /\ C(due, heard, w).state = "elected"
                THEN {Won(s, B(due))} ELSE {})
          /\ UNCHANGED <<mixed, restarts>>
  BY Zenon DEF sentinelTimer, Won
<1>2. PICK b : b = B(due) OBVIOUS
<1>0. PICK heard \in IF b.state = "wait_start" THEN Heard(b, s) ELSE {{}} :
        \E w \in Leading(heard) :
          /\ sen' = [sen EXCEPT ![s] = C(due, heard, w)]
          /\ asks' = asks \cup Asked(C(due, heard, w), s)
          /\ votes' = votes \cup VoteOf(s, b, C(due, heard, w))
          /\ elected' = elected \cup
               (IF b.state = "wait_start" /\ C(due, heard, w).state = "elected"
                THEN {Won(s, b)} ELSE {})
          /\ UNCHANGED <<mixed, restarts>>
  <2> HIDE DEF B
  <2> QED BY <1>1, <1>2, Zenon
<1>3. PICK w \in Leading(heard) :
        /\ sen' = [sen EXCEPT ![s] = C(due, heard, w)]
        /\ asks' = asks \cup Asked(C(due, heard, w), s)
        /\ votes' = votes \cup VoteOf(s, b, C(due, heard, w))
        /\ elected' = elected \cup
             (IF b.state = "wait_start" /\ C(due, heard, w).state = "elected"
              THEN {Won(s, b)} ELSE {})
        /\ UNCHANGED <<mixed, restarts>>
  <2> HIDE DEF B, C
  <2> QED BY <1>0, Zenon
<1>4. PICK c :
        /\ c = sentinelFailoverStateMachine(b, heard, s, w, due /\ sen[s].state # "none")
        /\ sen' = [sen EXCEPT ![s] = c] /\ asks' = asks \cup Asked(c, s)
        /\ votes' = votes \cup VoteOf(s, b, c)
        /\ elected' = elected \cup (IF b.state = "wait_start" /\ c.state = "elected"
                                    THEN {Won(s, b)} ELSE {})
        /\ UNCHANGED <<mixed, restarts>>
  <2>1. C(due, heard, w) = sentinelFailoverStateMachine(b, heard, s, w, due /\ sen[s].state # "none")
    BY <1>2, Zenon
  <2> HIDE DEF C
  <2> QED BY <1>3, <2>1, Zenon
<1> HIDE DEF B, C
<1>5. \/ b = sen[s]
      \/ /\ b = sentinelStartFailover(sen[s])
         /\ sen[s].state = "none" /\ sen[s].epoch < MaxEpoch
  BY <1>2, Zenon DEF sentinelStartFailoverIfNeeded, B
<1>6. b.state = "wait_start" => heard \in Heard(b, s) BY <1>0, Zenon
<1>7. Machine(b, c, heard, s, w)
  <2>1. CASE b.state = "wait_start"
    <3>1. PICK n : n = sentinelVoteLeader(b, s, b.failoverEpoch, IF w = Nobody THEN s ELSE w) OBVIOUS
    <3>2. c = sentinelFailoverWaitStart(b, heard, s, w, due /\ sen[s].state # "none")
      BY <1>4, <2>1 DEF sentinelFailoverStateMachine
    <3>3. \/ IsLeader(b, n, heard, s, w) /\ c = Elect(n)
          \/ c = sentinelAbortFailover(n)
          \/ c = n
      BY <3>1, <3>2, Zenon DEF sentinelFailoverWaitStart, Elect
    <3> QED BY <2>1, <3>1, <3>3, Zenon DEF Machine
  <2>2. CASE b.state = "elected"
    <3>1. c = sentinelAbortFailover(b) \/ c = b
      BY <1>4, <2>2 DEF sentinelFailoverStateMachine
    <3> QED BY <2>2, <3>1 DEF Machine
  <2>3. CASE b.state = "reconf_slaves"
    <3>1. c = sentinelResetMasterAndChangeAddress(b, b.promoted) \/ c = b
      BY <1>4, <2>3 DEF sentinelFailoverStateMachine
    <3> QED BY <2>3, <3>1 DEF Machine
  <2>4. CASE b.state \notin {"wait_start", "elected", "reconf_slaves"}
    <3>1. c = b BY <1>4, <2>4 DEF sentinelFailoverStateMachine
    <3> QED BY <2>4, <3>1 DEF Machine
  <2> QED BY <2>1, <2>2, <2>3, <2>4
<1> QED BY <1>3, <1>4, <1>5, <1>6, <1>7, Zenon

\* The state of the Sentinel once a failover was started, if one was.
LEMMA BeginFields ==
  ASSUME NEW r, Ok(r), NEW b,
         \/ b = r
         \/ b = sentinelStartFailover(r) /\ r.state = "none" /\ r.epoch < MaxEpoch
  PROVE  /\ Ok(b) /\ b.disk = r.disk /\ Said(b) = Said(r)
         /\ b.leader = r.leader /\ b.leaderEpoch = r.leaderEpoch
         /\ \/ b.state = r.state /\ b.failoverEpoch = r.failoverEpoch
            \/ b.state = "wait_start" /\ b.failoverEpoch > r.epoch
<1>1. CASE b = r BY <1>1
<1>2. CASE b = sentinelStartFailover(r) /\ r.state = "none" /\ r.epoch < MaxEpoch
  <2>1. /\ Ok(b) /\ b.disk = r.disk /\ Said(b) = Said(r) /\ b.state = "wait_start"
        /\ b.failoverEpoch = r.epoch + 1
        /\ b.leader = r.leader /\ b.leaderEpoch = r.leaderEpoch
    BY <1>2, StartFields
  <2>2. r.epoch \in Nat BY DEF Ok, Sen
  <2> QED BY <2>1, <2>2
<1> QED BY <1>1, <1>2

LEMMA LeadingType ==
  ASSUME NEW heard, NEW w \in Leading(heard), NEW s \in Sentinels
  PROVE  (IF w = Nobody THEN s ELSE w) \in Sentinels
BY SMTT(30), NobodyAssumption DEF Leading

\* The winner of an election, c, after its own vote, n.
Winner(b, n, c, d) ==
  /\ Ok(c) /\ c.disk.epoch >= b.disk.epoch /\ Said(c) \subseteq Said(b)
  /\ c.state = "elected" /\ c.failoverEpoch = b.failoverEpoch
  /\ c.leader = n.leader /\ c.leaderEpoch = n.leaderEpoch
  /\ \/ c.leaderEpoch = b.leaderEpoch /\ c.leader = b.leader
     \/ c.leaderEpoch > b.leaderEpoch /\ c.leader = d
  /\ b.epoch = b.failoverEpoch => c.disk.epoch >= b.failoverEpoch

LEMMA WinnerFields ==
  ASSUME NEW b, Ok(b), b.state = "wait_start", NEW s \in Sentinels, NEW d \in Sentinels,
         NEW n, n = sentinelVoteLeader(b, s, b.failoverEpoch, d), NEW c, c = Elect(n)
  PROVE  Winner(b, n, c, d)
<1>1. b.failoverEpoch \in 0..MaxEpoch /\ b.epoch \in Nat /\ b.failoverEpoch <= b.epoch
  BY SMTT(30), QuorumAssumption DEF Ok, Sen
<1>2. /\ Keeps(b, n) /\ n.state = b.state /\ n.failoverEpoch = b.failoverEpoch
      /\ n.epoch = (IF b.failoverEpoch > b.epoch THEN b.failoverEpoch ELSE b.epoch)
      /\ \/ n.leaderEpoch = b.leaderEpoch /\ n.leader = b.leader
         \/ n.leaderEpoch > b.leaderEpoch /\ n.leader = d /\ n.leaderEpoch = b.failoverEpoch
      /\ n.epoch = b.failoverEpoch => n.leaderEpoch >= b.failoverEpoch
  BY SMTT(30), <1>1, VoteKeeps
<1>3. n \in Sen /\ Ok(n) BY <1>2 DEF Keeps, Ok
<1>4. /\ c \in Sen /\ c.epoch = n.epoch /\ c.addr = n.addr /\ c.cfg = n.cfg /\ c.leader = n.leader
      /\ c.leaderEpoch = n.leaderEpoch /\ c.state = "elected" /\ c.failoverEpoch = n.failoverEpoch
      /\ c.disk = n.disk
  BY SMTT(30), <1>3 DEF Sen, States, Elect
<1>5. CurrentMasterAddress(c) = CurrentMasterAddress(n) BY SMTT(30), <1>2, <1>4 DEF CurrentMasterAddress
<1>6. Ok(c) BY SMTT(30), <1>2, <1>3, <1>4 DEF Ok
<1>7. Said(c) \subseteq Said(b) BY SMTT(30), <1>2, <1>4, <1>5 DEF Said, Keeps
<1>8. c.disk.epoch >= b.disk.epoch BY SMTT(30), <1>2, <1>4 DEF Keeps
<1>9. b.epoch = b.failoverEpoch => c.disk.epoch >= b.failoverEpoch
  <2>1. b.epoch = b.failoverEpoch => n.leaderEpoch >= b.failoverEpoch BY SMTT(30), <1>1, <1>2
  <2>2. n.disk.leaderEpoch = n.leaderEpoch /\ n.disk.leaderEpoch <= n.disk.epoch /\ n.disk.epoch \in Nat
        /\ n.leaderEpoch \in Nat
    BY SMTT(30), <1>3 DEF Ok, Sen, Config
  <2> QED BY SMTT(30), <1>1, <1>4, <2>1, <2>2
<1> QED BY SMTT(30), <1>2, <1>4, <1>6, <1>7, <1>8, <1>9 DEF Winner

\* The machine keeps a failover as it is or ends it, or the election is won.
LEMMA MachineKeeps ==
  ASSUME NEW b, Ok(b), NEW c, NEW heard, NEW s \in Sentinels, NEW w \in Leading(heard),
         Machine(b, c, heard, s, w)
  PROVE  \/ /\ Keeps(b, c)
            /\ \/ c.leaderEpoch = b.leaderEpoch /\ c.leader \in {b.leader, Nobody}
               \/ c.leaderEpoch > b.leaderEpoch /\ c.leader \in Sentinels
            /\ ~(b.state = "wait_start" /\ c.state = "elected")
         \/ /\ b.state = "wait_start"
            /\ \E n, d : /\ d \in Sentinels /\ n = sentinelVoteLeader(b, s, b.failoverEpoch, d)
                         /\ IsLeader(b, n, heard, s, w) /\ c = Elect(n)
<1>0. b \in Sen /\ b.disk.epoch \in Nat /\ b.epoch \in Nat /\ b.disk.epoch <= b.epoch BY SMTT(30) DEF Ok, Sen, Config
<1>1. CASE b.state = "wait_start"
  <2>1. PICK d : d = IF w = Nobody THEN s ELSE w OBVIOUS
  <2>2. d \in Sentinels BY <2>1, LeadingType
  <2>3. PICK n : /\ n = sentinelVoteLeader(b, s, b.failoverEpoch, d)
                 /\ \/ IsLeader(b, n, heard, s, w) /\ c = Elect(n)
                    \/ c = sentinelAbortFailover(n)
                    \/ c = n
    BY <1>1, <2>1 DEF Machine
  <2>4. b.failoverEpoch \in 0..MaxEpoch BY SMTT(30), QuorumAssumption DEF Ok, Sen
  <2>5. /\ Keeps(b, n) /\ n.state = b.state /\ n.failoverEpoch = b.failoverEpoch
        /\ \/ n.leaderEpoch = b.leaderEpoch /\ n.leader = b.leader
           \/ n.leaderEpoch > b.leaderEpoch /\ n.leader = d
    BY <2>2, <2>3, <2>4, VoteKeeps
  <2>6. CASE IsLeader(b, n, heard, s, w) /\ c = Elect(n)
    BY <1>1, <2>2, <2>3, <2>6, Zenon
  <2>7. CASE c = sentinelAbortFailover(n)
    <3>1. /\ Keeps(n, c) /\ c.state = "none" /\ c.leader = n.leader /\ c.leaderEpoch = n.leaderEpoch
          /\ c.disk = n.disk
      BY SMTT(30), <1>1, <2>5, <2>7, AbortKeeps DEF Keeps
    <3>2. Keeps(b, c) BY SMTT(30), <2>5, <3>1 DEF Keeps, Goes
    <3> QED BY SMTT(30), <2>2, <2>5, <3>1, <3>2
  <2>8. CASE c = n BY SMTT(30), <1>1, <2>2, <2>5, <2>8
  <2> QED BY Zenon, <2>3, <2>6, <2>7, <2>8
<1>2. CASE b.state = "elected" /\ c = sentinelAbortFailover(b)
  BY SMTT(30), <1>2, AbortKeeps
<1>3. CASE b.state = "reconf_slaves" /\ c = sentinelResetMasterAndChangeAddress(b, b.promoted)
  <2>1. b.promoted \in Addrs BY Zenon, <1>0 DEF Sen
  <2>2. /\ Ok(c) /\ Said(c) = {[cfg |-> b.cfg, addr |-> b.promoted]} /\ c.state = "none"
        /\ c.leaderEpoch = b.leaderEpoch /\ c.leader = Nobody /\ c.disk.epoch = b.epoch
    BY SMTT(30), <1>0, <1>3, <2>1, ResetFields DEF Ok
  <2>3. Said(c) \subseteq Said(b) BY SMTT(30), <1>3, <2>2 DEF Said, CurrentMasterAddress
  <2>4. Keeps(b, c) BY SMTT(30), <1>0, <2>2, <2>3 DEF Keeps, Goes
  <2> QED BY <2>2, <2>4
<1>4. CASE b.state # "wait_start" /\ c = b BY SMTT(30), <1>0, <1>4 DEF Keeps, Goes
<1> QED BY Zenon, <1>1, <1>2, <1>3, <1>4 DEF Machine

\* The votes counted by the winner of a clean election are those of a majority.
LEMMA WinnerVotes ==
  ASSUME VotesOK, VotesOK', votes \subseteq votes',
         NEW s \in Sentinels, NEW b, NEW n, NEW c, NEW heard \in Heard(b, s), NEW w,
         b.epoch = b.failoverEpoch, IsLeader(b, n, heard, s, w),
         c.leader = n.leader, c.leaderEpoch = n.leaderEpoch, sen'[s] = c
  PROVE  Cardinality(Voters(s, b.failoverEpoch)') >= Majority
<1> DEFINE e == b.failoverEpoch
           H == {v \in heard : v.leader = s}
           V == {t \in Sentinels : Vote(t, s, e) \in votes'}
           f == [v \in H |-> v.by]
<1>1. V = Voters(s, b.failoverEpoch)' BY SMTT(30) DEF Voters, Vote
<1>2. IsFiniteSet(V) /\ Cardinality(V) \in Nat
  <2>1. V \subseteq Sentinels BY SMTT(30)
  <2> QED BY SMTT(30), <2>1, FS_Subset, FS_CardinalityType, FiniteAssumption
<1>3. IsFiniteSet(V \ {s}) /\ Cardinality(V \ {s}) = IF s \in V THEN Cardinality(V) - 1 ELSE Cardinality(V)
  BY ZenonT(60), <1>2, FS_RemoveElement
<1>4. \A v \in H : /\ v \in votes /\ v.by \in Sentinels /\ v.by # s /\ v.epoch = e /\ v.leader = s
                   /\ v = Vote(v.by, s, e)
  BY SMTT(30) DEF Heard, VotesOK, Vote
<1>5. f \in Injection(H, V \ {s})
  <2>1. f \in [H -> V \ {s}] BY SMTT(30), <1>4
  <2>2. \A u, v \in H : f[u] = f[v] => u = v
    <3> SUFFICES ASSUME NEW u \in H, NEW v \in H, u.by = v.by PROVE u = v BY SMTT(30)
    <3>1. u = Vote(u.by, s, e) /\ v = Vote(v.by, s, e) BY SMTT(30), <1>4
    <3> QED BY <3>1
  <2> HIDE DEF f, H, V
  <2> QED BY SMTT(30), <2>1, <2>2 DEF Injection, IsInjective
<1>6. IsFiniteSet(H) /\ Cardinality(H) <= Cardinality(V \ {s}) /\ Cardinality(H) \in Nat
  <2> HIDE DEF f, H, V
  <2>1. IsFiniteSet(H) /\ Cardinality(H) <= Cardinality(V \ {s}) BY SMTT(30), <1>3, <1>5, FS_Injection
  <2> QED BY SMTT(30), <2>1, FS_CardinalityType
<1>7. VotesFor(heard, s) = Cardinality(H) BY SMTT(30) DEF VotesFor
<1>8. \/ VotesFor(heard, s) >= Majority
      \/ n.leader = s /\ n.leaderEpoch = e /\ VotesFor(heard, s) + 1 >= Majority
  BY SMTT(30) DEF IsLeader, Majority
<1>9. n.leader = s /\ n.leaderEpoch = e => s \in V
  <2>1. s # Nobody BY SMTT(30), NobodyAssumption
  <2>2. sen'[s].leader # Nobody => Vote(s, sen'[s].leader, sen'[s].leaderEpoch) \in votes'
    BY DEF VotesOK, Vote
  <2> QED BY SMTT(30), <2>1, <2>2
<1> HIDE DEF e, H, V, f
<1> QED BY SMTT(30), <1>1, <1>2, <1>3, <1>6, <1>7, <1>8, <1>9, MajorityNat

\* Arithmetic of epochs.
LEMMA LeTrans == \A i, j, k \in Nat : i <= j /\ k >= j => i <= k
OBVIOUS
LEMMA PosNat == \A i \in Nat : i >= 1 => i > 0
OBVIOUS
LEMMA NotAbove == \A i, j, k \in Nat : i <= j /\ j <= k => ~(i > k)
OBVIOUS
LEMMA NotBelowItself == \A i \in Nat : ~(i < i)
OBVIOUS

\* The step of a timer that wins the election.
LEMMA WinKeeps ==
  ASSUME IInv, NEW s \in Sentinels, NEW b,
         \/ b = sen[s]
         \/ b = sentinelStartFailover(sen[s]) /\ sen[s].state = "none" /\ sen[s].epoch < MaxEpoch,
         b.state = "wait_start", NEW heard \in Heard(b, s), NEW w, NEW d \in Sentinels,
         NEW n, IsLeader(b, n, heard, s, w), NEW c, Winner(b, n, c, d),
         sen' = [sen EXCEPT ![s] = c], votes' = votes \cup VoteOf(s, b, c),
         elected' = elected \cup {Won(s, b)}, mixed' = mixed,
         AsksOK', restarts' \in 0..MaxRestarts
  PROVE  IInv'
<1> DEFINE e == b.failoverEpoch
<1>1. Ok(sen[s]) BY SMTT(30) DEF IInv, SenOK
<1>2. /\ Ok(b) /\ b.disk = sen[s].disk /\ Said(b) = Said(sen[s])
      /\ b.leader = sen[s].leader /\ b.leaderEpoch = sen[s].leaderEpoch
      /\ \/ b.state = sen[s].state /\ e = sen[s].failoverEpoch
         \/ e > sen[s].epoch
  BY SMTT(30), <1>1, BeginFields
<1>3. /\ Ok(c) /\ c.disk.epoch >= b.disk.epoch /\ Said(c) \subseteq Said(b)
      /\ c.state = "elected" /\ c.failoverEpoch = e
      /\ c.leader = n.leader /\ c.leaderEpoch = n.leaderEpoch
      /\ \/ c.leaderEpoch = b.leaderEpoch /\ c.leader = b.leader
         \/ c.leaderEpoch > b.leaderEpoch /\ c.leader = d
      /\ b.epoch = e => c.disk.epoch >= e
  BY ZenonT(60) DEF Winner
<1>4. SenOK' /\ sen'[s] = c /\ \A t \in Sentinels : t # s => sen'[t] = sen[t]
  BY Zenon, <1>3, SenStep DEF IInv
<1>5. VotesOK' /\ votes \subseteq votes'
  <2>1. \/ c.leaderEpoch = sen[s].leaderEpoch /\ c.leader \in {sen[s].leader, Nobody}
        \/ c.leaderEpoch > sen[s].leaderEpoch /\ c.leader \in Sentinels
    BY Zenon, <1>2, <1>3
  <2>2. SenOK /\ VotesOK BY SMTT(30) DEF IInv
  <2> QED BY <1>2, <1>3, <2>1, <2>2, VotesAfter, ZenonT(60)
<1>6. /\ e \in Nat /\ e >= 1 /\ sen[s].epoch \in Nat /\ sen[s].disk.epoch \in Nat
      /\ sen[s].disk.epoch <= sen[s].epoch /\ c.disk.epoch \in Nat
  BY Zenon, <1>1, <1>2, <1>3 DEF Ok, Sen, Config
<1>7. PICK y : y = Won(s, b) OBVIOUS
<1>8. y.by = s /\ y.epoch = e /\ (y.clean <=> b.epoch = e) BY Zenon, <1>7 DEF Won
<1>9. y \in [by : Sentinels, epoch : Nat, clean : BOOLEAN]
  <2>1. (b.epoch = b.failoverEpoch) \in BOOLEAN OBVIOUS
  <2> QED BY <1>6, <1>7, <2>1 DEF Won
<1>10. elected' = elected \cup {y} BY <1>7
<1> HIDE DEF e
<1>11. ElectedOK'
  <2>1. elected' \subseteq [by : Sentinels, epoch : Nat, clean : BOOLEAN]
    BY SMTT(30), <1>9, <1>10 DEF IInv, ElectedOK
  <2>2. ASSUME NEW x \in elected', x.clean
        PROVE  Cardinality(Voters(x.by, x.epoch)') >= Majority
    <3>1. CASE x \in elected
      <4>1. Cardinality(Voters(x.by, x.epoch)) >= Majority BY SMTT(30), <2>2, <3>1 DEF IInv, ElectedOK
      <4>2. /\ Cardinality(Voters(x.by, x.epoch)) \in Nat
            /\ Cardinality(Voters(x.by, x.epoch)') \in Nat
            /\ Cardinality(Voters(x.by, x.epoch)) <= Cardinality(Voters(x.by, x.epoch)')
        BY SMTT(30), <1>5, VotersGrow
      <4> QED BY SMTT(30), <4>1, <4>2, MajorityNat
    <3>2. CASE x = y
      <4>1. b.epoch = b.failoverEpoch BY <1>8, <2>2, <3>2 DEF e
      <4>2. Cardinality(Voters(s, b.failoverEpoch)') >= Majority
        <5>1. VotesOK BY SMTT(30) DEF IInv
        <5> QED BY <1>3, <1>4, <1>5, <4>1, <5>1, WinnerVotes, ZenonT(60)
      <4> QED BY SMTT(30), <1>8, <3>2, <4>2 DEF e
    <3> QED BY SMTT(30), <1>10, <3>1, <3>2
  <2> QED BY SMTT(30), <2>1, <2>2 DEF ElectedOK, Majority
<1>12. WonOnce'
  <2>1. ASSUME NEW x \in elected', x.clean
        PROVE  /\ x.epoch <= sen'[x.by].disk.epoch
               /\ sen'[x.by].state = "wait_start" => x.epoch < sen'[x.by].failoverEpoch
    <3>1. CASE x = y BY ZenonT(60), <1>3, <1>4, <1>6, <1>8, <2>1, <3>1
    <3>2. CASE x \in elected
      <4>1. /\ x.by \in Sentinels /\ x.epoch \in Nat /\ x.epoch <= sen[x.by].disk.epoch
            /\ sen[x.by].state = "wait_start" => x.epoch < sen[x.by].failoverEpoch
        BY ZenonT(60), <2>1, <3>2 DEF IInv, ElectedOK, WonOnce
      <4>2. CASE x.by = s
        <5>1. x.epoch <= sen[s].disk.epoch BY Zenon, <4>1, <4>2
        <5>2. c.disk.epoch >= sen[s].disk.epoch BY Zenon, <1>2, <1>3
        <5>3. x.epoch <= c.disk.epoch BY Zenon, <1>6, <4>1, <5>1, <5>2, LeTrans
        <5>4. c.state # "wait_start" BY Zenon, <1>3
        <5> QED BY Zenon, <1>4, <4>2, <5>3, <5>4
      <4>3. CASE x.by # s BY Zenon, <1>4, <4>1, <4>3
      <4> QED BY ZenonT(60), <4>2, <4>3
    <3> QED BY ZenonT(60), <1>10, <3>1, <3>2
  <2>2. ASSUME NEW t \in Sentinels, sen'[t].state \in {"elected", "reconf_slaves"}
        PROVE  \E x \in elected' : x.by = t /\ x.epoch = sen'[t].failoverEpoch
    <3>1. CASE t = s
      <4>1. y \in elected' BY SMTT(30), <1>10
      <4>2. y.by = s /\ y.epoch = e BY SMTT(30), <1>8
      <4>3. sen'[s].failoverEpoch = e BY ZenonT(60), <1>3, <1>4
      <4>4. y.by = t /\ y.epoch = sen'[t].failoverEpoch BY ZenonT(60), <3>1, <4>2, <4>3
      <4> QED BY <4>1, <4>4
    <3>2. CASE t # s
      <4>1. sen'[t] = sen[t] BY Zenon, <1>4, <3>2
      <4>2. PICK x \in elected : x.by = t /\ x.epoch = sen[t].failoverEpoch
        BY ZenonT(60), <2>2, <4>1 DEF IInv, WonOnce
      <4>3. x \in elected' BY Zenon, <1>10
      <4> QED BY Zenon, <4>1, <4>2, <4>3
    <3> QED BY SMTT(30), <3>1, <3>2
  <2> QED BY ZenonT(60), <2>1, <2>2 DEF WonOnce
<1>13. \A k \in Known' : k \in Known
  <2>1. \A k \in Said(c) : k \in Known BY <1>2, <1>3 DEF Known
  <2> QED BY Zenon, <1>3, <2>1, KnownAfter DEF IInv
<1>14. \A g : Contested(g) => Contested(g)' BY SMTT(30), <1>10 DEF Contested
<1>15. KnownOK'
  <2>1. \A k \in Known' : k.cfg = 0 => k.addr = FirstMaster BY SMTT(30), <1>13 DEF IInv, KnownOK
  <2>2. \A k \in Known' : k.cfg > 0 => \E x \in elected' : x.epoch = k.cfg
    BY SMTT(30), <1>10, <1>13 DEF IInv, KnownOK
  <2>3. ASSUME NEW t \in Sentinels, sen'[t].state = "elected", ~Contested(sen[t].failoverEpoch)',
               NEW k \in Known'
        PROVE  k.cfg # sen'[t].failoverEpoch
    <3>1. CASE t # s
      <4>1. sen'[t] = sen[t] BY SMTT(30), <1>4, <3>1
      <4>2. ~Contested(sen[t].failoverEpoch) BY SMTT(30), <1>10, <2>3, <4>1 DEF Contested
      <4> QED BY SMTT(30), <1>13, <2>3, <4>1, <4>2 DEF IInv, KnownOK
    <3>2. CASE t = s
      <4> SUFFICES ASSUME k.cfg = e PROVE FALSE BY ZenonT(60), <1>3, <1>4, <3>2
      <4>0. e > 0 BY Zenon, <1>6, PosNat
      <4>1. PICK x \in elected : x.epoch = e BY ZenonT(60), <1>13, <4>0 DEF IInv, KnownOK
      <4>2. x.clean /\ y.clean
        <5>1. sen'[t].failoverEpoch = e BY Zenon, <1>3, <1>4, <3>2
        <5>2. \A z \in elected' : z.epoch = e => z.clean BY Zenon, <2>3, <5>1 DEF Contested
        <5>3. x \in elected' /\ y \in elected' BY SMTT(30), <1>10, <4>1
        <5> QED BY Zenon, <1>8, <4>1, <5>2, <5>3
      <4>3. x.by = s BY Zenon, <1>5, <1>8, <1>10, <1>11, <4>1, <4>2, CleanWinnerNext
      <4>4. /\ x.epoch <= sen[s].disk.epoch
            /\ sen[s].state = "wait_start" => x.epoch < sen[s].failoverEpoch
        BY ZenonT(60), <4>2, <4>3 DEF IInv, WonOnce
      <4>5. e <= sen[s].disk.epoch BY Zenon, <4>1, <4>4
      <4>6. ~(e > sen[s].epoch) BY Zenon, <1>6, <4>5, NotAbove
      <4>7. sen[s].state = "wait_start" /\ e = sen[s].failoverEpoch BY Zenon, <1>2, <4>6
      <4>8. e < e BY Zenon, <4>1, <4>4, <4>7
      <4> QED BY Zenon, <1>6, <4>8, NotBelowItself
    <3> QED BY SMTT(30), <3>1, <3>2
  <2>4. \A k, l \in Known' : k.cfg = l.cfg /\ ~Contested(k.cfg)' /\ k.cfg \notin mixed' => k.addr = l.addr
    BY SMTT(30), <1>13, <1>14 DEF IInv, KnownOK
  <2> QED BY SMTT(30), <2>1, <2>2, <2>3, <2>4 DEF KnownOK, Contested
<1> QED BY SMTT(30), <1>4, <1>5, <1>11, <1>12, <1>15 DEF IInv

\* Any other step of a timer: a failover is started, goes on or ends.
LEMMA NoWinKeeps ==
  ASSUME IInv, NEW s \in Sentinels, NEW b,
         \/ b = sen[s]
         \/ b = sentinelStartFailover(sen[s]) /\ sen[s].state = "none" /\ sen[s].epoch < MaxEpoch,
         NEW c, Keeps(b, c),
         \/ c.leaderEpoch = b.leaderEpoch /\ c.leader \in {b.leader, Nobody}
         \/ c.leaderEpoch > b.leaderEpoch /\ c.leader \in Sentinels,
         ~(b.state = "wait_start" /\ c.state = "elected"),
         sen' = [sen EXCEPT ![s] = c], votes' = votes \cup VoteOf(s, b, c),
         elected' = elected, mixed' = mixed, AsksOK', restarts' \in 0..MaxRestarts
  PROVE  IInv'
<1>1. Ok(sen[s]) /\ SenOK /\ VotesOK /\ ElectedOK /\ WonOnce /\ KnownOK BY SMTT(30) DEF IInv, SenOK
<1>2. /\ Ok(b) /\ b.disk = sen[s].disk /\ Said(b) = Said(sen[s])
      /\ b.leader = sen[s].leader /\ b.leaderEpoch = sen[s].leaderEpoch
      /\ \/ b.state = sen[s].state /\ b.failoverEpoch = sen[s].failoverEpoch
         \/ b.state = "wait_start" /\ b.failoverEpoch > sen[s].epoch
  BY ZenonT(60), <1>1, BeginFields
<1>3. Ok(c) /\ c.disk.epoch >= sen[s].disk.epoch /\ Said(c) \subseteq Said(sen[s]) /\ Goes(b, c)
  BY SMTT(30), <1>2 DEF Keeps
<1>4. SenOK' BY Zenon, <1>1, <1>3, SenStep
<1>5. VotesOK' /\ votes \subseteq votes'
  <2>1. \/ c.leaderEpoch = sen[s].leaderEpoch /\ c.leader \in {sen[s].leader, Nobody}
        \/ c.leaderEpoch > sen[s].leaderEpoch /\ c.leader \in Sentinels
    BY ZenonT(60), <1>2
  <2> QED BY <1>1, <1>2, <1>3, <2>1, VotesAfter, ZenonT(60)
<1>6. ElectedOK' BY ZenonT(60), <1>1, <1>5, ElectedStep
<1>7. GoesOn(sen[s], c) BY ZenonT(60), <1>2, <1>3 DEF Goes, GoesOn
<1>8. WonOnce' BY ZenonT(60), <1>1, <1>3, <1>7, WonStep
<1>9. KnownOK'
  <2>1. \A k \in Said(c) : k \in Known BY SMTT(30), <1>3 DEF Known
  <2>2. c.state = "elected" => sen[s].state = "elected" /\ c.failoverEpoch = sen[s].failoverEpoch
    BY SMTT(30), <1>2, <1>3 DEF Goes
  <2> QED BY ZenonT(60), <1>1, <1>3, <2>1, <2>2, KnownStep
<1> QED BY SMTT(30), <1>4, <1>5, <1>6, <1>8, <1>9 DEF IInv

LEMMA TimerKeeps ==
  ASSUME IInv, NEW s \in Sentinels, sentinelTimer(s)
  PROVE  IInv'
<1>1. PICK b, c, heard, w :
           /\ \/ b = sen[s]
              \/ /\ b = sentinelStartFailover(sen[s])
                 /\ sen[s].state = "none" /\ sen[s].epoch < MaxEpoch
           /\ b.state = "wait_start" => heard \in Heard(b, s)
           /\ w \in Leading(heard) /\ Machine(b, c, heard, s, w)
           /\ sen' = [sen EXCEPT ![s] = c] /\ asks' = asks \cup Asked(c, s)
           /\ votes' = votes \cup VoteOf(s, b, c)
           /\ elected' = elected \cup (IF b.state = "wait_start" /\ c.state = "elected"
                                       THEN {Won(s, b)} ELSE {})
           /\ UNCHANGED <<mixed, restarts>>
  BY TimerCases, Zenon
<1>2. Ok(sen[s]) BY SMTT(30) DEF IInv, SenOK
<1>3. Ok(b) BY SMTT(30), <1>1, <1>2, BeginFields
<1>4. restarts' \in 0..MaxRestarts /\ mixed' = mixed BY SMTT(30), <1>1 DEF IInv
<1>5. ASSUME Ok(c) PROVE AsksOK'
  <2>1. c.addr \in Addrs /\ c.epoch \in 0..MaxEpoch BY SMTT(30), <1>5, QuorumAssumption DEF Ok, Sen
  <2>2. Asked(c, s) \subseteq [from : Sentinels, addr : Addrs, epoch : 0..MaxEpoch]
    BY <2>1 DEF Asked
  <2> QED BY SMTT(30), <1>1, <2>2 DEF IInv, AsksOK
<1>6. CASE /\ Keeps(b, c)
           /\ \/ c.leaderEpoch = b.leaderEpoch /\ c.leader \in {b.leader, Nobody}
              \/ c.leaderEpoch > b.leaderEpoch /\ c.leader \in Sentinels
           /\ ~(b.state = "wait_start" /\ c.state = "elected")
  <2>1. elected' = elected BY SMTT(30), <1>1, <1>6
  <2>2. AsksOK' BY <1>5, <1>6 DEF Keeps
  <2> QED BY <1>1, <1>4, <1>6, <2>1, <2>2, NoWinKeeps, ZenonT(60)
<1>7. CASE /\ b.state = "wait_start"
           /\ \E n, d : /\ d \in Sentinels /\ n = sentinelVoteLeader(b, s, b.failoverEpoch, d)
                        /\ IsLeader(b, n, heard, s, w) /\ c = Elect(n)
  <2>1. PICK n, d : /\ d \in Sentinels /\ n = sentinelVoteLeader(b, s, b.failoverEpoch, d)
                    /\ IsLeader(b, n, heard, s, w) /\ c = Elect(n)
    BY <1>7
  <2>2. Winner(b, n, c, d) BY SMTT(30), <1>3, <1>7, <2>1, WinnerFields
  <2>3. Ok(c) /\ c.state = "elected" BY SMTT(30), <2>2 DEF Winner
  <2>4. elected' = elected \cup {Won(s, b)} BY <1>1, <1>7, <2>3
  <2>5. AsksOK' BY SMTT(30), <1>5, <2>3
  <2>6. heard \in Heard(b, s) BY <1>1, <1>7
  <2> QED BY <1>1, <1>4, <1>7, <2>1, <2>2, <2>4, <2>5, <2>6, WinKeeps, ZenonT(60)
<1> QED BY <1>1, <1>3, <1>6, <1>7, MachineKeeps

LEMMA StepKeeps == IInv /\ [Next]_vars => IInv'
<1> SUFFICES ASSUME IInv, [Next]_vars PROVE IInv' OBVIOUS
<1>1. ASSUME NEW s \in Sentinels, sentinelTimer(s) PROVE IInv' BY <1>1, TimerKeeps
<1>2. ASSUME NEW s \in Sentinels, DelayOver(s) PROVE IInv' BY <1>2, DelayKeeps
<1>3. ASSUME NEW s \in Sentinels, Restart(s) PROVE IInv' BY <1>3, RestartKeeps
<1>4. ASSUME NEW s \in Sentinels, NEW i \in Addrs, Promoted(s, i) PROVE IInv'
  BY <1>4, PromotionKeeps
<1>5. ASSUME NEW q \in asks, NEW t \in Sentinels, IsMasterDownByAddr(q, t) PROVE IInv'
  BY <1>5, RequestKeeps
<1>6. ASSUME NEW s \in Sentinels, NEW t \in Sentinels, sentinelProcessHelloMessage(s, t) PROVE IInv'
  BY SMTT(30), <1>6, HelloKeeps
<1>7. CASE UNCHANGED vars
  <2>1. /\ sen' = sen /\ asks' = asks /\ votes' = votes /\ elected' = elected
        /\ mixed' = mixed /\ restarts' = restarts
    BY Zenon, <1>7 DEF vars
  <2>2. SenOK' BY Zenon, <2>1 DEF IInv, SenOK
  <2>3. AsksOK' BY Zenon, <2>1 DEF IInv, AsksOK
  <2>4. VotesOK' BY Zenon, <2>1 DEF IInv, VotesOK, Vote
  <2>5. ElectedOK' BY Zenon, <2>1 DEF IInv, ElectedOK, Voters
  <2>6. WonOnce' BY Zenon, <2>1 DEF IInv, WonOnce
  <2>7. KnownOK'
    <3>1. Known' = Known BY Zenon, <2>1 DEF Known
    <3>2. \A g : Contested(g)' <=> Contested(g) BY Zenon, <2>1 DEF Contested
    <3>3. \A k \in Known' : k.cfg > 0 => \E x \in elected' : x.epoch = k.cfg
      BY Zenon, <2>1, <3>1 DEF IInv, KnownOK
    <3>4. ASSUME NEW t \in Sentinels, sen'[t].state = "elected",
                 ~Contested(sen[t].failoverEpoch)', NEW k \in Known'
          PROVE  k.cfg # sen'[t].failoverEpoch
      <4>1. PICK g : g = sen[t].failoverEpoch BY Zenon
      <4>2. ~Contested(g)' BY Zenon, <2>1, <3>4, <4>1 DEF Contested
      <4>3. ~Contested(sen[t].failoverEpoch) BY Zenon, <3>2, <4>1, <4>2
      <4> QED BY Zenon, <2>1, <3>1, <3>4, <4>3 DEF IInv, KnownOK
    <3>5. \A k, l \in Known' : k.cfg = l.cfg /\ ~Contested(k.cfg)' /\ k.cfg \notin mixed' => k.addr = l.addr
      BY Zenon, <2>1, <3>1, <3>2 DEF IInv, KnownOK
    <3>6. \A k \in Known' : k.cfg = 0 => k.addr = FirstMaster BY Zenon, <3>1 DEF IInv, KnownOK
    <3> QED BY Zenon, <3>3, <3>4, <3>5, <3>6 DEF KnownOK
  <2> QED BY Zenon, <2>1, <2>2, <2>3, <2>4, <2>5, <2>6, <2>7 DEF IInv
<1> QED BY <1>1, <1>2, <1>3, <1>4, <1>5, <1>6, <1>7 DEF Next

----------------------------------------------------------------------------
(* The theorems.                                                           *)

\* The invariant holds of every behaviour: of every number of Sentinels, epochs and
\* restarts.
THEOREM VotingInvariant == Spec => []IInv
<1> QED BY InitHolds, StepKeeps, PTL DEF Spec

\* No vote and no configuration carries an epoch its Sentinel has not reached, in
\* sentinelVoteLeader, in sentinelProcessHelloMessage and after a restart.
THEOREM VotingTypeCorrect == Spec => []TypeOK
<1>1. IInv => TypeOK
  BY QuorumAssumption DEF IInv, SenOK, Ok, Sen, TypeOK
<1> QED BY <1>1, VotingInvariant, PTL

\* The elections that sentinelGetLeader counted in the epoch of the failover have one
\* winner for each epoch.
THEOREM CleanElections == Spec => []CleanLeader
<1>1. IInv => CleanLeader BY CleanWinner DEF IInv, CleanLeader
<1> QED BY <1>1, VotingInvariant, PTL

\* Sentinels whose configurations have the same config_epoch publish the same address,
\* through promotions, hellos and restarts, except for the epochs named in the property.
THEOREM ConfigurationsAgree == Spec => []ConfigAgreement
<1>1. ASSUME IInv PROVE ConfigAgreement
  <2> SUFFICES ASSUME NEW s \in Sentinels, NEW t \in Sentinels, sen[s].cfg = sen[t].cfg,
                      ~Contested(sen[s].cfg), sen[s].cfg \notin mixed
               PROVE  CurrentMasterAddress(sen[s]) = CurrentMasterAddress(sen[t])
    BY SMTT(30) DEF ConfigAgreement
  <2> DEFINE k == [cfg |-> sen[s].cfg, addr |-> CurrentMasterAddress(sen[s])]
             l == [cfg |-> sen[t].cfg, addr |-> CurrentMasterAddress(sen[t])]
  <2>1. k \in Known /\ l \in Known BY DEF Known, Said
  <2>2. k.cfg = sen[s].cfg /\ l.cfg = sen[t].cfg BY SMTT(30)
  <2>3. k.addr = l.addr BY SMTT(30), <1>1, <2>1, <2>2 DEF IInv, KnownOK
  <2> QED BY <2>3
<1> QED BY <1>1, VotingInvariant, PTL

\* What a step of t may do to its vote.
Final(r, n) ==
  \/ n.leaderEpoch > r.leaderEpoch
  \/ n.leaderEpoch = r.leaderEpoch /\ n.leader \in {r.leader, Nobody}

LEMMA FinalStep ==
  ASSUME SenOK, NEW t \in Sentinels, NEW n, sen' = [sen EXCEPT ![t] = n], Final(sen[t], n)
  PROVE  \A s \in Sentinels : Final(sen[s], sen'[s])
<1>1. \A s \in Sentinels : sen'[s] = IF s = t THEN n ELSE sen[s] BY SMTT(30) DEF SenOK
<1> QED BY <1>1 DEF Final

LEMMA TimerFinal ==
  ASSUME IInv, NEW s \in Sentinels, sentinelTimer(s)
  PROVE  \A t \in Sentinels : Final(sen[t], sen'[t])
<1>1. PICK b, c, heard, w :
           /\ \/ b = sen[s]
              \/ /\ b = sentinelStartFailover(sen[s])
                 /\ sen[s].state = "none" /\ sen[s].epoch < MaxEpoch
           /\ w \in Leading(heard) /\ Machine(b, c, heard, s, w)
           /\ sen' = [sen EXCEPT ![s] = c]
  BY TimerCases, Zenon
<1>2. Ok(sen[s]) /\ SenOK BY DEF IInv, SenOK
<1>3. Ok(b) /\ b.leader = sen[s].leader /\ b.leaderEpoch = sen[s].leaderEpoch
  BY SMTT(30), <1>1, <1>2, BeginFields
<1>4. CASE \/ c.leaderEpoch = b.leaderEpoch /\ c.leader \in {b.leader, Nobody}
           \/ c.leaderEpoch > b.leaderEpoch
  BY SMTT(30), <1>1, <1>2, <1>3, <1>4, FinalStep DEF Final
<1>5. CASE /\ b.state = "wait_start"
           /\ \E n, d : /\ d \in Sentinels /\ n = sentinelVoteLeader(b, s, b.failoverEpoch, d)
                        /\ IsLeader(b, n, heard, s, w) /\ c = Elect(n)
  <2>1. PICK n, d : /\ d \in Sentinels /\ n = sentinelVoteLeader(b, s, b.failoverEpoch, d)
                    /\ c = Elect(n)
    BY SMTT(30), <1>5
  <2>2. Winner(b, n, c, d) BY Zenon, <1>3, <1>5, <2>1, WinnerFields
  <2> QED BY Zenon, <1>4, <2>2 DEF Winner
<1> QED BY <1>1, <1>3, <1>4, <1>5, MachineKeeps

\* A Sentinel votes at most once in an epoch and never in an earlier one: the vote is in
\* the file before it is told, so that a restart does not take it back.
THEOREM VotesAreFinal == Spec => VoteIsFinal
<1> DEFINE A == \A s \in Sentinels : Final(sen[s], sen'[s])
<1>1. ASSUME IInv, [Next]_vars PROVE A \/ UNCHANGED vars
  <2>0. SenOK /\ \A s \in Sentinels : Ok(sen[s]) BY SMTT(30), <1>1 DEF IInv, SenOK
  <2>1. ASSUME NEW s \in Sentinels, sentinelTimer(s) PROVE A BY <1>1, <2>1, TimerFinal
  <2>2. ASSUME NEW s \in Sentinels, DelayOver(s) PROVE A
    <3>1. PICK n : n = [sen[s] EXCEPT !.recent = FALSE] BY Zenon
    <3>2. sen' = [sen EXCEPT ![s] = n] BY <2>2, <3>1 DEF DelayOver
    <3>3. Final(sen[s], n) BY <2>0, <3>1 DEF Final, SenOK, Sen
    <3> QED BY Zenon, <2>0, <3>2, <3>3, FinalStep
  <2>3. ASSUME NEW s \in Sentinels, Restart(s) PROVE A
    <3>1. PICK n : n = Loaded(sen[s].disk) BY SMTT(30)
    <3>2. sen' = [sen EXCEPT ![s] = n] BY SMTT(30), <2>3, <3>1 DEF Restart
    <3>3. Final(sen[s], n) BY SMTT(30), <2>0, <3>1, LoadedKeeps DEF Final, Quiet
    <3> QED BY ZenonT(60), <2>0, <3>2, <3>3, FinalStep
  <2>4. ASSUME NEW s \in Sentinels, NEW i \in Addrs, Promoted(s, i) PROVE A
    <3>1. PICK n : n = sentinelFlushConfig([sen[s] EXCEPT !.cfg = sen[s].failoverEpoch,
                                                          !.state = "reconf_slaves", !.promoted = i])
      OBVIOUS
    <3>2. sen[s].state = "elected" /\ sen' = [sen EXCEPT ![s] = n] BY <2>4, <3>1 DEF Promoted
    <3>3. Quiet(sen[s], n) BY <2>0, <3>1, <3>2, PromotedKeeps, ZenonT(60)
    <3> QED BY <2>0, <3>2, <3>3, FinalStep DEF Final, Quiet
  <2>5. ASSUME NEW q \in asks, NEW t \in Sentinels, IsMasterDownByAddr(q, t) PROVE A
    <3>1. PICK n : n = sentinelVoteLeader(sen[t], t, q.epoch, q.from) BY SMTT(30)
    <3>2. sen' = [sen EXCEPT ![t] = n] BY <2>5, <3>1 DEF IsMasterDownByAddr
    <3>3. q.from \in Sentinels /\ q.epoch \in 0..MaxEpoch BY SMTT(30), <1>1 DEF IInv, AsksOK
    <3>4. Final(sen[t], n) BY SMTT(30), <2>0, <3>1, <3>3, VoteKeeps DEF Final
    <3> QED BY ZenonT(60), <2>0, <3>2, <3>4, FinalStep
  <2>6. ASSUME NEW s \in Sentinels, NEW t \in Sentinels, sentinelProcessHelloMessage(s, t) PROVE A
    <3> DEFINE h == sen[s]
    <3>1. PICK m : m = NewEpoch(sen[t], h.epoch) OBVIOUS
    <3>2. PICK n : n = Newer(m, CurrentMasterAddress(h), h.cfg) BY SMTT(30)
    <3>3. sen' = [sen EXCEPT ![t] = n] BY SMTT(30), <2>6, <3>1, <3>2 DEF sentinelProcessHelloMessage
    <3>4. /\ h.epoch \in 0..MaxEpoch /\ h.cfg \in Nat /\ h.cfg <= h.epoch
          /\ CurrentMasterAddress(h) \in Addrs /\ sen[t].epoch \in Nat
      BY SMTT(30), <2>0, QuorumAssumption DEF Ok, Sen, CurrentMasterAddress
    <3>5. /\ Keeps(sen[t], m) /\ Quiet(sen[t], m)
          /\ m.epoch = IF h.epoch > sen[t].epoch THEN h.epoch ELSE sen[t].epoch
      BY ZenonT(60), <2>0, <3>1, <3>4, NewEpochKeeps
    <3>6. Ok(m) /\ h.cfg <= m.epoch BY <3>4, <3>5 DEF Keeps
    <3>7. Quiet(m, n) BY SMTT(30), <3>2, <3>4, <3>6, NewerKeeps
    <3>8. Final(sen[t], n) BY <3>5, <3>7 DEF Quiet, Final
    <3> QED BY ZenonT(60), <2>0, <3>3, <3>8, FinalStep
  <2> QED BY Zenon, <1>1, <2>1, <2>2, <2>3, <2>4, <2>5, <2>6 DEF Next
<1>2. ASSUME IInv, [Next]_vars
      PROVE  [\A s \in Sentinels :
                \/ sen'[s].leaderEpoch > sen[s].leaderEpoch
                \/ sen'[s].leaderEpoch = sen[s].leaderEpoch /\ sen'[s].leader \in {sen[s].leader, Nobody}]_vars
  BY <1>1, <1>2 DEF Final
<1> QED BY <1>2, VotingInvariant, PTL DEF Spec, VoteIsFinal
=============================================================================
