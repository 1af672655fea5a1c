--------------------------- MODULE SentinelConfig ---------------------------
(***************************************************************************)
(* The masters a Sentinel monitors, the SENTINEL commands that change      *)
(* them, the file in which sentinelFlushConfig keeps them and what a       *)
(* restart makes of it (src/others/sentinel.c).                            *)
(***************************************************************************)
EXTENDS Integers, Sequences, SequencesExt, Functions

CONSTANTS
  Names,         \* of masters
  Slaves,        \* addresses of slaves
  Quorums,       \* the quorums SENTINEL MONITOR is given
  DownAfters,    \* the values down-after-milliseconds is given
  Scripts        \* paths of scripts; "" clears the option

VARIABLES
  masters,   \* sentinel.masters, by name
  file,      \* the lines of the configuration file
  exec,      \* the scripts that are executable
  dirty,     \* the last change of masters was not saved
  up         \* the process runs

vars == <<masters, file, exec, dirty, up>>

DefaultDown == 3   \* SENTINEL_DEFAULT_DOWN_AFTER

\* createSentinelRedisInstance: a new master; slaves gives down_after_period of each.
NewMaster(quorum) == [quorum |-> quorum, down |-> DefaultDown, script |-> "", slaves |-> <<>>]

Init ==
  /\ masters = <<>> /\ file = <<>> /\ exec = Scripts \ {""} /\ dirty = FALSE /\ up = TRUE

----------------------------------------------------------------------------
(* Writing and reading the file.                                           *)

Line(op, name, value) == [op |-> op, name |-> name, value |-> value]

\* rewriteConfigSentinelOption, of one master: what has its default is not written.
MasterLines(name, m) ==
  <<Line("monitor", name, m.quorum)>>
    \o (IF m.down # DefaultDown THEN <<Line("down-after-milliseconds", name, m.down)>> ELSE <<>>)
    \o (IF m.script # "" THEN <<Line("notification-script", name, m.script)>> ELSE <<>>)
    \o [i \in 1..Len(SetToSeq(DOMAIN m.slaves)) |->
          Line("known-slave", name, SetToSeq(DOMAIN m.slaves)[i])]

RewriteSentinelOption(ms) ==
  FlattenSeq([i \in 1..Len(SetToSeq(DOMAIN ms)) |->
                LET n == SetToSeq(DOMAIN ms)[i] IN MasterLines(n, ms[n])])

\* sentinelPropagateDownAfterPeriod.
PropagateDownAfterPeriod(m) == [m EXCEPT !.slaves = [a \in DOMAIN @ |-> m.down]]

Added(f, x, y) == [z \in DOMAIN f \cup {x} |-> IF z = x THEN y ELSE f[z]]

\* sentinelHandleConfiguration, of one line: the masters read so far, or an error.
HandleConfiguration(r, l) ==
  CASE r.err -> r
    [] l.op = "monitor" /\ (l.value <= 0 \/ l.name \in DOMAIN r.ms) -> [r EXCEPT !.err = TRUE]
    [] l.op = "monitor" -> [r EXCEPT !.ms = Added(@, l.name, NewMaster(l.value))]
    [] l.name \notin DOMAIN r.ms -> [r EXCEPT !.err = TRUE]
    [] l.op = "down-after-milliseconds" ->
         [r EXCEPT !.ms[l.name] = PropagateDownAfterPeriod([@ EXCEPT !.down = l.value]),
                   !.err = l.value <= 0]
    [] l.op = "notification-script" ->
         [r EXCEPT !.ms[l.name].script = l.value, !.err = l.value \notin exec]
    [] l.op = "known-slave" ->
         [r EXCEPT !.ms[l.name].slaves = Added(@, l.value, r.ms[l.name].down),
                   !.err = l.value \in DOMAIN r.ms[l.name].slaves]

Load(lines) ==
  LET read[i \in 0..Len(lines)] ==
        IF i = 0 THEN [ms |-> <<>>, err |-> FALSE] ELSE HandleConfiguration(read[i - 1], lines[i])
  IN read[Len(lines)]

\* sentinelFlushConfig, which may fail and tells no one but the log.
FlushConfig(ms) ==
  \/ file' = RewriteSentinelOption(ms) /\ dirty' = FALSE
  \/ file' = file /\ dirty' = TRUE

----------------------------------------------------------------------------
(* Commands and events.                                                    *)

\* SENTINEL MONITOR.
Monitor(name, quorum) ==
  /\ up /\ name \notin DOMAIN masters
  /\ masters' = Added(masters, name, NewMaster(quorum))
  /\ FlushConfig(masters')
  /\ UNCHANGED <<exec, up>>

\* SENTINEL REMOVE.
RemoveMaster(name) ==
  /\ up /\ name \in DOMAIN masters
  /\ masters' = Restrict(masters, DOMAIN masters \ {name})
  /\ FlushConfig(masters')
  /\ UNCHANGED <<exec, up>>

\* One option and its value of SENTINEL SET; Bad: it gets an error.
SetOption(m, p) ==
  CASE p[1] = "down-after-milliseconds" -> PropagateDownAfterPeriod([m EXCEPT !.down = p[2]])
    [] p[1] = "notification-script" -> [m EXCEPT !.script = p[2]]

Bad(p) ==
  \/ p[1] = "down-after-milliseconds" /\ p[2] <= 0
  \/ p[1] = "notification-script" /\ p[2] # "" /\ p[2] \notin exec
  \/ p[1] = "unknown"

Options == ({"down-after-milliseconds"} \X DownAfters) \cup ({"notification-script"} \X Scripts)
             \cup {<<"unknown", "">>}

Set_ReturnAtOnce(name, first, second) ==
  LET m1 == SetOption(masters[name], first)
      m2 == IF Bad(second) THEN m1 ELSE SetOption(m1, second)
  IN /\ up /\ name \in DOMAIN masters /\ ~Bad(first)
     /\ masters' = [masters EXCEPT ![name] = m2]
     /\ IF Bad(second) THEN UNCHANGED <<file, dirty>> ELSE FlushConfig(masters')
     /\ UNCHANGED <<exec, up>>

\* sentinelSetCommand: the pairs before the first wrong one are applied, and saved.
Set(name, first, second) ==
  LET m1 == SetOption(masters[name], first)
      m2 == IF Bad(second) THEN m1 ELSE SetOption(m1, second)
  IN /\ up /\ name \in DOMAIN masters /\ ~Bad(first)
     /\ masters' = [masters EXCEPT ![name] = m2]
     /\ FlushConfig(masters')
     /\ UNCHANGED <<exec, up>>

\* A slave found in the INFO output of the master, in
\* sentinelRefreshInstanceInfo; the file is not written.
NewSlave(name, a) ==
  /\ up /\ name \in DOMAIN masters /\ a \notin DOMAIN masters[name].slaves
  /\ masters' = [masters EXCEPT ![name].slaves = Added(@, a, masters[name].down)]
  /\ dirty' = TRUE
  /\ UNCHANGED <<file, exec, up>>

\* SENTINEL RESET: sentinelResetMastersByPattern; the file is not written.
Reset(name) ==
  /\ up /\ name \in DOMAIN masters
  /\ masters' = [masters EXCEPT ![name].slaves = <<>>]
  /\ dirty' = TRUE
  /\ UNCHANGED <<file, exec, up>>

\* The Sentinel is stopped and started again; it does not start with a line it
\* takes for wrong.
Restart ==
  LET r == Load(file) IN
  /\ up' = ~r.err
  /\ masters' = IF r.err THEN <<>> ELSE r.ms
  /\ dirty' = FALSE
  /\ UNCHANGED <<file, exec>>

\* A script is installed or removed by the administrator.
Chmod(path) ==
  /\ exec' = IF path \in exec THEN exec \ {path} ELSE exec \cup {path}
  /\ UNCHANGED <<masters, file, dirty, up>>

Next ==
  \/ \E n \in Names, q \in Quorums : Monitor(n, q)
  \/ \E n \in Names : RemoveMaster(n) \/ Reset(n)
  \/ \E n \in Names, p1, p2 \in Options : Set(n, p1, p2)
  \/ \E n \in Names, a \in Slaves : NewSlave(n, a)
  \/ Restart
  \/ \E path \in Scripts \ {""} : Chmod(path)

Spec == Init /\ [][Next]_vars

----------------------------------------------------------------------------

\* What was saved is what a restart finds, of masters with a valid quorum and
\* scripts that are still there, whichever command failed half way.
SavedIsLoaded ==
  (up /\ ~dirty /\ \A n \in DOMAIN masters :
     masters[n].quorum > 0 /\ masters[n].script \in exec \cup {""})
    => Load(file) = [ms |-> masters, err |-> FALSE]

\* The slaves of a master are taken for down after the period of the master,
\* in whatever order the period is set, slaves are found and the file is read.
DownAfterShared ==
  \A n \in DOMAIN masters : \A a \in DOMAIN masters[n].slaves :
    masters[n].slaves[a] = masters[n].down

\* The file and the slaves follow what the commands change.
ConfigurationKept == SavedIsLoaded /\ DownAfterShared
=============================================================================
