----------------------------- MODULE TrapProofs -----------------------------
(***************************************************************************)
(* Proofs about Network and Detector together.  A behaviour of Trap is one *)
(* of Network and one of Detector, so that what is proved of each holds of *)
(* both together; the rest relates the counters to the history of hits.    *)
(***************************************************************************)
EXTENDS Trap, NetworkProofs

\* Detector again, with what is proved of it.
Tracking == INSTANCE DetectorProofs WITH MaxHits <- Cardinality(Conns)

\* The number of connections, and their finite sets.
LEMMA ConnsCount == IsFiniteSet(Conns) /\ Cardinality(Conns) \in Nat
BY NetworkAssumption, FS_CardinalityType

\* The tracker's parameters are what Detector assumes.
LEMMA TrackerAssumed == Tracking!DetectorAssumption
<1>1. \A S : Tracking!IsFiniteSet(S) <=> IsFiniteSet(S)
  BY DEF Tracking!IsFiniteSet, IsFiniteSet
<1> QED BY <1>1, ConnsCount, TrapAssumption DEF Tracking!DetectorAssumption

\* The two instances count as Trap does.
LEMMA SameCount ==
  \A S : Tracker!Cardinality(S) = Cardinality(S) /\ Tracking!Cardinality(S) = Cardinality(S)
BY DEF Cardinality, Tracker!Cardinality, Tracking!Cardinality

\* A call of the tracker is the same in both.
LEMMA SameRecord ==
  ASSUME NEW ip, Tracker!Record(ip)
  PROVE  Tracking!Record(ip)
BY SameCount DEF Tracker!Record, Tracking!Record, Tracker!KeepCap, Tracking!KeepCap,
   Tracker!Prune, Tracking!Prune, Tracker!Evict, Tracking!Evict, Tracker!LeastRecent,
   Tracking!LeastRecent, Tracker!Newest, Tracking!Newest, Tracker!Tracked, Tracking!Tracked,
   Tracker!Cap, Tracking!Cap

\* A behaviour of Trap is a behaviour of Network: a verdict of the tracker (network.rs:215)
\* is one that Network allows.
THEOREM TrapRunsNetwork == TrapSpec => Spec
<1>1. TrapInit => Init BY DEF TrapInit
<1>2. [TrapNext]_trapVars => [Next]_vars
  <2>1. ASSUME NEW c \in Conns, Judge(c) PROVE Next
    BY <2>1 DEF Judge, Next, LoopStep
  <2> QED BY <2>1 DEF TrapNext, Elsewhere, TimePasses, trapVars
<1> QED BY <1>1, <1>2, PTL DEF TrapSpec, Spec

\* The addresses of the clients never change.
PeerType == peer \in [Conns -> Ips]
LEMMA PeerTypes == TrapSpec => []PeerType
<1>1. TrapInit => PeerType BY DEF TrapInit, PeerType
<1>2. PeerType /\ [TrapNext]_trapVars => PeerType'
  BY DEF PeerType, TrapNext, trapVars, Judge, Elsewhere, TimePasses
<1> QED BY <1>1, <1>2, PTL DEF TrapSpec

\* A behaviour of Trap is a behaviour of Detector: what the accept loops of all listeners do
\* to the tracker are calls of record_and_check, one after the other.
THEOREM TrapRunsTracker == TrapSpec => Tracking!Spec
<1>1. TrapInit => Tracking!Init BY DEF TrapInit, Tracker!Init, Tracking!Init
<1>2. PeerType /\ [TrapNext]_trapVars => [Tracking!Next]_(Tracking!vars)
  <2> SUFFICES ASSUME PeerType, [TrapNext]_trapVars
               PROVE  [Tracking!Next]_(Tracking!vars)
    OBVIOUS
  <2>1. ASSUME NEW c \in Conns, Judge(c) PROVE Tracking!Next
    <3>1. peer[c] \in Ips BY DEF PeerType
    <3>2. Tracking!Record(peer[c]) BY <2>1, SameRecord DEF Judge
    <3> QED BY <3>1, <3>2 DEF Tracking!Next
  <2>2. CASE TimePasses
    BY <2>2 DEF TimePasses, Tracker!Tick, Tracking!Tick, Tracking!Next
  <2>3. CASE Elsewhere \/ UNCHANGED trapVars
    BY <2>3 DEF Elsewhere, trapVars, trackerVars, Tracking!vars
  <2> QED BY <2>1, <2>2, <2>3 DEF TrapNext
<1> QED BY <1>1, <1>2, PeerTypes, PTL DEF TrapSpec, Tracking!Spec

\* What Detector promises of its verdicts holds in Trap.
LEMMA Verdicts == TrapSpec => [](Tracking!TypeOK /\ Tracking!NoFalseAlarm /\ Tracking!NoMissedScan)
BY TrackerAssumed, TrapRunsTracker, Tracking!TrackerTypes, Tracking!NoFalseAlarms,
   Tracking!NoMissedScans, PTL

----------------------------------------------------------------------------
(* Every connection is recorded. *)

Recording == In({"record"})

\* Only a judgement takes a connection from the tracker, and no other step counts attacks.
LEMMA ElsewhereCounts ==
  ASSUME TypeOK, Elsewhere
  PROVE  /\ metrics'.attacks = metrics.attacks
         /\ Alive' => metrics'.connections - metrics.connections
                        = Cardinality(Recording)' - Cardinality(Recording)
<1> DEFINE R == Cardinality(Recording)
           Goal == /\ metrics'.attacks = metrics.attacks
                   /\ Alive' => metrics'.connections - metrics.connections = R' - R
<1>1. R \in Nat /\ metrics.connections \in Nat BY InFinite DEF Recording, TypeOK
<1>2. \A c \in Conns : ~RecordQuiet(c) /\ ~RecordAlarm(c)
  <2> SUFFICES ASSUME NEW c \in Conns, RecordQuiet(c) \/ RecordAlarm(c) PROVE FALSE OBVIOUS
  <2>1. conn[c] = "record" /\ conn'[c] \notin {"record", "killed"}
    BY DEF RecordQuiet, RecordAlarm, JustAdvance, Advance, TypeOK
  <2> QED BY <2>1 DEF Elsewhere
<1>3. ASSUME NEW c \in Conns, NEW from, NEW to, Advance(c, from, to)
      PROVE  /\ from # "record" /\ to = "record" => R' = R + 1
             /\ from # "record" /\ to # "record" => R' = R
  BY <1>3, MoveIn DEF Advance, TypeOK, Recording
<1>4. UNCHANGED <<conn, metrics>> => Goal BY <1>1 DEF Recording, In
<1> HIDE DEF R
<1>5. ASSUME NEW c \in Conns, Accept(c) PROVE Goal
  <2>1. R' = R + 1 BY <1>3, <1>5 DEF Accept
  <2>2. metrics'.connections = metrics.connections + 1 /\ metrics'.attacks = metrics.attacks
    BY <1>5 DEF Accept, TypeOK
  <2> QED BY <1>1, <2>1, <2>2
<1>6. ASSUME NEW c \in Conns,
             LoopStep(c) \/ HandlerReturns(c) \/ Uncount(c) \/ ReleasePermit(c)
      PROVE  Goal
  <2>1. R' = R /\ UNCHANGED metrics
    BY <1>2, <1>3, <1>6 DEF LoopStep, RequestMigration, AcquirePermit, DropAtLimit, SpawnHandler,
       HandlerReturns, Uncount, ReleasePermit, JustAdvance
  <2> QED BY <1>1, <2>1
<1>7. CASE \/ \E c \in Conns, g \in Gens : Connect(c, g)
           \/ \E g \in Gens : StopListener(g)
  <2>1. Recording' = Recording
    <3>1. \A c \in Conns : conn[c] = "record" <=> conn'[c] = "record"
      BY <1>7 DEF TypeOK, Connect, StopListener
    <3> QED BY <3>1 DEF Recording, In
  <2>2. UNCHANGED metrics BY <1>7 DEF Connect, StopListener
  <2> QED BY <1>1, <2>1, <2>2 DEF R
<1>8. CASE Publish
  <2>1. UNCHANGED conn BY <1>8 DEF Publish, ExecMove, connVars
  <2>2. metrics'.connections = metrics.connections /\ metrics'.attacks = metrics.attacks
    BY <1>8 DEF Publish, TypeOK
  <2> QED BY <1>1, <2>1, <2>2 DEF R, Recording, In
<1>9. CASE \/ \E g \in Gens : Bind(g)
           \/ ReceiveRequest \/ CheckCooldown \/ (\E p \in Ports : FindPort(p)) \/ NoFreePort
           \/ Wake \/ SwapSender \/ Cancel \/ CooldownEnds \/ CtrlC
           \/ SignalShutdown \/ DrainDone \/ DrainDeadline
  <2>1. UNCHANGED <<conn, metrics>>
    BY <1>9 DEF Bind, ReceiveRequest, CheckCooldown, FindPort, NoFreePort, Wake, SwapSender, Cancel,
       CooldownEnds, JustExecMove, ExecMove, CtrlC, SignalShutdown, DrainDone,
       DrainDeadline, connVars
  <2> QED BY <1>4, <2>1 DEF R
<1>10. CASE Exit BY <1>10 DEF Exit, Alive
<1> QED BY <1>5, <1>6, <1>7, <1>8, <1>9, <1>10 DEF Elsewhere, Next, ExecStep, MainStep, R

\* What a judgement does to the counters, the connection and the history of hits.
LEMMA JudgeCounts ==
  ASSUME TypeOK, Tracking!TypeOK, PeerType, NEW c \in Conns, Judge(c)
  PROVE  /\ Cardinality(Recording)' = Cardinality(Recording) - 1
         /\ metrics'.connections = metrics.connections
         /\ metrics'.attacks = metrics.attacks + (IF alarm' THEN 1 ELSE 0)
         /\ Len(log') = Len(log) + 1 /\ Len(log) \in Nat
         /\ \A h \in 1 .. Len(log) : log'[h] = log[h]
         /\ \A h \in 1 .. Len(log') : log'[h].ip \in Ips
<1>1. ASSUME NEW to, Advance(c, "record", to), to # "record"
      PROVE  Cardinality(Recording)' = Cardinality(Recording) - 1
  BY <1>1, MoveIn DEF Advance, TypeOK, Recording
<1>2. /\ Cardinality(Recording)' = Cardinality(Recording) - 1
      /\ metrics'.connections = metrics.connections
      /\ metrics'.attacks = metrics.attacks + (IF alarm' THEN 1 ELSE 0)
  BY <1>1 DEF Judge, RecordAlarm, RecordQuiet, JustAdvance, TypeOK
<1>3. /\ Len(log') = Len(log) + 1 /\ Len(log) \in Nat
      /\ \A h \in 1 .. Len(log) : log'[h] = log[h]
      /\ \A h \in 1 .. Len(log') : log'[h] \in [ip : Ips, at : Nat]
  <2> PICK ip \in Ips : Tracking!Record(ip) BY SameRecord DEF Judge, PeerType
  <2> QED BY Tracking!LogOfRecord, TrackerAssumed
<1> QED BY <1>2, <1>3

\* A process that has exited stays so.
LEMMA ExitIsFinal == [Next]_vars /\ Alive' => Alive
<1> SUFFICES ASSUME [Next]_vars, Alive' PROVE Alive OBVIOUS
<1>1. UNCHANGED main \/ Alive
  BY DEF Next, Connect, Bind, StopListener, Accept, LoopStep, RecordQuiet, RecordAlarm,
       RequestMigration, AcquirePermit, DropAtLimit, SpawnHandler, HandlerReturns, Uncount,
       ReleasePermit, JustAdvance, Advance, ExecStep, ReceiveRequest, CheckCooldown, FindPort,
       NoFreePort, Wake, SwapSender, Publish, Cancel, JustExecMove, ExecMove, CooldownEnds, CtrlC,
       MainStep, SignalShutdown, DrainDone, DrainDeadline, Exit, vars, mainVars, Alive
<1> QED BY <1>1 DEF Alive

\* Until the exit, the accepted connections are the hits recorded and the connections about to be: no
\* listener lets one pass.
THEOREM EveryConnectionIsRecorded == TrapSpec => []HitsAreConnections
<1>1. HitsAreConnections
        <=> (Alive => metrics.connections = Len(log) + Cardinality(Recording))
  BY DEF HitsAreConnections, Recording, In
<1>2. TrapInit => HitsAreConnections
  <2> SUFFICES ASSUME TrapInit PROVE HitsAreConnections OBVIOUS
  <2>1. Recording = {} BY DEF TrapInit, Init, Recording, In
  <2> QED BY <1>1, <2>1, FS_EmptySet DEF TrapInit, Init, Tracker!Init
<1>3. TypeOK /\ TypeOK' /\ Tracking!TypeOK /\ PeerType /\ HitsAreConnections /\ [TrapNext]_trapVars
        => HitsAreConnections'
  <2> SUFFICES ASSUME TypeOK, TypeOK', Tracking!TypeOK, PeerType, HitsAreConnections, [TrapNext]_trapVars,
                      Alive'
               PROVE  metrics'.connections = Len(log') + Cardinality(Recording)'
    BY <1>1 DEF HitsAreConnections, Recording, In
  <2>0. Alive
    <3>1. [Next]_vars
      BY DEF TrapNext, Judge, Next, LoopStep, Elsewhere, TimePasses, trapVars
    <3> QED BY <3>1, ExitIsFinal
  <2> DEFINE R == Cardinality(Recording)
  <2>1. R \in Nat /\ Len(log) \in Nat /\ metrics.connections = Len(log) + R
    BY <1>1, <2>0, InFinite DEF Recording, Tracking!TypeOK
  <2>2. CASE \E c \in Conns : Judge(c)
    <3>1. R' = R - 1 /\ metrics'.connections = metrics.connections /\ Len(log') = Len(log) + 1
      BY <2>2, JudgeCounts
    <3> HIDE DEF R
    <3> QED BY <2>1, <3>1 DEF R
  <2>3. CASE Elsewhere
    <3>1. metrics'.connections - metrics.connections = R' - R /\ log' = log
      BY <2>3, ElsewhereCounts DEF Elsewhere, trackerVars
    <3>2. R' \in Nat
      <4>1. Recording' \in SUBSET Conns BY DEF Recording, In
      <4> QED BY <4>1, ConnsCount, FS_Subset, FS_CardinalityType
    <3>3. metrics.connections \in Nat /\ metrics'.connections \in Nat BY DEF TypeOK
    <3> HIDE DEF R
    <3> QED BY <2>1, <3>1, <3>2, <3>3 DEF R
  <2>4. CASE TimePasses \/ UNCHANGED trapVars
    BY <2>1, <2>4 DEF TimePasses, Tracker!Tick, trapVars, trackerVars, vars, connVars, Recording, In
  <2> QED BY <2>2, <2>3, <2>4 DEF TrapNext
<1> QED BY <1>2, <1>3, Verdicts, PeerTypes, TrapRunsNetwork, TypeCorrect, PTL DEF TrapSpec
----------------------------------------------------------------------------
(* The attacks counted are scans. *)

\* The last verdict is right: an alarm is a scan, and while the tracker has room for
\* every address a scan is an alarm.
VerdictInv ==
  /\ alarm \in BOOLEAN
  /\ alarm => log # <<>> /\ Cardinality(Tracker!Recent(Len(log))) >= Threshold
  /\ log # <<>> /\ Cardinality(Ips) <= MaxTracked
       /\ Cardinality(Tracker!Recent(Len(log))) >= Threshold => alarm

\* Fewer addresses than there are come between two hits of one of them.
LEMMA OthersAreFewer ==
  ASSUME Tracking!TypeOK, NEW h \in 1 .. Len(log)
  PROVE  /\ Cardinality(Tracking!SeenAfter(h)) < Cardinality(Ips)
         /\ Cardinality(Tracking!SeenAfter(h)) \in Nat /\ Cardinality(Ips) \in Nat
<1>1. \A g \in 1 .. Len(log) : log[g].ip \in Ips
  BY Tracking!HitOfLog, TrackerAssumed DEF Tracking!TypeOK
<1>2. Len(log) \in Nat BY DEF Tracking!TypeOK
<1>3. Tracking!SeenAfter(h) \in SUBSET (Ips \ {log[h].ip}) BY <1>1, <1>2 DEF Tracking!SeenAfter
<1>4. IsFiniteSet(Ips \ {log[h].ip}) /\ Cardinality(Ips \ {log[h].ip}) = Cardinality(Ips) - 1
  BY <1>1, TrapAssumption, FS_RemoveElement
<1>5. Cardinality(Tracking!SeenAfter(h)) <= Cardinality(Ips \ {log[h].ip})
  BY <1>3, <1>4, FS_Subset
<1>6. Cardinality(Tracking!SeenAfter(h)) \in Nat /\ Cardinality(Ips) \in Nat
  BY <1>3, <1>4, TrapAssumption, FS_Subset, FS_CardinalityType
<1> QED BY <1>4, <1>5, <1>6

\* What Detector promises of a verdict, as it concerns the counters.
LEMMA VerdictInvariant == TrapSpec => []VerdictInv
<1>1. Tracking!TypeOK /\ Tracking!NoFalseAlarm /\ Tracking!NoMissedScan => VerdictInv
  <2> SUFFICES ASSUME Tracking!TypeOK, Tracking!NoFalseAlarm, Tracking!NoMissedScan PROVE VerdictInv
    OBVIOUS
  <2>1. \A n : Tracker!Recent(n) = Tracking!Recent(n) BY DEF Tracker!Recent, Tracking!Recent
  <2>2. alarm \in BOOLEAN BY DEF Tracking!TypeOK
  <2>3. alarm => log # <<>> /\ Cardinality(Tracker!Recent(Len(log))) >= Threshold
    BY <2>1, SameCount DEF Tracking!NoFalseAlarm
  <2>4. ASSUME log # <<>>, ~alarm, Cardinality(Ips) <= MaxTracked,
               Cardinality(Tracker!Recent(Len(log))) >= Threshold
        PROVE  FALSE
    <3>1. PICK h \in Tracking!Recent(Len(log)) : Cardinality(Tracking!SeenAfter(h)) >= MaxTracked
      BY <2>1, <2>4, SameCount DEF Tracking!NoMissedScan
    <3>2. h \in 1 .. Len(log) BY DEF Tracking!Recent
    <3>3. /\ Cardinality(Tracking!SeenAfter(h)) < Cardinality(Ips)
          /\ Cardinality(Tracking!SeenAfter(h)) \in Nat /\ Cardinality(Ips) \in Nat
      BY <3>2, OthersAreFewer
    <3> QED BY <2>4, <3>1, <3>3, TrapAssumption
  <2> QED BY <2>2, <2>3, <2>4 DEF VerdictInv
<1> QED BY <1>1, Verdicts, PTL

\* The places of a sequence are finitely many.
LEMMA PlacesFinite == ASSUME NEW k \in Nat PROVE IsFiniteSet(1 .. k)
<1>1. 1 \in Int /\ k \in Int OBVIOUS
<1> QED BY <1>1, FS_Interval, Zenon

\* A call adds its own hit to the scans, or nothing.
LEMMA ScansOfJudge ==
  ASSUME Len(log) \in Nat, Len(log') = Len(log) + 1, \A h \in 1 .. Len(log) : log'[h] = log[h]
  PROVE  /\ Cardinality(Scans) \in Nat
         /\ Cardinality(Scans)' =
              IF Cardinality(Tracker!Recent(Len(log)))' >= Threshold
                THEN Cardinality(Scans) + 1 ELSE Cardinality(Scans)
<1> DEFINE n == Len(log) + 1
           scan == Cardinality(Tracker!Recent(Len(log)))' >= Threshold
<1>1. \A m \in 1 .. Len(log) : Tracker!Recent(m)' = Tracker!Recent(m)
  BY DEF Tracker!Recent
<1>2. Scans' = {m \in 1 .. n : Cardinality(Tracker!Recent(m)') >= Threshold} BY DEF Scans
<1>3. \A m \in 1 .. n : m = n \/ m \in 1 .. Len(log) OBVIOUS
<1>4. Scans' = IF scan THEN Scans \cup {n} ELSE Scans
  BY <1>1, <1>2, <1>3 DEF Scans
<1>5. n \notin Scans BY DEF Scans
<1>6. IsFiniteSet(Scans) /\ Cardinality(Scans) \in Nat
  <2>1. Scans \in SUBSET (1 .. Len(log)) BY DEF Scans
  <2>2. IsFiniteSet(1 .. Len(log)) BY PlacesFinite
  <2> QED BY <2>1, <2>2, FS_Subset, FS_CardinalityType
<1> QED BY <1>4, <1>5, <1>6, FS_AddElement

\* Each attack counted is a scan, and as long as there is room for every address each
\* scan is counted.
AttackInv ==
  /\ metrics.attacks <= Cardinality(Scans)
  /\ AttacksAreScans

LEMMA AttackInvariant == TrapSpec => []AttackInv
<1>1. TrapInit => AttackInv
  <2> SUFFICES ASSUME TrapInit PROVE AttackInv OBVIOUS
  <2>1. Scans = {} BY DEF TrapInit, Tracker!Init, Scans
  <2> QED BY <2>1, FS_EmptySet DEF TrapInit, Init, AttackInv, AttacksAreScans
<1>2. TypeOK /\ Tracking!TypeOK /\ PeerType /\ VerdictInv' /\ AttackInv /\ [TrapNext]_trapVars
        => AttackInv'
  <2> SUFFICES ASSUME TypeOK, Tracking!TypeOK, PeerType, VerdictInv', AttackInv, [TrapNext]_trapVars
               PROVE  AttackInv'
    OBVIOUS
  <2>1. CASE \E c \in Conns : Judge(c)
    <3> DEFINE scan == Cardinality(Tracker!Recent(Len(log)))' >= Threshold
    <3>1. metrics'.attacks = metrics.attacks + (IF alarm' THEN 1 ELSE 0) BY <2>1, JudgeCounts
    <3>2. /\ Cardinality(Scans) \in Nat
          /\ Cardinality(Scans)' = IF scan THEN Cardinality(Scans) + 1 ELSE Cardinality(Scans)
      BY <2>1, JudgeCounts, ScansOfJudge
    <3>3. log' # <<>> BY <2>1 DEF Judge, Tracker!Record
    <3>4. (alarm' => scan) /\ (Cardinality(Ips) <= MaxTracked => (scan => alarm'))
      BY <3>3 DEF VerdictInv
    <3>5. metrics.attacks \in Nat BY DEF TypeOK
    <3> HIDE DEF scan
    <3> QED BY <3>1, <3>2, <3>4, <3>5 DEF AttackInv, AttacksAreScans
  <2>2. CASE Elsewhere
    BY <2>2, ElsewhereCounts
       DEF AttackInv, AttacksAreScans, Scans, Tracker!Recent, Elsewhere, trackerVars
  <2>3. CASE TimePasses \/ UNCHANGED trapVars
    BY <2>3 DEF AttackInv, AttacksAreScans, Scans, Tracker!Recent, TimePasses, Tracker!Tick,
       trapVars, trackerVars, vars
  <2> QED BY <2>1, <2>2, <2>3 DEF TrapNext
<1> QED BY <1>1, <1>2, Verdicts, PeerTypes, VerdictInvariant, TrapRunsNetwork, TypeCorrect, PTL
       DEF TrapSpec

\* While the tracker has room for every address, the attacks counted are exactly the scans,
\* through all migrations.
THEOREM AttacksAreExact == TrapSpec => []AttacksAreScans
<1>1. AttackInv => AttacksAreScans BY DEF AttackInv
<1> QED BY <1>1, AttackInvariant, PTL

\* The honeypot moves for scans only, and at most once for each.
THEOREM MovesAnswerScans == TrapSpec => []MigrationsWithinScans
<1>1. TypeOK /\ Tracking!TypeOK /\ AttackInv /\ MigrationsWithinAlarms => MigrationsWithinScans
  <2> SUFFICES ASSUME TypeOK, Tracking!TypeOK, AttackInv, MigrationsWithinAlarms
               PROVE  MigrationsWithinScans
    OBVIOUS
  <2>1. metrics.attacks \in Nat /\ metrics.migrations \in Nat BY DEF TypeOK
  <2>2. Cardinality(Scans) \in Nat
    <3>1. Scans \in SUBSET (1 .. Len(log)) /\ IsFiniteSet(1 .. Len(log))
      BY FS_Interval DEF Scans, Tracking!TypeOK
    <3> QED BY <3>1, FS_Subset, FS_CardinalityType
  <2> QED BY <2>1, <2>2 DEF AttackInv, MigrationsWithinAlarms, MigrationsWithinScans
<1> QED BY <1>1, Verdicts, AttackInvariant, TrapRunsNetwork, TypeCorrect, MigrationsAnswerAlarms, PTL
=============================================================================
