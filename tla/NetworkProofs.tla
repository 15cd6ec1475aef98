--------------------------- MODULE NetworkProofs ---------------------------
(***************************************************************************)
(* Proofs about Network for any connections, ports, limit, queue capacity  *)
(* and number of migrations.                                               *)
(***************************************************************************)
EXTENDS Network, FiniteSetTheorems, TLAPS

\* The connections in one of the states S; Holders and Counted are two such sets.
In(S) == {c \in Conns : conn[c] \in S}

HolderStates  == {"count", "serving", "served", "uncounted"}
CountedStates == {"serving", "served"}

\* Permits and counter, in the form the steps preserve: until the process exits they
\* are what is left of the limit, and the number of running handlers.
LimitInv ==
  Alive => /\ permits + Cardinality(In(HolderStates)) = MaxConn
           /\ active = Cardinality(In(CountedStates))

CoreInv == TypeOK /\ LimitInv

----------------------------------------------------------------------------
(* Sets of connections. *)

\* Any set of connections chosen by their state is finite.
LEMMA InFinite ==
  ASSUME NEW S
  PROVE  IsFiniteSet(In(S)) /\ Cardinality(In(S)) \in Nat
<1>1. IsFiniteSet(Conns) BY NetworkAssumption
<1>2. In(S) \in SUBSET Conns BY DEF In
<1> QED BY <1>1, <1>2, FS_Subset, FS_CardinalityType

\* A connection that enters, leaves or stays out of the states S changes their number
\* by one, minus one or zero.
LEMMA MoveIn ==
  ASSUME NEW S, NEW c \in Conns, NEW to,
         conn \in [Conns -> ConnState], conn' = [conn EXCEPT ![c] = to]
  PROVE  /\ conn[c] \notin S /\ to \in S    => Cardinality(In(S))' = Cardinality(In(S)) + 1
         /\ conn[c] \in S    /\ to \notin S => Cardinality(In(S))' = Cardinality(In(S)) - 1
         /\ (conn[c] \in S <=> to \in S)    => Cardinality(In(S))' = Cardinality(In(S))
         /\ conn[c] \in S                   => Cardinality(In(S)) > 0
<1>1. IsFiniteSet(In(S)) /\ Cardinality(In(S)) \in Nat BY InFinite
<1>2. conn[c] \notin S /\ to \in S => In(S)' = In(S) \cup {c} /\ c \notin In(S)
  BY DEF In
<1>3. conn[c] \in S /\ to \notin S => In(S)' = In(S) \ {c} /\ c \in In(S)
  BY DEF In
<1>4. (conn[c] \in S <=> to \in S) => In(S)' = In(S)
  BY DEF In
<1>5. conn[c] \in S => Cardinality(In(S)) > 0
  <2>1. conn[c] \in S => In(S) # {} BY DEF In
  <2> QED BY <1>1, <2>1, FS_EmptySet
<1>6. /\ Cardinality(In(S) \cup {c}) = IF c \in In(S) THEN Cardinality(In(S)) ELSE Cardinality(In(S)) + 1
      /\ Cardinality(In(S) \ {c}) = IF c \in In(S) THEN Cardinality(In(S)) - 1 ELSE Cardinality(In(S))
  BY <1>1, FS_AddElement, FS_RemoveElement
<1> QED BY <1>2, <1>3, <1>4, <1>5, <1>6

\* The two names of Network for these sets.
LEMMA HoldersIn == Holders = In(HolderStates) /\ Counted = In(CountedStates)
BY DEF Holders, Counted, In, HolderStates, CountedStates

\* The type of metrics.
MetricsType == [connections : Nat, attacks : Nat, migrations : Nat, port : Ports]

\* Counting a connection, an attack or a migration leaves metrics of the same type.
LEMMA MetricsUpdate ==
  ASSUME NEW m \in MetricsType, NEW p \in Ports
  PROVE  /\ [m EXCEPT !.connections = @ + 1] \in MetricsType
         /\ [m EXCEPT !.attacks = @ + 1] \in MetricsType
         /\ [m EXCEPT !.port = p, !.migrations = @ + 1] \in MetricsType
<1>1. m.connections + 1 \in Nat /\ m.attacks + 1 \in Nat /\ m.migrations + 1 \in Nat
  BY DEF MetricsType
<1>2. [m EXCEPT !.connections = @ + 1] \in MetricsType BY <1>1 DEF MetricsType
<1>3. [m EXCEPT !.attacks = @ + 1] \in MetricsType BY <1>1 DEF MetricsType
<1>4. [m EXCEPT !.port = p, !.migrations = @ + 1] \in MetricsType BY <1>1 DEF MetricsType
<1> QED BY <1>2, <1>3, <1>4

----------------------------------------------------------------------------
(* The connection limit. *)

\* The invariant of the connection limit holds at start-up.
LEMMA CoreInit == Init => CoreInv
<1> SUFFICES ASSUME Init PROVE CoreInv OBVIOUS
<1>1. TypeOK
  <2>1. 0 \in Gens /\ InitPort \in Ports /\ MaxConn \in Nat BY NetworkAssumption DEF Gens
  <2>2. loop \in [Gens -> LoopState] /\ port \in [Gens -> Ports] /\ stop \in [Gens -> BOOLEAN]
    BY <2>1 DEF Init, LoopState
  <2>3. conn \in [Conns -> ConnState] /\ home \in [Conns -> Gens]
    BY <2>1 DEF Init, ConnState
  <2>4. metrics \in [connections : Nat, attacks : Nat, migrations : Nat, port : Ports]
    BY <2>1 DEF Init
  <2>5. queue \in Seq(Nat) BY DEF Init
  <2> QED BY <2>1, <2>2, <2>3, <2>4, <2>5 DEF Init, TypeOK, ExecState, MainState
<1>2. In(HolderStates) = {} /\ In(CountedStates) = {}
  BY DEF Init, In, HolderStates, CountedStates
<1>3. LimitInv BY <1>2, FS_EmptySet, NetworkAssumption DEF Init, LimitInv
<1> QED BY <1>1, <1>3 DEF CoreInv

\* What the steps that move one connection do to the two counts.
LEMMA CoreMove ==
  ASSUME CoreInv, NEW c \in Conns, NEW from, NEW to \in ConnState,
         Advance(c, from, to),
         permits' = permits + (IF from \in HolderStates THEN 1 ELSE 0)
                            - (IF to \in HolderStates THEN 1 ELSE 0),
         active' = active + (IF to \in CountedStates THEN 1 ELSE 0)
                          - (IF from \in CountedStates THEN 1 ELSE 0),
         permits' \in Nat,
         queue' \in Seq(Nat),
         metrics' \in MetricsType
  PROVE  CoreInv'
<1>1. /\ conn \in [Conns -> ConnState] /\ conn' = [conn EXCEPT ![c] = to]
      /\ conn[c] = from /\ permits \in Nat /\ active \in Nat
  BY DEF CoreInv, TypeOK, Advance
<1> DEFINE H == Cardinality(In(HolderStates))  K == Cardinality(In(CountedStates))
<1>2. /\ from \notin HolderStates /\ to \in HolderStates    => H' = H + 1
      /\ from \in HolderStates    /\ to \notin HolderStates => H' = H - 1
      /\ (from \in HolderStates <=> to \in HolderStates)    => H' = H
      /\ H \in Nat
  BY <1>1, MoveIn, InFinite
<1>3. /\ from \notin CountedStates /\ to \in CountedStates    => K' = K + 1
      /\ from \in CountedStates    /\ to \notin CountedStates => K' = K - 1 /\ K > 0
      /\ (from \in CountedStates <=> to \in CountedStates)    => K' = K
      /\ K \in Nat
  BY <1>1, MoveIn, InFinite
<1>4. permits + H = MaxConn /\ active = K BY DEF CoreInv, LimitInv, Advance
<1> HIDE DEF H, K
<1>5. permits' \in Nat /\ permits' + H' = MaxConn
  BY <1>1, <1>2, <1>4, NetworkAssumption
<1>6. active' \in Nat /\ active' = K'
  BY <1>1, <1>3, <1>4
<1>7. conn' \in [Conns -> ConnState] BY <1>1
<1>8. TypeOK'
  BY <1>5, <1>6, <1>7 DEF CoreInv, TypeOK, MetricsType, Advance, listenerVars, execVars, mainVars
<1> QED BY <1>5, <1>6, <1>8 DEF CoreInv, LimitInv, H, K

\* What the other steps have to keep.
LEMMA CoreStutter ==
  ASSUME CoreInv, UNCHANGED <<conn, permits, active>>, Alive' => Alive, TypeOK'
  PROVE  CoreInv'
BY DEF CoreInv, LimitInv, In

\* The accept loops and handlers.
LEMMA CoreConn ==
  ASSUME CoreInv, NEW c \in Conns,
         Accept(c) \/ LoopStep(c) \/ HandlerReturns(c) \/ Uncount(c) \/ ReleasePermit(c)
  PROVE  CoreInv'
<1> USE DEF HolderStates, CountedStates, JustAdvance, limitVars
<1>1. /\ permits \in Nat /\ active \in Nat /\ queue \in Seq(Nat)
      /\ metrics \in MetricsType
  BY DEF CoreInv, TypeOK, MetricsType
<1>2. {"record", "request", "acquire", "count", "serving", "served", "uncounted",
       "closed", "finned"} \subseteq ConnState
  BY DEF ConnState, InLoop, Fates
<1>3. CASE Accept(c)
  <2>1. Advance(c, "backlog", "record") /\ UNCHANGED <<permits, active, queue>>
    BY <1>3 DEF Accept
  <2>2. metrics' \in MetricsType BY <1>1, <1>3, MetricsUpdate, NetworkAssumption DEF Accept
  <2> QED BY ONLY CoreInv, <1>1, <1>2, <2>1, <2>2, CoreMove, c \in Conns
<1>4. CASE RecordQuiet(c)
  BY ONLY CoreInv, c \in Conns, <1>1, <1>2, <1>4, CoreMove DEF RecordQuiet
<1>5. CASE RecordAlarm(c)
  <2>1. Advance(c, "record", "request") /\ UNCHANGED <<permits, active, queue>>
    BY <1>5 DEF RecordAlarm
  <2>2. metrics' \in MetricsType BY <1>1, <1>5, MetricsUpdate, NetworkAssumption DEF RecordAlarm
  <2> QED BY ONLY CoreInv, <1>1, <1>2, <2>1, <2>2, CoreMove, c \in Conns
<1>6. CASE RequestMigration(c)
  <2>1. Advance(c, "request", "acquire") /\ UNCHANGED <<limitVars, metrics>>
        /\ queue' \in Seq(Nat)
    BY <1>1, <1>6 DEF RequestMigration, MetricsType
  <2> QED BY ONLY CoreInv, <1>1, <1>2, <2>1, CoreMove, c \in Conns
<1>7. CASE AcquirePermit(c)
  BY ONLY CoreInv, c \in Conns, <1>1, <1>2, <1>7, CoreMove DEF AcquirePermit
<1>8. CASE DropAtLimit(c)
  BY ONLY CoreInv, c \in Conns, <1>1, <1>2, <1>8, CoreMove DEF DropAtLimit
<1>9. CASE SpawnHandler(c)
  BY ONLY CoreInv, c \in Conns, <1>1, <1>2, <1>9, CoreMove DEF SpawnHandler
<1>10. CASE HandlerReturns(c)
  BY ONLY CoreInv, c \in Conns, <1>1, <1>2, <1>10, CoreMove DEF HandlerReturns
<1>11. CASE Uncount(c)
  BY ONLY CoreInv, c \in Conns, <1>1, <1>2, <1>11, CoreMove DEF Uncount
<1>12. CASE ReleasePermit(c)
  BY ONLY CoreInv, c \in Conns, <1>1, <1>2, <1>12, CoreMove DEF ReleasePermit
<1> QED BY <1>3, <1>4, <1>5, <1>6, <1>7, <1>8, <1>9, <1>10, <1>11, <1>12 DEF LoopStep

\* The migration executor.
LEMMA CoreExec == CoreInv /\ (ExecStep \/ CooldownEnds) => CoreInv'
<1> SUFFICES ASSUME CoreInv, ExecStep \/ CooldownEnds PROVE CoreInv' OBVIOUS
<1>1. TypeOK BY DEF CoreInv
<1> USE DEF ExecMove, JustExecMove, listenerVars, connVars, limitVars, mainVars, TypeOK, ExecState, Alive
<1>2. CASE ReceiveRequest
  <2>1. queue' \in Seq(Nat) /\ req' \in Nat BY <1>1, <1>2 DEF ReceiveRequest
  <2>2. TypeOK' BY <1>1, <1>2, <2>1 DEF ReceiveRequest
  <2> QED BY <1>2, <2>2, CoreStutter DEF ReceiveRequest
<1>3. CASE CheckCooldown \/ NoFreePort \/ Wake
  <2>1. TypeOK' BY <1>1, <1>3 DEF CheckCooldown, NoFreePort, Wake
  <2> QED BY <1>3, <2>1, CoreStutter DEF CheckCooldown, NoFreePort, Wake
<1>4. CASE \E p \in Ports : FindPort(p)
  <2>1. lastGen' \in Gens /\ "spawned" \in LoopState
    BY <1>1, <1>4, NetworkAssumption DEF FindPort, Gens, LoopState
  <2>2. TypeOK' BY <1>1, <1>4, <2>1 DEF FindPort
  <2> QED BY <1>4, <2>2, CoreStutter DEF FindPort
<1>5. CASE SwapSender
  <2>1. TypeOK' BY <1>1, <1>5 DEF SwapSender
  <2> QED BY <1>5, <2>1, CoreStutter DEF SwapSender
<1>6. CASE Publish
  <2>1. port[lastGen] \in Ports /\ metrics \in MetricsType BY <1>1 DEF MetricsType
  <2>2. metrics' \in MetricsType BY <1>6, <2>1, MetricsUpdate DEF Publish
  <2>3. curPort' \in Ports /\ cooling' \in BOOLEAN /\ exec' \in ExecState
    BY <1>6, <2>1 DEF Publish
  <2>4. TypeOK' BY <1>1, <1>6, <2>2, <2>3 DEF Publish, MetricsType
  <2> QED BY <1>6, <2>4, CoreStutter DEF Publish
<1>7. CASE Cancel
  <2>1. queue' \in Seq(Nat) BY <1>7 DEF Cancel
  <2>2. stop' \in [Gens -> BOOLEAN] BY <1>1, <1>7 DEF Cancel
  <2>3. TypeOK' BY <1>1, <1>7, <2>1, <2>2 DEF Cancel
  <2> QED BY <1>7, <2>3, CoreStutter DEF Cancel
<1>8. CASE CooldownEnds
  <2>1. TypeOK' BY <1>1, <1>8 DEF CooldownEnds
  <2> QED BY <1>8, <2>1, CoreStutter DEF CooldownEnds
<1> QED BY <1>2, <1>3, <1>4, <1>5, <1>6, <1>7, <1>8 DEF ExecStep

\* Listeners starting and stopping, the environment and the shutdown.
LEMMA CoreRest ==
  ASSUME CoreInv,
         \/ \E c \in Conns, g \in Gens : Connect(c, g)
         \/ \E g \in Gens : Bind(g) \/ StopListener(g)
         \/ CtrlC \/ MainStep
         \/ UNCHANGED vars
  PROVE  CoreInv'
<1>1. TypeOK BY DEF CoreInv
<1> USE DEF listenerVars, connVars, limitVars, execVars, mainVars, TypeOK, Alive
<1>2. CASE \E c \in Conns, g \in Gens : Connect(c, g)
  <2> PICK c \in Conns, g \in Gens : Connect(c, g) BY <1>2
  <2>1. /\ conn[c] = "idle" /\ conn' = [conn EXCEPT ![c] = "backlog"]
        /\ UNCHANGED <<permits, active, main>>
    BY DEF Connect
  <2>2. TypeOK' BY <1>1 DEF Connect, ConnState
  <2>3. In(HolderStates)' = In(HolderStates) /\ In(CountedStates)' = In(CountedStates)
    BY <1>1, <2>1 DEF In, HolderStates, CountedStates
  <2> QED BY <2>1, <2>2, <2>3 DEF CoreInv, LimitInv
<1>3. CASE \E g \in Gens : Bind(g)
  <2>1. TypeOK' BY <1>1, <1>3 DEF Bind, LoopState
  <2> QED BY <1>3, <2>1, CoreStutter DEF Bind
<1>4. CASE \E g \in Gens : StopListener(g)
  <2> PICK g \in Gens : StopListener(g) BY <1>4
  <2>1. \A c \in Conns : conn'[c] = conn[c] \/ (conn[c] = "backlog" /\ conn'[c] = "reset")
    BY <1>1 DEF StopListener
  <2>2. conn' \in [Conns -> ConnState] BY <1>1, <2>1 DEF StopListener, ConnState, Fates
  <2>3. TypeOK' BY <1>1, <2>2 DEF StopListener, LoopState
  <2>4. In(HolderStates)' = In(HolderStates) /\ In(CountedStates)' = In(CountedStates)
    BY <2>1 DEF In, HolderStates, CountedStates
  <2> QED BY <2>3, <2>4 DEF CoreInv, LimitInv, StopListener
<1>5. CASE CtrlC \/ SignalShutdown \/ DrainDone \/ DrainDeadline
  <2>1. TypeOK' BY <1>1, <1>5 DEF CtrlC, SignalShutdown, DrainDone, DrainDeadline, MainState
  <2> QED BY <1>5, <2>1, CoreStutter DEF CtrlC, SignalShutdown, DrainDone, DrainDeadline
<1>7. CASE Exit
  <2>1. \A s \in ConnState : AtExit(s) \in ConnState BY DEF AtExit, ConnState, InLoop, Fates
  <2>2. conn' \in [Conns -> ConnState] BY <1>1, <1>7, <2>1 DEF Exit
  <2>3. TypeOK' BY <1>1, <1>7, <2>2 DEF Exit, MainState
  <2> QED BY <1>7, <2>3 DEF Exit, CoreInv, LimitInv
<1>6. CASE UNCHANGED vars
  <2>1. TypeOK' BY <1>1, <1>6 DEF vars
  <2> QED BY <1>6, <2>1, CoreStutter DEF vars
<1> QED BY <1>2, <1>3, <1>4, <1>5, <1>6, <1>7 DEF MainStep

\* CoreInv is inductive.
THEOREM CoreInvariant == Spec => []CoreInv
<1>1. CoreInv /\ [Next]_vars => CoreInv'
  BY CoreConn, CoreExec, CoreRest DEF Next
<1> QED BY CoreInit, <1>1, PTL DEF Spec

\* Every variable keeps its type; active_connections, an unsigned counter in the code,
\* never goes below zero.
THEOREM TypeCorrect == Spec => []TypeOK
<1>1. CoreInv => TypeOK BY DEF CoreInv
<1> QED BY <1>1, CoreInvariant, PTL

\* The permits of the semaphore are conserved over any number of listeners.
THEOREM PermitsAreConserved == Spec => []PermitsConserved
<1>1. CoreInv => PermitsConserved
  BY HoldersIn DEF CoreInv, LimitInv, PermitsConserved
<1> QED BY <1>1, CoreInvariant, PTL

\* The counter the drain loop trusts is exact and within the connection limit.
THEOREM ActiveIsWithinLimit == Spec => []ActiveWithinLimit
<1>1. CoreInv => ActiveWithinLimit
  <2> SUFFICES ASSUME CoreInv, Alive PROVE active = Cardinality(Counted) /\ active <= MaxConn
    BY DEF ActiveWithinLimit
  <2>1. In(CountedStates) \in SUBSET In(HolderStates) BY DEF In, HolderStates, CountedStates
  <2>2. Cardinality(In(CountedStates)) <= Cardinality(In(HolderStates))
    BY <2>1, InFinite, FS_Subset
  <2>3. /\ Cardinality(In(CountedStates)) \in Nat /\ Cardinality(In(HolderStates)) \in Nat
        /\ permits \in Nat /\ MaxConn \in Nat
    BY InFinite, NetworkAssumption DEF CoreInv, TypeOK
  <2>4. active <= MaxConn BY <2>2, <2>3 DEF CoreInv, LimitInv
  <2> QED BY <2>4, HoldersIn DEF CoreInv, LimitInv
<1> QED BY <1>1, CoreInvariant, PTL

----------------------------------------------------------------------------
(* The migration executor.  A listener is beyond the reach of shutdown_tx only *)
(* while a migration is starting it, and then it is the one spawned last.      *)

Migrating == exec \in {"sleep", "swap"}

GenInv ==
  /\ ~Migrating /\ exec # "dead" => txGen = lastGen
  /\ Migrating => txGen # lastGen
  /\ NoOrphanListener
  /\ PublishedPortIsCurrent

\* The invariant of the generations holds at start-up: the only listener is the one the
\* sender reaches.
LEMMA GenInit == Init => GenInv
BY NetworkAssumption DEF Gens, Init, GenInv, Migrating, NoOrphanListener, PublishedPortIsCurrent

\* The steps that leave the executor and the listeners' fates alone.
LEMMA GenStutter ==
  ASSUME TypeOK, GenInv, UNCHANGED <<port, exec, lastGen, txGen, curPort, metrics.port>>,
         \A g \in Gens : loop'[g] \in {"spawned", "open"} => loop[g] \in {"spawned", "open"},
         \A g \in Gens : stop[g] => stop'[g]
  PROVE  GenInv'
BY DEF GenInv, Migrating, NoOrphanListener, PublishedPortIsCurrent

\* The executor keeps the invariant of the generations: it signals the listener whose
\* sender it drops, and an abort drops the sender of the listener it was starting.
LEMMA GenExec == CoreInv /\ GenInv /\ (ExecStep \/ CooldownEnds) => GenInv'
<1> SUFFICES ASSUME CoreInv, GenInv, ExecStep \/ CooldownEnds PROVE GenInv' OBVIOUS
<1>1. TypeOK BY DEF CoreInv
<1> USE DEF GenInv, Migrating, NoOrphanListener, PublishedPortIsCurrent, ExecMove, JustExecMove
<1>2. CASE ReceiveRequest \/ CheckCooldown \/ NoFreePort \/ CooldownEnds
  BY <1>1, <1>2 DEF ReceiveRequest, CheckCooldown, NoFreePort, CooldownEnds, listenerVars
<1>3. CASE Wake
  BY <1>1, <1>3 DEF Wake
<1>4. CASE \E p \in Ports : FindPort(p)
  <2> PICK p \in Ports : FindPort(p) BY <1>4
  <2>1. /\ exec = "find" /\ exec' = "sleep" /\ txGen = lastGen /\ lastGen' = lastGen + 1
        /\ UNCHANGED <<stop, txGen, curPort, metrics>>
        /\ txGen \in Gens /\ lastGen' \in Gens /\ txGen # lastGen'
    BY <1>1, NetworkAssumption DEF FindPort, TypeOK, Gens
  <2>2. \A g \in Gens \ {lastGen'} : loop'[g] = loop[g] /\ port'[g] = port[g]
    BY <1>1, <2>1 DEF FindPort, TypeOK
  <2>3. NoOrphanListener' BY <2>1, <2>2
  <2>4. PublishedPortIsCurrent' BY <2>1, <2>2
  <2> QED BY <2>1, <2>3, <2>4
<1>5. CASE SwapSender
  <2>1. /\ exec = "swap" /\ exec' = "publish" /\ txGen' = lastGen /\ txGen \in Gens
        /\ stop' = [stop EXCEPT ![txGen] = TRUE] /\ stop \in [Gens -> BOOLEAN]
        /\ UNCHANGED <<loop, lastGen>>
    BY <1>1, <1>5 DEF SwapSender, TypeOK
  <2>2. NoOrphanListener' BY <2>1
  <2> QED BY <2>1, <2>2
<1>6. CASE Publish
  <2>1. /\ exec = "publish" /\ exec' = "recv" /\ txGen = lastGen /\ curPort' = port[lastGen]
        /\ metrics'.port = port[lastGen] /\ UNCHANGED <<loop, port, stop, lastGen, txGen>>
    BY <1>1, <1>6 DEF Publish, TypeOK
  <2> QED BY <2>1
<1>7. CASE Cancel
  <2>1. exec' = "dead" /\ UNCHANGED <<loop, port, lastGen, txGen>> BY <1>7 DEF Cancel
  <2>2. \A g \in Gens : stop[g] => stop'[g] BY <1>1, <1>7 DEF Cancel, TypeOK
  <2>3. exec \in {"sleep", "swap"} => stop'[lastGen] BY <1>1, <1>7 DEF Cancel, TypeOK
  <2> QED BY <2>1, <2>2, <2>3
<1> QED BY <1>2, <1>3, <1>4, <1>5, <1>6, <1>7 DEF ExecStep

\* Connections, listeners, clients and the shutdown keep the invariant of the generations.
LEMMA GenRest ==
  ASSUME CoreInv, GenInv, [Next]_vars, ~ ExecStep, ~ CooldownEnds
  PROVE  GenInv'
<1>1. TypeOK BY DEF CoreInv
<1>2. ASSUME NEW c \in Conns,
             Accept(c) \/ LoopStep(c) \/ HandlerReturns(c) \/ Uncount(c) \/ ReleasePermit(c)
      PROVE  GenInv'
  <2>1. UNCHANGED <<listenerVars, execVars>>
    BY <1>2 DEF Accept, LoopStep, RecordQuiet, RecordAlarm, RequestMigration, AcquirePermit,
         DropAtLimit, SpawnHandler, HandlerReturns, Uncount, ReleasePermit, JustAdvance, Advance
  <2>2. metrics'.port = metrics.port
    BY <1>1, <1>2 DEF TypeOK, Accept, LoopStep, RecordQuiet, RecordAlarm, RequestMigration,
         AcquirePermit, DropAtLimit, SpawnHandler, HandlerReturns, Uncount, ReleasePermit, JustAdvance
  <2> QED BY <1>1, <2>1, <2>2, GenStutter DEF listenerVars, execVars
<1>3. ASSUME NEW g \in Gens, Bind(g) \/ StopListener(g) PROVE GenInv'
  <2>1. UNCHANGED <<port, stop, execVars, metrics>> BY <1>3 DEF Bind, StopListener
  <2>2. \A h \in Gens : loop'[h] \in {"spawned", "open"} => loop[h] \in {"spawned", "open"}
    BY <1>1, <1>3 DEF Bind, StopListener, Selecting, TypeOK
  <2> QED BY <1>1, <2>1, <2>2, GenStutter DEF execVars
<1>4. CASE SignalShutdown
  <2>1. UNCHANGED <<loop, port, execVars, metrics>> /\ stop' = [stop EXCEPT ![txGen] = TRUE]
    BY <1>4 DEF SignalShutdown
  <2>2. \A g \in Gens : stop[g] => stop'[g] BY <1>1, <2>1 DEF TypeOK
  <2> QED BY <1>1, <2>1, <2>2, GenStutter DEF execVars
<1>5. CASE \/ \E c \in Conns, g \in Gens : Connect(c, g)
           \/ CtrlC \/ DrainDone \/ DrainDeadline \/ Exit \/ UNCHANGED vars
  <2>1. UNCHANGED <<loop, port, stop, execVars, metrics>>
    BY <1>5 DEF Connect, CtrlC, DrainDone, DrainDeadline, Exit, vars, listenerVars
  <2> QED BY <1>1, <2>1, GenStutter DEF execVars
<1> QED BY <1>2, <1>3, <1>4, <1>5 DEF Next, MainStep

\* The invariant of the generations holds in every state.
LEMMA GenInvariant == Spec => []GenInv
<1>1. CoreInv /\ GenInv /\ [Next]_vars => GenInv' BY GenExec, GenRest
<1> QED BY GenInit, <1>1, CoreInvariant, PTL DEF Spec

\* No listener is left running that the shutdown signal cannot reach.
THEOREM NoListenerIsOrphaned == Spec => []NoOrphanListener
<1>1. GenInv => NoOrphanListener BY DEF GenInv
<1> QED BY <1>1, GenInvariant, PTL

\* The published port, the excluded port and the port of the reachable listener agree.
THEOREM PublishedPortIsTheCurrentOne == Spec => []PublishedPortIsCurrent
<1>1. GenInv => PublishedPortIsCurrent BY DEF GenInv
<1> QED BY <1>1, GenInvariant, PTL

----------------------------------------------------------------------------
(* Requests.  Outside the cooldown nothing stale is left, and whatever is  *)
(* between an alarm and the end of its migration was counted as an attack. *)

Busy == exec \in {"cooldown", "find", "sleep", "swap", "publish"}

RequestInv ==
  /\ OneMigrationPerBurst
  /\ ~cooling /\ exec = "cooldown" => ~Stale(req)
  /\ ~cooling => \A i \in 1 .. Len(queue) : ~Stale(queue[i])
  /\ metrics.migrations + Len(queue) + (IF Busy THEN 1 ELSE 0) + Cardinality(In({"request"}))
       <= metrics.attacks

\* The invariant of the migration requests holds at start-up: there are none.
LEMMA RequestInit == Init => RequestInv
<1> SUFFICES ASSUME Init PROVE RequestInv OBVIOUS
<1>1. In({"request"}) = {} BY DEF Init, In
<1>2. Cardinality(In({"request"})) = 0 BY <1>1, FS_EmptySet
<1> QED BY <1>2 DEF Init, RequestInv, Busy, OneMigrationPerBurst

\* The numbers the budget adds up.
LEMMA RequestTypes ==
  ASSUME TypeOK
  PROVE  /\ metrics.migrations \in Nat /\ metrics.attacks \in Nat
         /\ Len(queue) \in Nat /\ Cardinality(In({"request"})) \in Nat
         /\ \A i \in 1 .. Len(queue) : queue[i] \in Nat
BY InFinite DEF TypeOK

\* A step that neither raises nor sends an alarm, though it may end a connection that was
\* about to send one.
LEMMA RequestStutter ==
  ASSUME TypeOK, RequestInv,
         UNCHANGED <<queue, exec, req, cooling, metrics.migrations, metrics.attacks>>,
         Cardinality(In({"request"}))' \in Nat,
         Cardinality(In({"request"}))' <= Cardinality(In({"request"}))
  PROVE  RequestInv'
<1> DEFINE R == Cardinality(In({"request"}))
<1>1. R \in Nat /\ R' \in Nat /\ R' <= R BY InFinite
<1> HIDE DEF R
<1>2. (metrics.migrations + Len(queue) + (IF Busy THEN 1 ELSE 0) + R <= metrics.attacks)'
  BY <1>1, RequestTypes DEF RequestInv, Busy, R
<1> QED BY <1>2 DEF RequestInv, Busy, OneMigrationPerBurst, Stale, R

\* Connections keep the invariant of the requests: a request is sent only for an alarm
\* that has been counted.
LEMMA RequestConn ==
  ASSUME CoreInv, RequestInv, NEW c \in Conns,
         Accept(c) \/ LoopStep(c) \/ HandlerReturns(c) \/ Uncount(c) \/ ReleasePermit(c)
  PROVE  RequestInv'
<1>1. TypeOK BY DEF CoreInv
<1> DEFINE R == Cardinality(In({"request"}))
<1>2. ASSUME NEW from, NEW to, Advance(c, from, to)
      PROVE  /\ from # "request" /\ to = "request" => R' = R + 1
             /\ from = "request" /\ to # "request" => R' = R - 1
             /\ from # "request" /\ to # "request" => R' = R
             /\ UNCHANGED <<exec, req, cooling>>
  BY <1>1, <1>2, MoveIn DEF Advance, execVars, TypeOK
<1> HIDE DEF R
<1>3. CASE RecordAlarm(c)
  <2>1. R' = R + 1 /\ UNCHANGED <<exec, req, cooling, queue>> BY <1>2, <1>3 DEF RecordAlarm
  <2>2. metrics'.attacks = metrics.attacks + 1 /\ metrics'.migrations = metrics.migrations
    BY <1>1, <1>3 DEF RecordAlarm, TypeOK
  <2> QED BY <1>1, <2>1, <2>2, RequestTypes DEF RequestInv, Busy, OneMigrationPerBurst, Stale, R
<1>4. CASE RequestMigration(c)
  <2>1. R' = R - 1 /\ UNCHANGED <<exec, req, cooling, metrics>> BY <1>2, <1>4 DEF RequestMigration
  <2>2. queue' = queue \/ queue' = Append(queue, metrics.migrations) BY <1>4 DEF RequestMigration
  <2>3. /\ Len(queue') \in Nat /\ Len(queue') <= Len(queue) + 1
        /\ \A i \in 1 .. Len(queue') : queue'[i] = metrics.migrations \/ (i \in 1 .. Len(queue) /\ queue'[i] = queue[i])
    BY <1>1, <2>2 DEF TypeOK
  <2>4. OneMigrationPerBurst' /\ (~cooling /\ exec = "cooldown" => ~Stale(req))'
    BY <2>1 DEF RequestInv, OneMigrationPerBurst, Stale
  <2>5. (~cooling => \A i \in 1 .. Len(queue) : ~Stale(queue[i]))'
    BY <2>1, <2>3 DEF RequestInv, Stale
  <2>6. metrics.migrations + Len(queue') + (IF Busy THEN 1 ELSE 0) + R' <= metrics.attacks
    BY <1>1, <2>1, <2>3, RequestTypes DEF RequestInv, R
  <2> QED BY <2>1, <2>4, <2>5, <2>6 DEF RequestInv, Busy, R
<1>5. CASE Accept(c)
  <2>1. R' = R /\ UNCHANGED <<exec, req, cooling, queue>> BY <1>2, <1>5 DEF Accept
  <2>2. metrics'.attacks = metrics.attacks /\ metrics'.migrations = metrics.migrations
    BY <1>1, <1>5 DEF Accept, TypeOK
  <2> QED BY <1>1, <2>1, <2>2, InFinite, RequestStutter DEF R
<1>6. CASE \/ RecordQuiet(c) \/ AcquirePermit(c) \/ DropAtLimit(c) \/ SpawnHandler(c)
           \/ HandlerReturns(c) \/ Uncount(c) \/ ReleasePermit(c)
  <2>1. R' = R /\ UNCHANGED <<exec, req, cooling, queue, metrics>>
    BY <1>2, <1>6 DEF RecordQuiet, AcquirePermit, DropAtLimit, SpawnHandler, HandlerReturns,
         Uncount, ReleasePermit, JustAdvance
  <2> QED BY <1>1, <2>1, InFinite, RequestStutter DEF R
<1> QED BY <1>3, <1>4, <1>5, <1>6 DEF LoopStep

\* The executor keeps the invariant of the requests: a completed migration uses up the
\* request it has in hand and starts the cooldown that makes the rest stale.
LEMMA RequestExec == CoreInv /\ RequestInv /\ (ExecStep \/ CooldownEnds) => RequestInv'
<1> SUFFICES ASSUME CoreInv, RequestInv, ExecStep \/ CooldownEnds PROVE RequestInv' OBVIOUS
<1>1. TypeOK BY DEF CoreInv
<1> DEFINE R == Cardinality(In({"request"}))
<1>2. R' = R
  <2>1. UNCHANGED conn
    BY DEF ExecStep, ReceiveRequest, CheckCooldown, FindPort, NoFreePort, Wake, SwapSender,
         Publish, Cancel, CooldownEnds, JustExecMove, ExecMove, connVars
  <2> QED BY <2>1 DEF In
<1> USE RequestTypes DEF RequestInv, Busy, OneMigrationPerBurst, Stale, ExecMove, JustExecMove
<1>3. CASE ReceiveRequest
  <2>1. /\ exec = "recv" /\ exec' = "cooldown" /\ queue # <<>> /\ req' = queue[1]
        /\ UNCHANGED <<cooling, metrics>>
    BY <1>1, <1>3 DEF ReceiveRequest, TypeOK
  <2>2. /\ Len(queue) >= 1 /\ Len(queue') = Len(queue) - 1
        /\ \A i \in 1 .. Len(queue') : queue'[i] = queue[i + 1]
    BY <1>1, <1>3 DEF ReceiveRequest, TypeOK
  <2>3. ~cooling => ~Stale(req)' /\ \A i \in 1 .. Len(queue') : ~Stale(queue[i + 1])
    BY <1>1, <2>1, <2>2
  <2>4. metrics.migrations + Len(queue') + 1 + R' <= metrics.attacks
    BY <1>1, <1>2, <2>1, <2>2
  <2> QED BY <2>1, <2>2, <2>3, <2>4
<1>4. CASE CheckCooldown
  BY <1>1, <1>2, <1>4 DEF CheckCooldown
<1>5. CASE \E p \in Ports : FindPort(p)
  BY <1>1, <1>2, <1>5 DEF FindPort
<1>6. CASE NoFreePort \/ Wake \/ SwapSender
  BY <1>1, <1>2, <1>6 DEF NoFreePort, Wake, SwapSender
<1>7. CASE Publish
  <2>1. /\ metrics'.migrations = metrics.migrations + 1 /\ metrics'.attacks = metrics.attacks
        /\ exec = "publish" /\ exec' = "recv" /\ cooling' = TRUE /\ UNCHANGED queue
    BY <1>1, <1>7 DEF Publish, TypeOK
  <2> QED BY <1>1, <1>2, <2>1
<1>8. CASE Cancel
  <2>1. queue' = <<>> /\ exec' = "dead" /\ UNCHANGED metrics BY <1>8 DEF Cancel
  <2>2. Len(queue') = 0 BY <2>1
  <2>3. metrics.migrations + 0 + 0 + R' <= metrics.attacks BY <1>1, <1>2
  <2> QED BY <1>1, <2>1, <2>2, <2>3
<1>9. CASE CooldownEnds
  BY <1>1, <1>2, <1>9 DEF CooldownEnds
<1> QED BY <1>3, <1>4, <1>5, <1>6, <1>7, <1>8, <1>9 DEF ExecStep

\* Nothing else touches the requests or what they are compared with.
LEMMA RequestRest ==
  ASSUME CoreInv, RequestInv,
         \/ \E c \in Conns, g \in Gens : Connect(c, g)
         \/ \E g \in Gens : Bind(g) \/ StopListener(g)
         \/ CtrlC \/ MainStep \/ UNCHANGED vars
  PROVE  RequestInv'
<1>1. TypeOK /\ UNCHANGED <<queue, execVars, metrics>>
  BY DEF CoreInv, Connect, Bind, StopListener, CtrlC, MainStep, SignalShutdown,
       DrainDone, DrainDeadline, Exit, vars
<1>2. In({"request"})' \in SUBSET In({"request"})
  <2>1. \A c \in Conns : conn'[c] = "request" => conn[c] = "request"
    BY <1>1 DEF TypeOK, ConnState, Fates, InLoop, Connect, Bind, StopListener, CtrlC, MainStep,
         SignalShutdown, DrainDone, DrainDeadline, Exit, AtExit, vars, connVars
  <2> QED BY <2>1 DEF In
<1>3. /\ Cardinality(In({"request"})') \in Nat
      /\ Cardinality(In({"request"})') <= Cardinality(In({"request"}))
  BY <1>2, InFinite, FS_Subset, FS_CardinalityType
<1> QED BY <1>1, <1>3, RequestStutter DEF execVars

\* The invariant of the migration requests holds in every state.
LEMMA RequestInvariant == Spec => []RequestInv
<1>1. CoreInv /\ RequestInv /\ [Next]_vars => RequestInv'
  BY RequestConn, RequestExec, RequestRest DEF Next
<1> QED BY RequestInit, <1>1, CoreInvariant, PTL DEF Spec

\* However many alarms are queued, a burst of them moves the honeypot once.
THEOREM BurstMovesOnce == Spec => []OneMigrationPerBurst
<1>1. RequestInv => OneMigrationPerBurst BY DEF RequestInv
<1> QED BY <1>1, RequestInvariant, PTL

\* Every completed migration answers an alarm of its own.
THEOREM MigrationsAnswerAlarms == Spec => []MigrationsWithinAlarms
<1>1. TypeOK /\ RequestInv => MigrationsWithinAlarms
  BY RequestTypes DEF RequestInv, MigrationsWithinAlarms
<1> QED BY <1>1, TypeCorrect, RequestInvariant, PTL

----------------------------------------------------------------------------
(* Network implements Admission: its initial states map to initial states, *)
(* and each of its steps to a step of Admission or to a stutter.             *)

\* What the client of a connection in each state sees.
LEMMA SeenStates ==
  /\ Seen["idle"] = "away" /\ Seen["backlog"] = "queued"
  /\ Seen["record"] = "accepted" /\ Seen["request"] = "accepted" /\ Seen["acquire"] = "accepted"
  /\ Seen["count"] = "served" /\ Seen["serving"] = "served"
  /\ Seen["served"] = "served" /\ Seen["uncounted"] = "served"
  /\ Seen["closed"] = "left" /\ Seen["finned"] = "refused"
  /\ Seen["reset"] = "cut" /\ Seen["killed"] = "cut"
BY DEF Seen, ConnState, InLoop, Fates

\* A client counts as served exactly while its connection holds a permit.
LEMMA ServedAreHolders ==
  ASSUME TypeOK
  PROVE  Clients!Served = In(HolderStates)
<1>1. \A s \in ConnState : Seen[s] = "served" <=> s \in HolderStates
  BY SeenStates DEF ConnState, InLoop, Fates, HolderStates
<1>2. \A c \in Conns : conn[c] \in ConnState /\ Standing[c] = Seen[conn[c]]
  BY DEF TypeOK, Standing
<1> QED BY <1>1, <1>2 DEF Clients!Served, In

\* Admission counts as Network does.
LEMMA SameCardinality == \A S : Clients!Cardinality(S) = Cardinality(S)
BY DEF Clients!Cardinality, Cardinality

\* A connection that goes from one state to another moves its client, and no other,
\* from what it saw to what it sees.
LEMMA StandingMove ==
  ASSUME TypeOK, NEW c \in Conns, NEW from, NEW to, conn[c] = from,
         conn' = [conn EXCEPT ![c] = to], Alive, UNCHANGED main
  PROVE  /\ Clients!Move(c, Seen[from], Seen[to])
         /\ Seen[from] = Seen[to] => UNCHANGED <<Standing, Phase>>
<1>1. conn \in [Conns -> ConnState] BY DEF TypeOK
<1>2. Standing' = [c2 \in Conns |-> Seen[conn'[c2]]] BY DEF Standing
<1>3. Standing' = [Standing EXCEPT ![c] = Seen[to]] BY <1>1, <1>2 DEF Standing
<1>4. Standing[c] = Seen[from] BY DEF Standing
<1>5. Seen[from] = Seen[to] => Standing' = Standing BY <1>3, <1>4 DEF Standing
<1>6. Phase # "exited" /\ Phase' = Phase BY DEF Alive, Phase
<1> QED BY <1>3, <1>4, <1>5, <1>6 DEF Clients!Move

\* Every step of an accept loop or a handler is a step of its client or a stutter.
LEMMA ConnAdmits ==
  ASSUME CoreInv, NEW c \in Conns,
         Accept(c) \/ LoopStep(c) \/ HandlerReturns(c) \/ Uncount(c) \/ ReleasePermit(c)
  PROVE  [Clients!Next]_<<Standing, Phase>>
<1> DEFINE H == Cardinality(In(HolderStates))
<1>0. Alive
  BY DEF Accept, LoopStep, RecordQuiet, RecordAlarm, RequestMigration, AcquirePermit,
       DropAtLimit, SpawnHandler, HandlerReturns, Uncount, ReleasePermit, JustAdvance, Advance
<1>1. TypeOK /\ permits \in Nat /\ MaxConn \in Nat /\ H \in Nat /\ permits + H = MaxConn
  BY <1>0, InFinite, NetworkAssumption DEF CoreInv, TypeOK, LimitInv
<1>2. Clients!Cardinality(Clients!Served) = H BY <1>1, ServedAreHolders, SameCardinality
<1> HIDE DEF H
<1>3. ASSUME NEW from, NEW to, Advance(c, from, to)
      PROVE  /\ Clients!Move(c, Seen[from], Seen[to])
             /\ Seen[from] = Seen[to] => UNCHANGED <<Standing, Phase>>
  BY <1>1, <1>3, StandingMove DEF Advance, mainVars
<1>4. CASE Accept(c)
  <2>1. Clients!AcceptIt(c) BY <1>3, <1>4, SeenStates DEF Accept, Clients!AcceptIt
  <2> QED BY <2>1 DEF Clients!Next
<1>5. CASE RecordQuiet(c) \/ RecordAlarm(c) \/ RequestMigration(c)
  BY <1>3, <1>5, SeenStates DEF RecordQuiet, RecordAlarm, RequestMigration, JustAdvance
<1>6. CASE AcquirePermit(c)
  <2>1. Clients!Cardinality(Clients!Served) < MaxConn BY <1>1, <1>2, <1>6 DEF AcquirePermit
  <2>2. Clients!Admit(c) BY <1>3, <1>6, <2>1, SeenStates DEF AcquirePermit, Clients!Admit
  <2> QED BY <2>2 DEF Clients!Next
<1>7. CASE DropAtLimit(c)
  <2>1. Clients!Cardinality(Clients!Served) = MaxConn BY <1>1, <1>2, <1>7 DEF DropAtLimit
  <2>2. Clients!Refuse(c)
    BY <1>3, <1>7, <2>1, SeenStates DEF DropAtLimit, JustAdvance, Clients!Refuse
  <2> QED BY <2>2 DEF Clients!Next
<1>8. CASE SpawnHandler(c) \/ HandlerReturns(c) \/ Uncount(c)
  BY <1>3, <1>8, SeenStates DEF SpawnHandler, HandlerReturns, Uncount, JustAdvance
<1>9. CASE ReleasePermit(c)
  <2>1. Clients!Leave(c) BY <1>3, <1>9, SeenStates DEF ReleasePermit, Clients!Leave
  <2> QED BY <2>1 DEF Clients!Next
<1> QED BY <1>4, <1>5, <1>6, <1>7, <1>8, <1>9 DEF LoopStep

\* A listener that stops cuts off the clients in its accept queue, and those only.
LEMMA StopAdmits ==
  ASSUME CoreInv, NEW g \in Gens, StopListener(g)
  PROVE  Clients!Next
<1> DEFINE C == {c \in Conns : conn[c] = "backlog" /\ home[c] = g}
<1>1. conn \in [Conns -> ConnState] BY DEF CoreInv, TypeOK
<1>2. \A c \in C : Standing[c] = "queued" BY SeenStates DEF Standing
<1>3. \A c \in Conns : conn'[c] = IF c \in C THEN "reset" ELSE conn[c] BY DEF StopListener
<1>4. \A c \in Conns : Seen[conn'[c]] = IF c \in C THEN "cut" ELSE Standing[c]
  BY <1>3, SeenStates DEF Standing
<1>5. Standing' = [c \in Conns |-> IF c \in C THEN "cut" ELSE Standing[c]]
  BY <1>4 DEF Standing
<1>6. C \in SUBSET Conns OBVIOUS
<1> HIDE DEF C
<1>7. Phase # "exited" /\ Phase' = Phase BY DEF StopListener, mainVars, Alive, Phase
<1>8. Clients!CutOff(C) BY <1>2, <1>5, <1>7 DEF Clients!CutOff
<1> QED BY <1>6, <1>8 DEF Clients!Next

\* The exit cuts off whoever has not left, and it comes in the shutdown only.
LEMMA ExitAdmits == CoreInv /\ Exit => Clients!Exit
<1> SUFFICES ASSUME CoreInv, Exit PROVE Clients!Exit OBVIOUS
<1>1. \A c \in Conns : conn[c] \in ConnState /\ conn'[c] = AtExit(conn[c])
  BY DEF CoreInv, TypeOK, Exit
<1>2. \A s \in ConnState : Seen[AtExit(s)] \in Clients!Status
  BY SeenStates DEF AtExit, ConnState, InLoop, Fates, Clients!Status
<1>3. \A s \in ConnState : Clients!Outlives(Seen[s], Seen[AtExit(s)])
  BY SeenStates DEF AtExit, ConnState, InLoop, Fates, Clients!Outlives
<1>4. Standing' = [c \in Conns |-> Seen[AtExit(conn[c])]] BY <1>1 DEF Standing
<1>5. Standing' \in [Conns -> Clients!Status] BY <1>1, <1>2, <1>4
<1>6. \A c \in Conns : Clients!Outlives(Standing[c], Standing'[c])
  BY <1>1, <1>3, <1>4 DEF Standing
<1>7. Phase = "closing" /\ Phase' = "exited" BY DEF Exit, Phase
<1> QED BY <1>5, <1>6, <1>7 DEF Clients!Exit

\* Every step of Network is a step of Admission or a stutter.
LEMMA StepAdmits == CoreInv /\ [Next]_vars => [Clients!Next]_<<Standing, Phase>>
<1> SUFFICES ASSUME CoreInv, [Next]_vars PROVE [Clients!Next]_<<Standing, Phase>> OBVIOUS
<1>1. CASE \E c \in Conns, g \in Gens : Connect(c, g)
  <2> PICK c \in Conns, g \in Gens : Connect(c, g) BY <1>1
  <2>1. Clients!Arrive(c)
    BY StandingMove, SeenStates DEF CoreInv, Connect, mainVars, Clients!Arrive
  <2> QED BY <2>1 DEF Clients!Next
<1>2. CASE \E g \in Gens : StopListener(g) BY <1>2, StopAdmits
<1>3. CASE \E c \in Conns :
             Accept(c) \/ LoopStep(c) \/ HandlerReturns(c) \/ Uncount(c) \/ ReleasePermit(c)
  BY <1>3, ConnAdmits
<1>4. ASSUME UNCHANGED conn, UNCHANGED Phase PROVE UNCHANGED <<Standing, Phase>>
  BY <1>4 DEF Standing
<1>5. ASSUME \/ ExecStep \/ CooldownEnds \/ SignalShutdown \/ DrainDone \/ DrainDeadline
             \/ UNCHANGED vars
      PROVE  UNCHANGED <<Standing, Phase>>
  <2>1. UNCHANGED <<conn, Phase>>
    BY <1>5 DEF ExecStep, ReceiveRequest, CheckCooldown, FindPort, NoFreePort, Wake, SwapSender,
         Publish, Cancel, CooldownEnds, JustExecMove, ExecMove, SignalShutdown,
         DrainDone, DrainDeadline, connVars, mainVars, vars, Phase
  <2> QED BY <1>4, <2>1
<1>6. ASSUME \E g \in Gens : Bind(g) PROVE UNCHANGED <<Standing, Phase>>
  BY <1>4, <1>6 DEF Bind, connVars, mainVars, Phase
<1>7. CASE CtrlC
  <2>1. Phase = "running" /\ Phase' = "closing" /\ Standing' = Standing
    BY <1>7 DEF CtrlC, connVars, Phase, Standing
  <2> QED BY <2>1 DEF Clients!Shutdown, Clients!Next
<1>8. CASE Exit BY <1>8, ExitAdmits DEF Clients!Next
<1> QED BY <1>1, <1>2, <1>3, <1>5, <1>6, <1>7, <1>8 DEF Next, MainStep

\* The listeners of all generations together admit clients as Admission says: the limit is
\* global, nobody is refused below it, and until the process exits, which only the shutdown
\* brings about, nobody who was accepted is cut off.
THEOREM NetworkAdmits == Spec => ImplementsAdmission
<1>1. Init => Clients!Init
  <2> SUFFICES ASSUME Init PROVE Clients!Init OBVIOUS
  <2>1. \A c \in Conns : Seen[conn[c]] = "away" BY SeenStates DEF Init
  <2> QED BY <2>1 DEF Init, Phase, Standing, Clients!Init
<1> QED BY <1>1, StepAdmits, CoreInvariant, PTL DEF Spec, Clients!Spec, ImplementsAdmission

----------------------------------------------------------------------------
(* Network implements Service, in the same way.                             *)

\* The generation spawned last is the current one, or its successor while a migration is
\* under way; a listener told to stop has a successor, or the shutdown has begun.
SerialInv ==
  /\ exec \in {"recv", "cooldown", "find"} => lastGen = metrics.migrations
  /\ exec \in {"sleep", "swap", "publish"} => lastGen = metrics.migrations + 1
  /\ txGen <= lastGen
  /\ \A g \in Gens : stop[g] => g < lastGen \/ Aborted

\* A connection that an accept loop has in hand came through an open listener, no request
\* is younger than the migrations that have been completed, and no listener than the one
\* spawned last.
OriginInv ==
  /\ \A g \in Gens : g > lastGen => loop[g] = "none"
  /\ \A c \in Conns : conn[c] \in InLoop => loop[home[c]] = "open"
  /\ req <= metrics.migrations
  /\ \A i \in 1 .. Len(queue) : queue[i] <= metrics.migrations

\* Connections change nothing that the executor and the listeners look at.
LEMMA ConnKeeps ==
  ASSUME TypeOK, NEW c \in Conns,
         Accept(c) \/ LoopStep(c) \/ HandlerReturns(c) \/ Uncount(c) \/ ReleasePermit(c)
  PROVE  UNCHANGED <<listenerVars, execVars, mainVars, metrics.migrations>>
<1>1. UNCHANGED <<listenerVars, execVars, mainVars>>
  BY DEF Accept, LoopStep, RecordQuiet, RecordAlarm, RequestMigration, AcquirePermit,
       DropAtLimit, SpawnHandler, HandlerReturns, Uncount, ReleasePermit, JustAdvance, Advance
<1>2. metrics'.migrations = metrics.migrations
  BY DEF TypeOK, Accept, LoopStep, RecordQuiet, RecordAlarm, RequestMigration,
       AcquirePermit, DropAtLimit, SpawnHandler, HandlerReturns, Uncount, ReleasePermit, JustAdvance
<1> QED BY <1>1, <1>2

\* The executor keeps SerialInv.
LEMMA SerialExec ==
  ASSUME TypeOK, GenInv, SerialInv, ExecStep
  PROVE  SerialInv'
<1> USE DEF SerialInv, TypeOK, ExecMove, JustExecMove, Aborted
<1>1. CASE ReceiveRequest \/ CheckCooldown \/ NoFreePort \/ Wake
  BY <1>1 DEF ReceiveRequest, CheckCooldown, NoFreePort, Wake, mainVars
<1>2. ASSUME NEW p \in Ports, FindPort(p) PROVE SerialInv'
  BY <1>2 DEF FindPort, mainVars, Gens
<1>3. CASE SwapSender
  <2>1. txGen # lastGen /\ txGen < lastGen BY <1>3 DEF SwapSender, GenInv, Migrating, Gens
  <2> QED BY <1>3, <2>1 DEF SwapSender, mainVars, Gens
<1>4. CASE Publish
  <2>1. metrics'.migrations = metrics.migrations + 1 BY <1>4 DEF Publish
  <2> QED BY <1>4, <2>1 DEF Publish, mainVars
<1>5. CASE Cancel BY <1>5 DEF Cancel, mainVars, ExecState
<1> QED BY <1>1, <1>2, <1>3, <1>4, <1>5 DEF ExecStep

\* Everybody else keeps it too.
LEMMA SerialRest ==
  ASSUME TypeOK, SerialInv, [Next]_vars, ~ ExecStep
  PROVE  SerialInv'
<1> USE DEF SerialInv, Aborted
<1>1. CASE UNCHANGED <<exec, stop, lastGen, txGen, metrics.migrations, main>> BY <1>1
<1>2. ASSUME NEW c \in Conns,
             Accept(c) \/ LoopStep(c) \/ HandlerReturns(c) \/ Uncount(c) \/ ReleasePermit(c)
      PROVE  SerialInv'
  BY <1>1, <1>2, ConnKeeps DEF listenerVars, execVars, mainVars
<1>3. ASSUME NEW g \in Gens, Bind(g) \/ StopListener(g) PROVE SerialInv'
  BY <1>1, <1>3 DEF Bind, StopListener, execVars, mainVars
<1>4. CASE \/ \E c \in Conns, g \in Gens : Connect(c, g)
           \/ CooldownEnds \/ UNCHANGED vars
  BY <1>1, <1>4 DEF Connect, CooldownEnds, vars, listenerVars, execVars, mainVars
<1>5. CASE CtrlC \/ DrainDone \/ DrainDeadline \/ Exit
  BY <1>5 DEF CtrlC, DrainDone, DrainDeadline, Exit, listenerVars, execVars
<1>6. CASE SignalShutdown
  BY <1>6 DEF SignalShutdown, execVars, TypeOK
<1> QED BY <1>2, <1>3, <1>4, <1>5, <1>6 DEF Next, MainStep

\* Migrations are serial.
LEMMA SerialInvariant == Spec => []SerialInv
<1>1. Init => SerialInv BY DEF Init, SerialInv
<1>2. TypeOK /\ GenInv /\ SerialInv /\ [Next]_vars => SerialInv' BY SerialExec, SerialRest
<1> QED BY <1>1, <1>2, TypeCorrect, GenInvariant, PTL DEF Spec

\* Connections keep OriginInv: a loop takes a connection only while its listener is open,
\* and a request carries the number of migrations of the moment it is sent.
LEMMA OriginConn ==
  ASSUME TypeOK, OriginInv, NEW c \in Conns,
         Accept(c) \/ LoopStep(c) \/ HandlerReturns(c) \/ Uncount(c) \/ ReleasePermit(c)
  PROVE  OriginInv'
<1>1. UNCHANGED <<loop, req, lastGen, metrics.migrations>>
  BY ConnKeeps DEF listenerVars, execVars
<1>2. \A d \in Conns : conn'[d] \in InLoop => conn[d] \in InLoop \/ (d = c /\ Accept(c))
  BY DEF TypeOK, InLoop, Accept, LoopStep, RecordQuiet, RecordAlarm, RequestMigration,
       AcquirePermit, DropAtLimit, SpawnHandler, HandlerReturns, Uncount, ReleasePermit,
       JustAdvance, Advance
<1>3. UNCHANGED home /\ (Accept(c) => loop[home[c]] = "open")
  BY DEF Accept, LoopStep, RecordQuiet, RecordAlarm, RequestMigration, AcquirePermit,
       DropAtLimit, SpawnHandler, HandlerReturns, Uncount, ReleasePermit, JustAdvance, Advance,
       Selecting
<1>4. \A d \in Conns : conn'[d] \in InLoop => loop'[home'[d]] = "open"
  BY <1>1, <1>2, <1>3 DEF OriginInv
<1>5. queue' = queue \/ queue' = Append(queue, metrics.migrations)
  BY DEF Accept, LoopStep, RecordQuiet, RecordAlarm, RequestMigration, AcquirePermit,
       DropAtLimit, SpawnHandler, HandlerReturns, Uncount, ReleasePermit, JustAdvance, limitVars
<1>6. \A i \in 1 .. Len(queue') :
        queue'[i] = metrics.migrations \/ (i \in 1 .. Len(queue) /\ queue'[i] = queue[i])
  BY <1>5 DEF TypeOK
<1>7. metrics.migrations \in Nat BY RequestTypes
<1> QED BY <1>1, <1>4, <1>6, <1>7 DEF OriginInv

\* The executor and the other tasks keep it: no listener stops with a connection in hand.
LEMMA OriginRest ==
  ASSUME CoreInv, GenInv, SerialInv, OriginInv, [Next]_vars,
         ~ \E c \in Conns :
             Accept(c) \/ LoopStep(c) \/ HandlerReturns(c) \/ Uncount(c) \/ ReleasePermit(c)
  PROVE  OriginInv'
<1>1. TypeOK BY DEF CoreInv
<1>2. metrics.migrations \in Nat /\ req \in Nat /\ \A i \in 1 .. Len(queue) : queue[i] \in Nat
  BY <1>1, RequestTypes DEF TypeOK
<1>3. CASE UNCHANGED <<loop, conn, home, req, lastGen, queue, metrics.migrations>>
  BY <1>3 DEF OriginInv
<1>4. CASE \E c \in Conns, g \in Gens : Connect(c, g)
  BY <1>1, <1>4 DEF TypeOK, Connect, OriginInv, InLoop, listenerVars, execVars
<1>5. ASSUME NEW g \in Gens, Bind(g) \/ StopListener(g) PROVE OriginInv'
  <2>1. UNCHANGED <<home, req, lastGen, queue, metrics>> /\ loop[g] # "none"
    BY <1>5 DEF Bind, StopListener, Selecting, connVars, execVars
  <2>2. \A c \in Conns : conn'[c] \in InLoop => conn[c] \in InLoop
    BY <1>1, <1>5 DEF TypeOK, Bind, StopListener, connVars, InLoop
  <2>3. \A h \in Gens : /\ loop[h] = "open" /\ loop'[h] # "open" => StopListener(g) /\ h = g
                        /\ loop[h] = "none" => loop'[h] = "none"
    BY <1>1, <1>5, <2>1 DEF TypeOK, Bind, StopListener
  <2>4. StopListener(g) => \A c \in Conns : conn[c] \in InLoop => home[c] # g
    BY DEF StopListener, Selecting
  <2>5. \A c \in Conns : home[c] \in Gens BY <1>1 DEF TypeOK
  <2> QED BY <2>1, <2>2, <2>3, <2>4, <2>5 DEF OriginInv
<1>6. CASE \E p \in Ports : FindPort(p)
  <2> PICK p \in Ports : FindPort(p) BY <1>6
  <2>1. UNCHANGED <<conn, home, req, queue, metrics>> BY DEF FindPort, ExecMove, connVars
  <2>2. /\ loop' = [loop EXCEPT ![lastGen + 1] = "spawned"] /\ lastGen' = lastGen + 1
        /\ lastGen \in Nat /\ lastGen + 1 \in Gens
    BY <1>1, NetworkAssumption DEF FindPort, TypeOK, Gens
  <2>3. \A c \in Conns : conn[c] \in InLoop => home[c] # lastGen + 1
    BY <2>2 DEF OriginInv
  <2>4. \A g \in Gens : g > lastGen + 1 => g > lastGen /\ g # lastGen + 1
    BY <2>2 DEF Gens
  <2> QED BY <1>1, <2>1, <2>2, <2>3, <2>4 DEF OriginInv, TypeOK
<1>7. CASE ReceiveRequest
  <2>1. UNCHANGED <<loop, conn, home, lastGen, metrics>> BY <1>7 DEF ReceiveRequest, ExecMove, connVars
  <2>2. /\ Len(queue) >= 1 /\ Len(queue') = Len(queue) - 1 /\ req' = queue[1]
        /\ \A i \in 1 .. Len(queue') : queue'[i] = queue[i + 1]
    BY <1>1, <1>7 DEF ReceiveRequest, TypeOK
  <2>3. \A i \in 1 .. Len(queue') : i + 1 \in 1 .. Len(queue) BY <1>1, <2>2, RequestTypes
  <2>4. 1 \in 1 .. Len(queue) BY <1>1, <2>2, RequestTypes
  <2> QED BY <2>1, <2>2, <2>3, <2>4 DEF OriginInv
<1>8. CASE Publish
  <2>1. /\ UNCHANGED <<loop, conn, home, req, lastGen, queue>>
        /\ metrics'.migrations = metrics.migrations + 1
    BY <1>1, <1>8 DEF Publish, ExecMove, connVars, TypeOK
  <2> QED BY <1>2, <2>1 DEF OriginInv
<1>9. CASE Cancel
  <2>1. UNCHANGED <<loop, conn, home, req, lastGen, metrics>> /\ Len(queue') = 0
    BY <1>9 DEF Cancel, ExecMove, connVars
  <2> QED BY <2>1 DEF OriginInv
<1>10. CASE CheckCooldown \/ NoFreePort \/ Wake \/ SwapSender
  BY <1>3, <1>10 DEF CheckCooldown, NoFreePort, Wake, SwapSender, ExecMove, JustExecMove, connVars
<1>11. CASE \/ CooldownEnds \/ CtrlC \/ SignalShutdown \/ DrainDone \/ DrainDeadline
            \/ UNCHANGED vars
  BY <1>3, <1>11 DEF CooldownEnds, CtrlC, SignalShutdown, DrainDone, DrainDeadline, vars,
     listenerVars, connVars, execVars
<1>12. CASE Exit
  <2>1. \A s \in ConnState : AtExit(s) \in InLoop => s \in InLoop
    BY DEF AtExit, ConnState, InLoop, Fates
  <2>2. \A c \in Conns : conn'[c] \in InLoop => conn[c] \in InLoop
    BY <1>1, <1>12, <2>1 DEF Exit, TypeOK
  <2> QED BY <1>12, <2>2 DEF Exit, OriginInv, listenerVars, execVars
<1> QED BY <1>4, <1>5, <1>6, <1>7, <1>8, <1>9, <1>10, <1>11, <1>12 DEF Next, ExecStep, MainStep

\* OriginInv holds in every state.
LEMMA OriginInvariant == Spec => []OriginInv
<1>1. Init => OriginInv
  <2> SUFFICES ASSUME Init PROVE OriginInv OBVIOUS
  <2>1. \A c \in Conns : conn[c] \notin InLoop BY DEF Init, InLoop
  <2>2. Len(queue) = 0 BY DEF Init
  <2> QED BY <2>1, <2>2, NetworkAssumption DEF Init, OriginInv, Gens
<1>2. CoreInv /\ GenInv /\ SerialInv /\ OriginInv /\ [Next]_vars => OriginInv'
  BY OriginConn, OriginRest DEF CoreInv
<1> QED BY <1>1, <1>2, CoreInvariant, GenInvariant, SerialInvariant, PTL DEF Spec

----------------------------------------------------------------------------
(* The refinement. *)

\* A listener that changes its state changes its stage, and no other does.
LEMMA StageMove ==
  ASSUME TypeOK, NEW g \in Gens, NEW to \in LoopState, loop' = [loop EXCEPT ![g] = to]
  PROVE  Stages' = [Stages EXCEPT ![g] =
           CASE to = "spawned" -> "starting" [] to = "stopped" -> "closed" [] OTHER -> to]
<1> SUFFICES ASSUME NEW h \in Gens
             PROVE  loop'[h] = IF h = g THEN to ELSE loop[h]
  BY DEF Stages
<1> QED BY DEF TypeOK

\* A port on which no listener of Network is open is unused in Service.
LEMMA FreeIsUnused ==
  ASSUME TypeOK, NEW p, PortFree(p)
  PROVE  Listeners!Unused(p)
BY DEF PortFree, TypeOK, LoopState, Stages, Listeners!Unused, Listeners!Gens, Gens

\* A step of Bind or StopListener is the same step of Service.
LEMMA ListenerServes ==
  ASSUME TypeOK, SerialInv, NEW g \in Gens, Bind(g) \/ StopListener(g)
  PROVE  Listeners!ServiceNext
<1>1. g \in Listeners!Gens BY DEF Listeners!Gens, Gens
<1>2. Listeners!Lives BY DEF Bind, StopListener, Alive, Phase, Listeners!Lives
<1>3. UNCHANGED <<port, Asked, lastGen, metrics.migrations, Phase>>
  BY DEF Bind, StopListener, execVars, mainVars, Phase, Asked, Stale
<1>4. CASE loop[g] = "spawned" /\ loop' = [loop EXCEPT ![g] = "open"] /\ PortFree(port[g])
  <2>1. Stages[g] = "starting" /\ Stages' = [Stages EXCEPT ![g] = "open"]
    BY <1>4, StageMove DEF LoopState, Stages
  <2>2. Listeners!Open(g)
    BY <1>2, <1>3, <1>4, <2>1, FreeIsUnused DEF Listeners!Open, Listeners!Become, TypeOK
  <2> QED BY <1>1, <2>2 DEF Listeners!ServiceNext
<1>5. CASE loop[g] = "spawned" /\ loop' = [loop EXCEPT ![g] = "failed"]
  <2>1. Stages[g] = "starting" /\ Stages' = [Stages EXCEPT ![g] = "failed"]
    BY <1>5, StageMove DEF LoopState, Stages
  <2>2. Listeners!Fail(g) BY <1>2, <1>3, <2>1 DEF Listeners!Fail, Listeners!Become
  <2> QED BY <1>1, <2>2 DEF Listeners!ServiceNext
<1>6. CASE StopListener(g)
  <2>1. loop[g] = "open" /\ stop[g] /\ loop' = [loop EXCEPT ![g] = "stopped"] /\ Alive
    BY <1>6 DEF StopListener, Selecting
  <2>2. Stages[g] = "open" /\ Stages' = [Stages EXCEPT ![g] = "closed"]
    BY <2>1, StageMove DEF LoopState, Stages
  <2>3. g < lastGen \/ Phase = "closing" BY <2>1 DEF SerialInv, Aborted, Alive, Phase
  <2>4. Listeners!Close(g) BY <1>2, <1>3, <2>2, <2>3 DEF Listeners!Close, Listeners!Become
  <2> QED BY <1>1, <2>4 DEF Listeners!ServiceNext
<1> QED BY <1>4, <1>5, <1>6 DEF Bind

\* find_free_port starts the next listener.
LEMMA FindServes ==
  ASSUME TypeOK, GenInv, SerialInv, OneMigrationPerBurst, NEW p \in Ports, FindPort(p)
  PROVE  Listeners!Start(p)
<1>1. lastGen = metrics.migrations /\ txGen = lastGen /\ curPort = port[txGen]
  BY DEF FindPort, ExecMove, SerialInv, GenInv, Migrating, PublishedPortIsCurrent
<1>2. lastGen + 1 \in Gens /\ lastGen < MaxMigrations BY NetworkAssumption DEF FindPort, TypeOK, Gens
<1>3. Stages' = [Stages EXCEPT ![lastGen + 1] = "starting"]
  BY <1>2, StageMove DEF FindPort, LoopState
<1>4. Listeners!Unused(p) BY FreeIsUnused DEF FindPort
<1>5. Listeners!Lives /\ UNCHANGED <<metrics.migrations, Phase>>
  BY DEF FindPort, ExecMove, Alive, Phase, Listeners!Lives, mainVars
<1>6. Asked /\ Asked'
  BY DEF FindPort, ExecMove, OneMigrationPerBurst, Asked, Stale
<1> QED BY <1>1, <1>2, <1>3, <1>4, <1>5, <1>6 DEF FindPort, Listeners!Start

\* What leaves the listeners alone and asks for nothing may lose what was asked for.
LEMMA ForgetServes ==
  ASSUME UNCHANGED <<loop, port, lastGen, metrics.migrations, Phase>>,
         Asked' = Asked \/ (Asked' = FALSE /\ Alive)
  PROVE  [Listeners!ServiceNext]_(Listeners!serviceVars)
<1>1. CASE Asked' = Asked BY <1>1 DEF Listeners!serviceVars, Stages
<1>2. CASE Asked' = FALSE /\ Alive
  <2>1. Listeners!Forget
    BY <1>2 DEF Listeners!Forget, Listeners!Lives, Alive, Phase, Stages
  <2> QED BY <2>1 DEF Listeners!ServiceNext
<1> QED BY <1>1, <1>2

\* A request for a migration is sent by a connection that an open listener took; no other
\* step of a connection is seen.
LEMMA ConnServes ==
  ASSUME TypeOK, OriginInv, NEW c \in Conns,
         Accept(c) \/ LoopStep(c) \/ HandlerReturns(c) \/ Uncount(c) \/ ReleasePermit(c)
  PROVE  [Listeners!ServiceNext]_(Listeners!serviceVars)
<1>1. UNCHANGED <<loop, port, exec, req, lastGen, metrics.migrations, Phase>>
  BY ConnKeeps DEF listenerVars, execVars, mainVars, Phase
<1>2. CASE UNCHANGED queue
  <2>1. Asked' = Asked BY <1>1, <1>2 DEF Asked, Stale
  <2> QED BY <1>1, <2>1, ForgetServes
<1>3. CASE RequestMigration(c)
  <2>1. conn[c] = "request" /\ Alive BY <1>3 DEF RequestMigration, Advance
  <2>2. home[c] \in Gens /\ loop[home[c]] = "open" BY <2>1 DEF OriginInv, InLoop, TypeOK
  <2>3. \E g \in Listeners!Gens : Stages[g] = "open"
    BY <2>2 DEF Stages, Listeners!Gens, Gens
  <2>4. Asked \in BOOLEAN /\ Asked' \in BOOLEAN BY DEF Asked
  <2>5. CASE Asked'
    <3>1. Listeners!Ask
      BY <1>1, <2>1, <2>3, <2>5 DEF Listeners!Ask, Listeners!Lives, Alive, Phase, Stages
    <3> QED BY <3>1 DEF Listeners!ServiceNext
  <2>6. CASE ~Asked' BY <1>1, <2>1, <2>4, <2>6, ForgetServes
  <2> QED BY <2>5, <2>6
<1>4. RequestMigration(c) \/ UNCHANGED queue
  BY DEF Accept, LoopStep, RecordQuiet, RecordAlarm, AcquirePermit, DropAtLimit, SpawnHandler,
       HandlerReturns, Uncount, ReleasePermit, JustAdvance
<1> QED BY <1>2, <1>3, <1>4

\* The executor takes or loses a request and leaves the listeners alone.
LEMMA ExecServes ==
  ASSUME TypeOK, ReceiveRequest \/ CheckCooldown \/ NoFreePort \/ Wake \/ SwapSender \/ Cancel
  PROVE  [Listeners!ServiceNext]_(Listeners!serviceVars)
<1>1. UNCHANGED <<loop, port, lastGen, metrics, Phase>> /\ Alive
  BY DEF ReceiveRequest, CheckCooldown, NoFreePort, Wake, SwapSender, Cancel,
       ExecMove, JustExecMove, mainVars, Phase
<1>2. Asked \in BOOLEAN /\ Asked' \in BOOLEAN BY DEF Asked
<1>3. Asked' => Asked
  <2>1. CASE ReceiveRequest
    <3>1. /\ Len(queue) >= 1 /\ Len(queue') = Len(queue) - 1 /\ req' = queue[1]
          /\ \A i \in 1 .. Len(queue') : queue'[i] = queue[i + 1]
      BY <2>1 DEF ReceiveRequest, TypeOK
    <3>2. 1 \in 1 .. Len(queue) /\ \A i \in 1 .. Len(queue') : i + 1 \in 1 .. Len(queue)
      BY <3>1, RequestTypes
    <3> QED BY <1>1, <3>1, <3>2 DEF Asked, Stale
  <2>2. CASE CheckCooldown \/ NoFreePort \/ Wake \/ SwapSender
    BY <1>1, <2>2 DEF CheckCooldown, NoFreePort, Wake, SwapSender, ExecMove, JustExecMove, Asked, Stale
  <2>3. CASE Cancel
    <3>1. exec' = "dead" /\ Len(queue') = 0 BY <2>3 DEF Cancel, ExecMove
    <3> QED BY <3>1 DEF Asked
  <2> QED BY <2>1, <2>2, <2>3
<1> QED BY <1>1, <1>2, <1>3, ForgetServes

\* Every step of Network is a step of Service or a stutter.
LEMMA StepServes ==
  ASSUME TypeOK, GenInv, SerialInv, OriginInv, OneMigrationPerBurst, [Next]_vars
  PROVE  [Listeners!ServiceNext]_(Listeners!serviceVars)
<1>1. ASSUME UNCHANGED <<loop, port, exec, req, queue, lastGen, metrics, Phase>>
      PROVE  [Listeners!ServiceNext]_(Listeners!serviceVars)
  BY <1>1, ForgetServes DEF Asked, Stale
<1>2. CASE \E c \in Conns :
             Accept(c) \/ LoopStep(c) \/ HandlerReturns(c) \/ Uncount(c) \/ ReleasePermit(c)
  BY <1>2, ConnServes
<1>3. CASE \E g \in Gens : Bind(g) \/ StopListener(g) BY <1>3, ListenerServes
<1>4. CASE \E p \in Ports : FindPort(p) BY <1>4, FindServes DEF Listeners!ServiceNext
<1>5. CASE Publish
  <2>1. /\ lastGen = metrics.migrations + 1 /\ metrics'.migrations = metrics.migrations + 1
        /\ Alive /\ UNCHANGED <<loop, port, req, queue, lastGen, main>>
        /\ exec' = "recv"
    BY <1>5 DEF Publish, ExecMove, SerialInv, TypeOK, mainVars
  <2>2. \A i \in 1 .. Len(queue) : queue[i] # metrics.migrations + 1
    BY RequestTypes DEF OriginInv
  <2>3. Asked' = FALSE BY <2>1, <2>2 DEF Asked, Stale
  <2>4. Listeners!Complete
    BY <2>1, <2>3 DEF Listeners!Complete, Listeners!Lives, Alive, Phase, Stages
  <2> QED BY <2>4 DEF Listeners!ServiceNext
<1>6. CASE CtrlC
  <2>1. Listeners!Shutdown
    BY <1>6 DEF CtrlC, Listeners!Shutdown, Listeners!Proceed, Phase, Stages, Asked, Stale,
       listenerVars, execVars
  <2> QED BY <2>1 DEF Listeners!ServiceNext
<1>7. CASE Exit
  <2>1. Listeners!Exit
    BY <1>7 DEF Exit, Listeners!Exit, Listeners!Proceed, Phase, Stages, Asked, Stale,
       listenerVars, execVars
  <2> QED BY <2>1 DEF Listeners!ServiceNext
<1>8. CASE SignalShutdown \/ DrainDone \/ DrainDeadline
  BY <1>1, <1>8 DEF SignalShutdown, DrainDone, DrainDeadline, Phase, listenerVars, execVars
<1>9. CASE \/ \E c \in Conns, g \in Gens : Connect(c, g)
           \/ CooldownEnds \/ UNCHANGED vars
  BY <1>1, <1>9 DEF Connect, CooldownEnds, Phase, vars, listenerVars, execVars, mainVars
<1>10. CASE ReceiveRequest \/ CheckCooldown \/ NoFreePort \/ Wake \/ SwapSender \/ Cancel
  BY <1>10, ExecServes
<1> QED BY <1>2, <1>3, <1>4, <1>5, <1>6, <1>7, <1>8, <1>9, <1>10 DEF Next, ExecStep, MainStep

\* The listeners of network.rs follow one another as Service says: one migration at a time,
\* asked for by a connection that an open listener took since the one before, and outside
\* the shutdown none is closed before its successor was started.
THEOREM NetworkServes == Spec => ImplementsService
<1>1. Init => Listeners!ServiceInit
  <2> SUFFICES ASSUME Init PROVE Listeners!ServiceInit OBVIOUS
  <2>1. Asked = FALSE
    <3>1. Len(queue) = 0 BY DEF Init
    <3> QED BY <3>1 DEF Init, Asked
  <2> QED BY <2>1 DEF Init, Listeners!ServiceInit, Listeners!Gens, Gens, Stages, Phase
<1>2. TypeOK /\ GenInv /\ SerialInv /\ OriginInv /\ OneMigrationPerBurst /\ [Next]_vars
        => [Listeners!ServiceNext]_(Listeners!serviceVars)
  BY StepServes
<1> QED BY <1>1, <1>2, TypeCorrect, GenInvariant, SerialInvariant, OriginInvariant,
           BurstMovesOnce, PTL
       DEF Spec, Listeners!ServiceSpec, ImplementsService
=============================================================================
