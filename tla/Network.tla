------------------------------ MODULE Network ------------------------------
(***************************************************************************)
(* src/network.rs: the accept loops of the honeypot, the connection limit, *)
(* the migration executor and the graceful shutdown, as tasks of a         *)
(* multi-threaded runtime.  One action is the code a task runs between two *)
(* points at which another task can see or change the shared state.        *)
(*                                                                         *)
(* A listener task is named by its generation: generation 0 is spawned at  *)
(* start-up, generation n by the n-th migration attempt that finds a port. *)
(* The progress of an accept loop is the state of the connection it has in *)
(* hand (home[c] is its loop), because a loop handles one at a time.       *)
(*                                                                         *)
(* Abstracted: the tracker's verdict is any Boolean (module Detector has   *)
(* the tracker), timers may fire whenever the code waits for them, what    *)
(* happens on the old port after a migration is module Handoff; what other *)
(* programs and decoys do to the ports shows in that a bind may fail and a *)
(* search find nothing at any time.                                        *)
(***************************************************************************)
EXTENDS Naturals, Sequences, FiniteSets

CONSTANTS
  Conns,          \* client connections, each made at most once
  Ports,          \* TCP ports
  InitPort,       \* cfg.port
  MaxConn,        \* cfg.max_connections
  QueueCap,       \* capacity of the migrate_req channel (8 in the code)
  MaxMigrations   \* bound: migrations that find a port

ASSUME NetworkAssumption ==
  /\ InitPort \in Ports
  /\ MaxConn \in Nat \ {0}
  /\ QueueCap \in Nat \ {0}
  /\ MaxMigrations \in Nat
  /\ IsFiniteSet(Conns)

Gens == 0 .. MaxMigrations

VARIABLES
  loop,      \* [Gens -> LoopState]: the listener tasks
  port,      \* [Gens -> Ports]: the port each was spawned for
  stop,      \* [Gens -> BOOLEAN]: its shutdown_rx is ready (message or sender dropped)
  conn,      \* [Conns -> ConnState]
  home,      \* [Conns -> Gens]: the listener a connection reached
  permits,   \* free permits of the semaphore
  active,    \* active_connections
  queue,     \* migrate_req: for each request, metrics.port_migrations when it was sent
  exec,      \* program counter of the migration executor
  req,       \* the request the executor has in hand
  lastGen,   \* generation spawned last
  txGen,     \* generation whose sender shutdown_tx holds
  curPort,   \* current_port
  cooling,   \* last_migration is less than the cooldown ago
  metrics,   \* connections, attacks, migrations, port
  main,      \* program counter of start_listener after the spawns
  forced     \* the process left because the drain deadline passed

listenerVars == <<loop, port, stop>>
connVars     == <<conn, home>>
limitVars    == <<permits, active>>
execVars     == <<exec, req, lastGen, txGen, curPort, cooling>>
mainVars     == <<main, forced>>
vars == <<listenerVars, connVars, limitVars, queue, execVars, metrics, mainVars>>

LoopState == {"none", "spawned", "open", "failed", "stopped"}
InLoop    == {"record", "request", "acquire", "count"}
Fates     == {"closed", "finned", "reset", "killed"}
ConnState == {"idle", "backlog"} \cup InLoop \cup {"serving", "served", "uncounted"} \cup Fates
ExecState == {"recv", "cooldown", "find", "sleep", "swap", "publish", "dead"}
MainState == {"running", "signal", "drain", "leaving", "exited"}

Alive   == main # "exited"
Aborted == main # "running"

\* No listener of the honeypot has a socket on p.
PortFree(p) == \A g \in Gens : loop[g] = "open" => port[g] # p

\* The loop of g waits in select! with no connection in hand.
Selecting(g) ==
  loop[g] = "open" /\ \A c \in Conns : home[c] = g => conn[c] \notin InLoop

\* Connections that own a semaphore permit, and those counted in active_connections.
Holders == {c \in Conns : conn[c] \in {"count", "serving", "served", "uncounted"}}
Counted == {c \in Conns : conn[c] \in {"serving", "served"}}

Init ==
  /\ loop = [g \in Gens |-> IF g = 0 THEN "spawned" ELSE "none"]
  /\ port = [g \in Gens |-> InitPort]
  /\ stop = [g \in Gens |-> FALSE]
  /\ conn = [c \in Conns |-> "idle"]
  /\ home = [c \in Conns |-> 0]
  /\ permits = MaxConn
  /\ active = 0
  /\ queue = <<>>
  /\ exec = "recv" /\ req = 0
  /\ lastGen = 0 /\ txGen = 0
  /\ curPort = InitPort /\ cooling = FALSE
  /\ metrics = [connections |-> 0, attacks |-> 0, migrations |-> 0, port |-> InitPort]
  /\ main = "running" /\ forced = FALSE

----------------------------------------------------------------------------
(* The clients. *)

\* The kernel completes a handshake and queues the connection for accept.
Connect(c, g) ==
  /\ Alive /\ conn[c] = "idle" /\ loop[g] = "open"
  /\ conn' = [conn EXCEPT ![c] = "backlog"]
  /\ home' = [home EXCEPT ![c] = g]
  /\ UNCHANGED <<listenerVars, limitVars, queue, execVars, metrics, mainVars>>

----------------------------------------------------------------------------
(* A listener task. *)

\* bind_with_options succeeds only on a free port; it may fail on any.
Bind(g) ==
  /\ Alive /\ loop[g] = "spawned"
  /\ \/ PortFree(port[g]) /\ loop' = [loop EXCEPT ![g] = "open"]
     \/ loop' = [loop EXCEPT ![g] = "failed"]
  /\ UNCHANGED <<port, stop, connVars, limitVars, queue, execVars, metrics, mainVars>>

\* Connection c moves from one stage of its accept loop or handler to the next.
Advance(c, from, to) ==
  /\ Alive /\ conn[c] = from
  /\ conn' = [conn EXCEPT ![c] = to]
  /\ UNCHANGED <<home, listenerVars, execVars, mainVars>>
JustAdvance(c, from, to) == Advance(c, from, to) /\ UNCHANGED <<limitVars, queue, metrics>>

Accept(c) ==
  /\ Selecting(home[c]) /\ Advance(c, "backlog", "record")
  /\ metrics' = [metrics EXCEPT !.connections = @ + 1]
  /\ UNCHANGED <<limitVars, queue>>

\* record_and_check finds nothing suspicious.
\* (Mutant: should_migrate starts out TRUE.)
RecordQuietRequests(c) == JustAdvance(c, "record", "request")
RecordQuiet(c) == JustAdvance(c, "record", "acquire")

RecordAlarm(c) ==
  /\ Advance(c, "record", "request")
  /\ metrics' = [metrics EXCEPT !.attacks = @ + 1]
  /\ UNCHANGED <<limitVars, queue>>

\* try_send never waits: a full or closed channel loses the request.
RequestMigration(c) ==
  /\ Advance(c, "request", "acquire")
  /\ queue' = IF Len(queue) < QueueCap /\ exec # "dead"
                THEN Append(queue, metrics.migrations) ELSE queue
  /\ UNCHANGED <<limitVars, metrics>>

AcquirePermit(c) ==
  /\ permits > 0 /\ Advance(c, "acquire", "count")
  /\ permits' = permits - 1
  /\ UNCHANGED <<active, queue, metrics>>

\* The backpressure wait ends without a permit: close with FIN.
\* (Mutant: the wait for a permit has no timeout.)
WaitForPermit(c) == permits = 0 /\ JustAdvance(c, "acquire", "acquire")
DropAtLimit(c)   == permits = 0 /\ JustAdvance(c, "acquire", "finned")

\* (Mutants: `let _ = permit` drops the permit when the handler starts; the handler is
\* not counted.)
SpawnDropsPermit(c) ==
  /\ Advance(c, "count", "serving")
  /\ active' = active + 1 /\ permits' = permits + 1
  /\ UNCHANGED <<queue, metrics>>
SpawnUncounted(c) == JustAdvance(c, "count", "serving")
SpawnHandler(c) ==
  /\ Advance(c, "count", "serving")
  /\ active' = active + 1
  /\ UNCHANGED <<permits, queue, metrics>>

\* (Mutant: the loop waits for its handlers before it stops.)
StopAfterHandlers(g) ==
  /\ Alive /\ Selecting(g) /\ stop[g]
  /\ \A c \in Conns : home[c] = g => conn[c] # "serving"
  /\ loop' = [loop EXCEPT ![g] = "stopped"]
  /\ UNCHANGED <<port, stop, connVars, limitVars, queue, execVars, metrics, mainVars>>
\* (Mutant: the handlers end with the listener that spawned them.)
StopWithHandlers(g) ==
  /\ Alive /\ Selecting(g) /\ stop[g]
  /\ loop' = [loop EXCEPT ![g] = "stopped"]
  /\ conn' = [c \in Conns |-> IF conn[c] \in {"backlog", "serving"} /\ home[c] = g
                             THEN "reset" ELSE conn[c]]
  /\ UNCHANGED <<port, stop, home, limitVars, queue, execVars, metrics, mainVars>>
\* The shutdown branch of select!; dropping the socket resets its accept queue.
StopListener(g) ==
  /\ Alive /\ Selecting(g) /\ stop[g]
  /\ loop' = [loop EXCEPT ![g] = "stopped"]
  /\ conn' = [c \in Conns |-> IF conn[c] = "backlog" /\ home[c] = g THEN "reset" ELSE conn[c]]
  /\ UNCHANGED <<port, stop, home, limitVars, queue, execVars, metrics, mainVars>>

----------------------------------------------------------------------------
(* A connection handler task: handle_connection returns, active_connections *)
(* is decremented, and the permit is dropped with the task.                 *)

HandlerReturns(c) == JustAdvance(c, "serving", "served")

\* (Mutant: a path out of the handler skips the decrement.)
SkipUncount(c) == JustAdvance(c, "served", "uncounted")
Uncount(c) ==
  /\ Advance(c, "served", "uncounted")
  /\ active' = active - 1
  /\ UNCHANGED <<permits, queue, metrics>>

\* (Mutant: the permit is forgotten instead of dropped.)
ForgetPermit(c) == JustAdvance(c, "uncounted", "closed")
ReleasePermit(c) ==
  /\ Advance(c, "uncounted", "closed")
  /\ permits' = permits + 1
  /\ UNCHANGED <<active, queue, metrics>>

----------------------------------------------------------------------------
(* The migration executor.  It is suspended at "recv" and "sleep", where an *)
(* abort takes effect at once; elsewhere it may run on until it next waits. *)

ExecMove(from, to) ==
  /\ Alive /\ exec = from /\ exec' = to
  /\ UNCHANGED <<connVars, limitVars, mainVars>>
JustExecMove(from, to) ==
  /\ ExecMove(from, to)
  /\ UNCHANGED <<loop, port, stop, queue, req, lastGen, txGen, curPort, cooling, metrics>>

ReceiveRequest ==
  /\ ~Aborted /\ queue # <<>> /\ ExecMove("recv", "cooldown")
  /\ req' = Head(queue)
  /\ queue' = Tail(queue)
  /\ UNCHANGED <<loop, port, stop, lastGen, txGen, curPort, cooling, metrics>>

\* (Mutant: the cooldown is not consulted.)
IgnoreCooldown == JustExecMove("cooldown", "find")
CheckCooldown  == JustExecMove("cooldown", IF cooling THEN "recv" ELSE "find")

\* find_free_port returned p; the new listener is spawned for it.
FindPort(p) ==
  /\ lastGen < MaxMigrations /\ p # curPort /\ PortFree(p)
  /\ ExecMove("find", "sleep")
  /\ lastGen' = lastGen + 1
  /\ loop' = [loop EXCEPT ![lastGen + 1] = "spawned"]
  /\ port' = [port EXCEPT ![lastGen + 1] = p]
  /\ UNCHANGED <<stop, queue, req, txGen, curPort, cooling, metrics>>

\* All random candidates were excluded or taken: no cooldown is started.
NoFreePort == JustExecMove("find", "recv")

\* The 50 ms settle time is over.
Wake == ~Aborted /\ JustExecMove("sleep", "swap")

\* Under the lock of shutdown_tx: signal the old listener, install the new sender.
\* (Mutants: the old sender lives on, unused; the signal goes to the new sender.)
SwapWithoutSignal ==
  /\ ExecMove("swap", "publish")
  /\ txGen' = lastGen
  /\ UNCHANGED <<loop, port, stop, queue, req, lastGen, curPort, cooling, metrics>>
SwapThenSignal ==
  /\ ExecMove("swap", "publish")
  /\ stop' = [stop EXCEPT ![lastGen] = TRUE]
  /\ txGen' = lastGen
  /\ UNCHANGED <<loop, port, queue, req, lastGen, curPort, cooling, metrics>>
SwapSender ==
  /\ ExecMove("swap", "publish")
  /\ stop' = [stop EXCEPT ![txGen] = TRUE]
  /\ txGen' = lastGen
  /\ UNCHANGED <<loop, port, queue, req, lastGen, curPort, cooling, metrics>>

\* The rest of the migration: port, metrics and the start of the cooldown.
\* (Mutant: current_port keeps the old port.)
PublishMetricsOnly ==
  /\ ExecMove("publish", "recv")
  /\ metrics' = [metrics EXCEPT !.port = port[lastGen], !.migrations = @ + 1]
  /\ cooling' = TRUE
  /\ UNCHANGED <<loop, port, stop, queue, req, lastGen, txGen, curPort>>
Publish ==
  /\ ExecMove("publish", "recv")
  /\ metrics' = [metrics EXCEPT !.port = port[lastGen], !.migrations = @ + 1]
  /\ curPort' = port[lastGen]
  /\ cooling' = TRUE
  /\ UNCHANGED <<loop, port, stop, queue, req, lastGen, txGen>>

\* The abort reaches the task: its request channel and the sender it holds are dropped.
Cancel ==
  /\ Aborted /\ exec # "dead" /\ ExecMove(exec, "dead")
  /\ queue' = <<>>
  /\ stop' = IF exec \in {"sleep", "swap"} THEN [stop EXCEPT ![lastGen] = TRUE] ELSE stop
  /\ UNCHANGED <<loop, port, req, lastGen, txGen, curPort, cooling, metrics>>

\* MIGRATION_COOLDOWN_SECS pass.  Timing assumption: the executor, which only has
\* to take them, takes the requests sent before the migration ended in less than that.
Stale(r) == r # metrics.migrations
CooldownEnds ==
  /\ Alive /\ cooling
  /\ \A i \in 1 .. Len(queue) : ~Stale(queue[i])
  /\ exec = "cooldown" => ~Stale(req)
  /\ cooling' = FALSE
  /\ UNCHANGED <<listenerVars, connVars, limitVars, queue, exec, req, lastGen, txGen, curPort, metrics, mainVars>>

----------------------------------------------------------------------------
(* start_listener after the spawns: Ctrl-C, shutdown signal, drain; then   *)
(* the end of main.                                                        *)

CtrlC ==
  /\ main = "running"
  /\ main' = "signal"
  /\ UNCHANGED <<listenerVars, connVars, limitVars, queue, execVars, metrics, forced>>

SignalShutdown ==
  /\ main = "signal"
  /\ stop' = [stop EXCEPT ![txGen] = TRUE]
  /\ main' = "drain"
  /\ UNCHANGED <<loop, port, connVars, limitVars, queue, execVars, metrics, forced>>

DrainDone ==
  /\ main = "drain" /\ active = 0
  /\ main' = "leaving"
  /\ UNCHANGED <<listenerVars, connVars, limitVars, queue, execVars, metrics, forced>>

\* (Mutant: the deadline moves on while connections are open.)
DrainDeadlineMoves == DrainDone
DrainDeadline ==
  /\ main = "drain"
  /\ main' = "leaving" /\ forced' = TRUE
  /\ UNCHANGED <<listenerVars, connVars, limitVars, queue, execVars, metrics>>

\* start_listener and main return: the runtime drops every task, and with the tasks and
\* the process all sockets are closed.  A handler that had returned has closed its own.
AtExit(s) ==
  CASE s = "backlog" -> "reset"
    [] s \in InLoop \cup {"serving"} -> "killed"
    [] s \in {"served", "uncounted"} -> "closed"
    [] OTHER -> s
Exit ==
  /\ main = "leaving" /\ main' = "exited"
  /\ conn' = [c \in Conns |-> AtExit(conn[c])]
  /\ UNCHANGED <<listenerVars, home, limitVars, queue, execVars, metrics, forced>>

----------------------------------------------------------------------------
LoopStep(c) ==
  \/ RecordQuiet(c) \/ RecordAlarm(c) \/ RequestMigration(c)
  \/ AcquirePermit(c) \/ DropAtLimit(c) \/ SpawnHandler(c)

ExecStep ==
  \/ ReceiveRequest \/ CheckCooldown \/ (\E p \in Ports : FindPort(p)) \/ NoFreePort
  \/ Wake \/ SwapSender \/ Publish \/ Cancel

MainStep == SignalShutdown \/ DrainDone \/ DrainDeadline \/ Exit

Next ==
  \/ \E c \in Conns, g \in Gens : Connect(c, g)
  \/ \E g \in Gens : Bind(g) \/ StopListener(g)
  \/ \E c \in Conns : Accept(c) \/ LoopStep(c)
  \/ \E c \in Conns : HandlerReturns(c) \/ Uncount(c) \/ ReleasePermit(c)
  \/ ExecStep \/ CooldownEnds
  \/ CtrlC \/ MainStep

\* Every task the runtime can run is run, and timers fire.  select! polls its ready
\* branches in random order, so a shutdown that stays ready is not passed over for
\* ever: strong fairness.  Nothing is assumed of clients (HandlerReturns, Connect),
\* of other processes or of the operator.
Fairness ==
  /\ \A g \in Gens : WF_vars(Bind(g)) /\ SF_vars(StopListener(g))
  /\ \A c \in Conns : WF_vars(LoopStep(c)) /\ WF_vars(Uncount(c) \/ ReleasePermit(c))
  /\ WF_vars(ExecStep) /\ WF_vars(MainStep)

Spec == Init /\ [][Next]_vars
FairSpec == Spec /\ Fairness

----------------------------------------------------------------------------
(* Properties. *)

\* Every variable has its type.
TypeOK ==
  /\ loop \in [Gens -> LoopState]
  /\ port \in [Gens -> Ports]
  /\ stop \in [Gens -> BOOLEAN]
  /\ conn \in [Conns -> ConnState]
  /\ home \in [Conns -> Gens]
  /\ permits \in Nat
  /\ active \in Nat
  /\ queue \in Seq(Nat)
  /\ exec \in ExecState
  /\ req \in Nat
  /\ lastGen \in Gens
  /\ txGen \in Gens
  /\ curPort \in Ports
  /\ cooling \in BOOLEAN
  /\ metrics \in [connections : Nat, attacks : Nat, migrations : Nat, port : Ports]
  /\ main \in MainState
  /\ forced \in BOOLEAN

\* The connection limit is global: over all listeners of all generations the free
\* permits and the connections holding one add up to max_connections, as long as the
\* process lives.
PermitsConserved == Alive => permits + Cardinality(Holders) = MaxConn

\* The counter the drain loop trusts counts the running handlers and never exceeds
\* the limit, which needs the handler to uncount itself before it frees its permit.
ActiveWithinLimit == Alive => active = Cardinality(Counted) /\ active <= MaxConn

\* What the states of a connection mean to its client.
Seen == [s \in ConnState |->
  CASE s = "idle"    -> "away"
    [] s = "backlog" -> "queued"
    [] s \in {"record", "request", "acquire"} -> "accepted"
    [] s \in {"count", "serving", "served", "uncounted"} -> "served"
    [] s = "closed"  -> "left"
    [] s = "finned"  -> "refused"
    [] s \in {"reset", "killed"} -> "cut"]

Standing == [c \in Conns |-> Seen[conn[c]]]
Phase    == CASE main = "running" -> "running" [] main = "exited" -> "exited" [] OTHER -> "closing"

Clients == INSTANCE Admission WITH
  Clients <- Conns, Limit <- MaxConn, status <- Standing, phase <- Phase

\* The listeners of all generations together, through migrations and the shutdown, are
\* one service that admits its clients as module Admission says: until the process
\* exits, a client that was accepted is served to its end or refused at the limit.
ImplementsAdmission == Clients!Spec

\* What the states of an accept loop are to the rest of the program.
Stages == [g \in Gens |->
  CASE loop[g] = "spawned" -> "starting"
    [] loop[g] = "stopped" -> "closed"
    [] OTHER -> loop[g]]

\* A request sent since the last migration is in the channel or in the executor's hands.
Asked ==
  \/ exec \notin {"recv", "dead"} /\ ~Stale(req)
  \/ \E i \in 1 .. Len(queue) : ~Stale(queue[i])

Listeners == INSTANCE Service WITH
  listener <- Stages, portOf <- port, asked <- Asked,
  last <- lastGen, done <- metrics.migrations, phase <- Phase

\* The listeners follow one another as module Service says: one migration at a time, asked
\* for by a connection that an open listener took since the one before, and outside the
\* shutdown no listener is closed before its successor has been started.
ImplementsService == Listeners!ServiceSpec

\* A listener that shutdown_tx no longer reaches has been told to stop, by a message
\* or by the loss of its sender, unless a migration is just starting it: neither a
\* migration nor an abort in the middle of one leaves a listener nobody can stop.
NoOrphanListener ==
  \A g \in Gens :
    loop[g] \in {"spawned", "open"} /\ g # txGen
      => stop[g] \/ (g = lastGen /\ exec \in {"sleep", "swap"})

\* A burst of alarms moves the honeypot once: no migration starts from a request that
\* was sent before the previous migration ended, however many are left in the channel.
OneMigrationPerBurst ==
  exec \in {"find", "sleep", "swap", "publish"} => ~Stale(req)

\* Between migrations the port the executor excludes, the port the dashboard shows and
\* the port of the listener the shutdown signal reaches are the same.
PublishedPortIsCurrent ==
  exec \notin {"publish", "dead"}
    => curPort = port[txGen] /\ metrics.port = port[txGen]

\* Each completed migration answers an alarm of its own.
MigrationsWithinAlarms == metrics.migrations <= metrics.attacks

\* An accept loop never gets stuck on a connection: the connection is admitted, or
\* dropped after the backpressure wait even if no handler ever returns, or ends with
\* the process.
AcceptLoopProgress ==
  \A c \in Conns : conn[c] \in InLoop ~> conn[c] \notin InLoop

\* A listener told to stop does stop, although it may be waiting for a permit.
SignalledListenerStops ==
  \A g \in Gens : (stop[g] /\ loop[g] \in {"spawned", "open"})
                    ~> (loop[g] \in {"failed", "stopped"} \/ ~Alive)

\* Ctrl-C ends the process although clients may keep their connections open.
ShutdownTerminates == Aborted ~> ~Alive

\* README.md:258: the new listener is confirmed accepting before the old one is shut
\* down.  Weaker than that: when the old listener has just been signalled, the new one
\* has not already failed to bind.
NewListenerConfirmed == exec = "publish" /\ ~Aborted => loop[txGen] # "failed"

\* Changelog.md:32: unless the drain window has passed, the process does not leave
\* while an accepted connection is in flight.
DrainCompletes == ~forced => \A c \in Conns : conn[c] # "killed"
=============================================================================
