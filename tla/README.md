# A TLA+ verification development for EchoTrap

EchoTrap is a TCP honeypot in Rust. It answers scanners with the persona of an
SSH, HTTP, Redis or raw service, and when one address connects too often it
*migrates*: a new listener comes up on another port, the old one is told to
stop, and the old port is redirected or handed to a decoy. A dashboard shows
what has happened.

This directory holds TLA+ models of the parts with state and concurrency, TLC
configurations that check them on small instances, and proofs that TLAPS checks
for every value of the constants. Paths below are relative to the repository
root as seen by this project (`src/src/network.rs` is written `network.rs`,
likewise for the other Rust files).

## Inventory

| part | source | state it keeps | operations | talks to |
|---|---|---|---|---|
| accept loop, one per generation | `network.rs` | its socket, its shutdown receiver, the connection in hand | bind; accept and count; ask the tracker; request a migration; wait 500 ms for a permit; spawn a handler or drop with FIN; stop | tracker (mutex), semaphore, migration channel, metrics |
| connection handler task | `network.rs`, `personas.rs` | its permit, its place in `active_connections` | talk; uncount; free the permit | semaphore, counter (mutex) |
| migration executor | `network.rs` | `last_migration`, `current_port`, the sender of the current listener | take a request; cooldown; find a port; spawn a listener; sleep 50 ms; signal the old one; publish; spawn the hand-off | channel of 8 requests, `shutdown_tx` (mutex, shared with the shutdown), `find_free_port`, metrics |
| shutdown | `network.rs` | a 5 s deadline | Ctrl-C; abort the executor; signal; drain; exit | executor, current listener, counter |
| attack tracker | `detector.rs` | an LRU cache of 10 000 addresses with the times of their hits | `record_and_check`, `purge_all_old` | the accept loops, under a mutex |
| port selection | `migration.rs` | none but the attempt count | `candidate_port`, `find_free_port` | the host's ports |
| redirect | `redirect.rs` | rules in an nftables table of the kernel, which outlive the process | add a rule, sleep 30 s, flush the table | `nft`, the decoy |
| decoy | `migration.rs` | a socket on the old port, a deadline | bind once, feed banners, end | the host's ports |
| persona handlers | `personas.rs`, `persona.rs` | line buffer, read buffer, read timeout | banner, read lines, answer, close | the client |
| configuration, start-up | `config.rs`, `main.rs` | flags, file, merged configuration | parse, merge, validate, spawn the dashboard, start the listener | dashboard, listener |
| metrics, dashboard | `metrics.rs`, `dashboard.rs` | atomic counters, the port, the start time | increment, read, serve | every task |
| socket options | `sockopt.rs` | the socket under construction and its options | create, set options, bind, listen, convert | the kernel; other programs on the port; clients, from `listen` on |
| log file | `logger.rs`, `main.rs` | a bounded queue, a worker thread, the guard in `main` | open; report a line; write; flush and stop | every task |
| terminal output, errors, test harness | `display.rs`, `util.rs`, `error.rs`, `lib.rs`, `tests/`, `benches/` | none that the rest reads | | |

What is hard here, and what makes each part correct:

* **Accept loops, handlers, executor and shutdown** share a semaphore, a
  counter under a lock of its own, a channel, a sender under another lock and
  `metrics`, and the executor can be aborted at each of its awaits. Correct
  means: the limit is global over generations of listeners and no permit is
  lost; a connection is dropped only at the limit; a loop never gets stuck;
  every listener can be stopped by somebody; a burst of alarms moves the
  honeypot once; what is published is what is served; nothing but the exit cuts off
  a client that was accepted; Ctrl-C ends the process.
* **Tracker**: eviction, pruning and the cap each forget hits. Correct means it
  neither reports an address without cause nor misses one, except where the
  bounded memory makes that unavoidable, and that the memory really is bounded.
* **Hand-off**: one task per migration, several at a time, over rules in one
  kernel table and sockets on ports the honeypot may come back to. Correct
  means: every rule has a task that removes it, every hand-off ends, and the
  rules together lead to where the honeypot is.
* **Port selection**: arithmetic over two bands with casts to 16 bits, and a
  race with other programs. Correct means: only ports the configuration would
  accept, all of them, never the excluded one, and an end to the search.
* **Socket options**: the kernel takes connections from `listen` on, before any
  task accepts them, and the port may have been taken since it was probed.
  Correct means: one fingerprint per listener.
* **Metrics and dashboard**: counters raised by many tasks and read one by one,
  with relaxed atomics and no lock. Correct means: totals never go back for a
  client, and the port shown is not older than the migrations shown with it.
* **Log file**: a lossy queue in front of a thread that dies with the process.
  Correct means: what was queued before the goodbye is in the file at the exit.
* **Persona handlers**: split and pipelined lines, timeouts, and the kernel's
  choice between FIN and RST, and lines that are not UTF-8. Correct means: answers in
  order and none behind a line that cannot be read, RST only for who runs ahead, and no
  client keeps a handler that has a timeout.
* **Configuration**: two sources, each valid alone and invalid together.
  Correct means: nothing runs that was not validated as merged.

PROJECT.json lists the hazards one by one, at the line where each bites, with
the properties that cover them.

## Modules

```
Config  <- PortSelection <- Sockets <- MCSockets, PortSelectionProofs
Config, Logging <- Startup <- MCStartup, StartupProofs
Service <- Handoff <- MCHandoff, HandoffProofs
Network <- MCNetwork, NetworkProofs
Admission, Service <- Network (INSTANCE: the abstract specifications it implements)
Detector <- MCDetector, DetectorProofs      Dashboard <- MCDashboard, DashboardProofs
Personas <- MCPersonas, PersonasProofs
Network, Detector (INSTANCE) <- Trap <- MCTrap;  Trap, NetworkProofs, DetectorProofs (INSTANCE) <- TrapProofs
```

**Network** has one program counter per connection (`conn[c]`) that runs
through the accept loop of its listener (`home[c]`) and then through its handler task;
a loop has one connection in hand at a time (`Selecting`). A listener is named
by its generation. `stop[g]` says that its `shutdown_rx` is ready, which a
message makes it and so does the loss of the sender: that is why `Cancel`, the
abort that takes the executor with the new sender still in its hands, sets it.
Each action is the code between two points at which another task can see or
change the shared state:

| code | action |
|---|---|
| `bind_with_options` in the listener task, :190-202 | `Bind` (may fail on any port) |
| accept, `inc_connections`, :206-210 | `Accept` |
| `record_and_check` under the tracker's lock, :212-223 | `RecordQuiet`, `RecordAlarm` |
| `try_send`, :225-227 | `RequestMigration` (lost when the channel is full or closed) |
| `timeout(500 ms, acquire)`, :232-250 | `AcquirePermit`, `DropAtLimit` |
| increment and spawn, :253-258 | `SpawnHandler` |
| handler task, :259-261 | `HandlerReturns`, `Uncount`, `ReleasePermit` |
| shutdown branch of `select!`, :269-277 | `StopListener` (the kernel resets the accept queue) |
| executor, :68-143 | `ReceiveRequest`, `CheckCooldown`, `FindPort`/`NoFreePort`, `Wake`, `SwapSender`, `Publish` |
| Ctrl-C, abort, signal, drain, :145-176 | `CtrlC`, `Cancel`, `SignalShutdown`, `DrainDone`, `DrainDeadline` |
| return of `start_listener` and of `main`, :175-176 and `main.rs:58-59` | `Exit` (the runtime drops its tasks and every socket with them) |

A request carries, as its only content, the number of migrations completed when
it was sent: the code sends nothing but the alarm, and the number is what
`OneMigrationPerBurst` compares. A permit the semaphore has assigned to a
waiter counts as acquired. Two branches have no action: the error of `accept`,
which only logs, and the closed semaphore of :237-240, which cannot happen
because nothing closes it.

**Admission** is what all this promises a client, with neither permits, counters nor
listeners: at most `Limit` are served at a time, a client is refused only while that many
are, and as long as the process lives, none that has been accepted is cut off: neither by a
migration nor by a listener that the shutdown stops, which cut off only who waits in the accept
queue. The exit cuts off whoever is left, whether the drain found nobody or ran into its
deadline (`network.rs:163-168`), and comes only after Ctrl-C. Network implements it under
the mappings `Standing`, which forgets everything but what each client sees (`Seen`), and `Phase`.

**Service** is what it promises the rest of the program: a sequence of listeners, each
`starting`, then `open` and at last `closed`, or `failed`; one migration under way at a time;
each migration asked for, since the one before, by a connection that an open listener took
(`Ask`, `Start`); and no listener closed before its successor has been started, until the
shutdown closes all. Network implements it under `Stages`, `Asked` and `Phase`; connections,
permits, the requests one by one, the executor's steps and the senders are gone. That the successor has *bound* is not
promised, because the code does not see to it (see Findings).

**Detector** is sequential: its callers hold its lock. A hit is named by its
position in `log`, the history of all hits that the program does not keep, so
that the tracker's entries are sets of positions and every property compares
what is kept with what has happened. `Evict`, `Prune` and `KeepCap` are the three
ways of forgetting, `Record` composes them in the order of the code.

**Trap** puts the two together. Network leaves open whether a connection is an attack; here
`Judge` is the step of an accept loop under the lock of the tracker, in which
`record_and_check` answers for the address of the connection (`peer`) and the loop
goes on as the answer says. Every other step of Network leaves the tracker alone
(`Elsewhere`), and time passes at any moment. The generations of listeners share one
tracker, so that a scan may be seen in parts by a listener and its successor.

**Handoff** follows the Linux build and is built *on* Service, so that Network need not
be run beside it: whatever Network's listeners do is a behaviour of Service
(`ImplementsService`). `task[k]` is the task that the `k`-th migration spawns: add
the rule, hold it 30 s, flush; or, when adding fails, settle 200 ms and bind the
decoy. `rules` is the chain in the kernel and survives `Exit`. An old listener
closes at any time after the migration, because it may be waiting for a permit
(`network.rs:232`).

**Config** holds `Merged` and `Valid`. **Startup** is the whole of `main`: the merged
configuration is validated, the log opened, dashboard and listener started,
and at the end the guard dropped. What `start_listener` does meanwhile is Network; here it
only reports lines. **Logging** is the log file: `Report` puts a line on the queue of
`tracing_appender` or drops it, `Work` is the thread that writes, `DropGuard`, `GuardDone`
and `GuardTimesOut` are the end of the guard, as the library has it.

**PortSelection** is `candidate_port` with its real constants and widths and the loop of
`find_free_port`, against `ValidPort` of Config. **Sockets** goes on from the port found
to the listener: `step` runs through `Calls`, the order of the calls in
`bind_with_options`; an option that cannot be set is passed over, another call that
fails drops the socket. `profiles` is history: the options under which clients
connected.

**Dashboard** has the counters as the tasks raise them and each request handler as a
program counter over the fields in their order in the source. `current_port` is
represented by how often it was published, so that an old port is a smaller number.
All loads are relaxed: on a machine that keeps their order (`ordered`, x86-64) a load
gives the current value, on others any value not older than what the same client has been told.
Detector and Network say who alarms and when a migration runs; here both are arbitrary.

**Personas** is one handler and an arbitrary client. Data is cut down to pieces:
bytes without a newline, or the end of a line that says `ping`, `quit` or
something else, or that is not UTF-8 (`binary`). On such a line `read_line` fails, and the
handler leaves without an answer while the client is open and may have sent more (`NotUtf8`). `line` is the buffer of `read_line`, `buf` the BufReader, `rcv` the
receive queue of the socket, whose content at the moment of the close decides
between FIN and RST. `due` is history: the lines that have had no answer. A client *runs
ahead* when it sends something behind the last line that is answered or that cannot be
read (`ResetOnlyAhead`).

## Runs

All `pass` runs finish with no error. `CHECK_DEADLOCK FALSE` stands where the
modelled system may stop: the process exits, a hand-off or a handler ends, the
start-up is decided.

| run | instance | what it shows |
|---|---|---|
| `network_safety` | 3 connections, 2 permits, 2 ports, 2 migrations, queue of 2; connections symmetric; 917 k states | the connection limit (`PermitsConserved`, `ActiveWithinLimit`, `ImplementsAdmission`) and the migration protocol (`ImplementsService`, `NoOrphanListener`, `OneMigrationPerBurst`, `PublishedPortIsCurrent`, `MigrationsWithinAlarms`) |
| `network_liveness` | 2 connections, 1 permit, 1 migration; 94 k states | `AcceptLoopProgress`, `SignalledListenerStops`, `ShutdownTerminates`, although no client ever finishes |
| `network_confirmed` | violation | see Findings |
| `network_drain` | violation | see Findings |
| `detector` | 3 addresses, cache of 2, threshold 2, window 1, 9 hits in 3 instants; addresses symmetric; 322 k states | `NoFalseAlarm`, `NoMissedScan`, `MemoryBound` |
| `trap` | 3 connections from 2 addresses, 1 permit, 1 migration, threshold 2, window 1, 3 instants; connections and addresses symmetric; 1.47 M states | `HitsAreConnections`, `AttacksAreScans`, `MigrationsWithinScans` |
| `handoff` | 3 ports, 2 migrations, decoy of 2 ticks; 158 k states | `RulesHaveKeeper`, `HandoffEnds` |
| `handoff_reach` | violation | see Findings |
| `port_selection` | draws at both ends of both bands and folded onto them, 6 attempts; 838 k states | `ResultUsable`, `SearchEnds`, `OneFingerprint` |
| `personas` | receive queue and send buffer of 2, timeout of 2 ticks, lines of four kinds, one of them not UTF-8; 188 k states | `AnswersInOrder`, `ResetOnlyAhead`, `TimedHandlersEnd` |
| `startup` | up to 2 settings with values on both sides of each limit; 2 tasks, 2 lines each, queue of 2; 1.36 M states | `RunsWithinLimits`, `LogSurvivesExit`, `StartDecided` |
| `dashboard` | 2 accept loops (symmetric), 1 client, 2 connections, clock of 3 values; 1.06 M states | `PortKeepsUp`, `AlarmsExplainMigrations`, `TotalsNeverDecrease` |

**Why the bounds are enough.** Three connections over two permits give a
connection that is refused while two hold, one that takes over a freed permit,
and one on each of three listeners; two migrations give a second migration that
meets requests left over from the first, and an old listener that is itself
new. With one permit and two connections a listener waits for a permit that
an idle client holds, the case the liveness properties are about; that the permit
is unique only makes waiting more frequent. Three addresses on a cache of two
exercise every eviction; nine hits go one beyond the cap of 8 of one entry.
Three connections with a threshold of two give, in `trap`, a scan whose hits are seen by the first listener and
by its successor, one that is half as long as it must be, and one that is spread over more than the window. Two migrations over three ports make the honeypot come back to a port, or move on while
the first hand-off is under way, with both tasks on one chain. Six attempts let a search
meet every draw, the excluded port and taken ports; what 16 differ in is only
when it gives up. Two pieces in a queue are a split line or a pipelined
pair. Two settings are a flag and the file value over it, or the two ports of a pair.
Two tasks and a queue of two give a full queue, a dropped line and a line behind the
shutdown message. Two connections on two loops are two alarms, of which the second meets
the executor in the middle of a migration while the client reads; one client
is enough because handlers share nothing but the counters. In every run the bounds
`MaxMigrations`, `MaxHits`, `MaxTime`, `RcvCap`, `MaxSettings`, `MaxLines` and
`MaxCount` are guards of the actions that would exceed them.

**Fairness.** Network: weak fairness for every step of a task, because the
multi-threaded runtime runs every task that is ready and timers fire; strong
fairness for `StopListener`, because the shutdown branch of `select!` competes
with `accept` and tokio polls ready branches in random order, so that it is not
passed over for ever. Nothing is assumed of clients, of other programs or of
the operator: `HandlerReturns`, `Connect`, `Accept` and `CtrlC` have no fairness.
Handoff: the commands return, sleeps end and the decoy's clock runs. Startup:
`main` goes on; the dashboard need not. Sockets: the executor is run
through its search; other programs do as they like. Dashboard: none, all its properties are safety.
Personas: the handler is run and time passes; the client does as it likes.
Symmetry is used in runs without liveness only.

**Timing.** Timers fire at any moment after they are set, which covers every
schedule. One assumption is made: the requests sent before a migration ended
are taken from the channel within the 5 s cooldown (`CooldownEnds`). The
executor has nothing to do but take them, and `OneMigrationPerBurst` would
be false without it, as it would in a process starved for 5 s.

## Findings

The violation runs state what a comment or a document says and show where the
code does otherwise.

* `network_confirmed`: README.md:258 promises that the new listener is confirmed
  accepting before the old one shuts down. The executor sleeps 50 ms
  (`network.rs:102`) and signals; if the bind has failed (:198-201), the honeypot
  has no listener left.
* `network_drain`: the drain (`network.rs:169`) trusts a counter that an accepted
  connection reaches only after its wait for a permit (:253), so the process can leave at
  once with such a connection in flight; Changelog.md:32 promises a drain
  window for in-flight connections.
* `handoff_reach`: README.md:28 promises a redirect from the old port to the new with no
  dropped connection. A rule names the port of its own migration (`redirect.rs:87`) and
  a redirected connection is not looked up again. After a second migration within
  30 s (the cooldown is 5 s) the first rule leads to a port that is closed, and when the
  second migration comes back to the first port, as in TLC's trace, connections to the
  *current* port are led away from it. In that trace each of the three listeners comes up, the
  two old ones are closed after their successors are started, and each migration is asked
  for by a connection to an open listener.

Divergences met while reading, for which there is no run:

* Changelog.md:12 promises FIN on every close, never RST. The kernel sends RST when a socket is
  closed with bytes unread: handle_ssh reads once (`personas.rs:33`) and closes whatever else has
  come, handle_http and handle_redis leave what follows their last line, and all three line
  readers leave what follows a line that is not UTF-8 (:73-76, :125-128, :165-169). `ResetOnlyAhead`
  says for all personas but SSH which clients can see it: only those that run ahead.
* README.md:257, Changelog.md:30 and `detector.rs:9-10` put the memory of the tracker at about
  720 KB at worst. `MemoryBound` is what the code ensures: 10 000 entries of `4 * threshold` times
  each (`detector.rs:54-56`), which at 16 bytes a time is 640 KB per unit of the
  threshold, and the threshold may be 1000.
* README.md:258 promises no dropped connection on migration; closing the listening socket
  (`network.rs:269`) resets what waits in its accept queue (`StopListener` does it).
* `redirect.rs:9` removes the rule of a migration after its 30 s; `remove_redirect` flushes
  the table (:101), so the end of one redirect removes the rules of later ones early (`Flush`).
* `network.rs:116-119` and README.md:27 have the old port go to a decoy after the redirect, or
  without `nft`. The task ends after the flush (`redirect.rs:123-129`), and a missing `nft` is
  `Ok(())` (:53-55), which looks like success: the decoy starts only when an `nft` command fails.
* `dashboard.rs:98` declares the uptime a counter, which Prometheus takes to decrease only at a
  restart; it is a difference of system clock readings (`metrics.rs:42`) and goes back with the
  clock (`Uptime`, `SetClock`).
* The dashboard is spawned before `start_listener` publishes a port (`main.rs:52`,
  `network.rs:20`): an early client is told that the current port is 0 (`SetFirstPort`).
* An abort takes effect at the next await that waits. When Ctrl-C comes after the executor's
  sleep, main may signal the old sender (`network.rs:152`) before the executor stores the new one
  (:107): the new listener is never signalled and accepts through the drain, until the process ends.
* README.md:153 has a decoy on the old port 200 ms later; the old loop may hold the
  port 500 ms while it waits for a permit, and the decoy binds once (`DecoyRefused`).
* `persona.rs:12` has Redis send PONG on connect; `handle_redis` reads first, only
  the decoy sends the banner.
* README.md:108 says that flags override the file; `config.rs:81` has it the other way, and :86
  never takes the persona of a file, though README.md:117 shows one. `Merged` of
  Config has the code's behaviour.
* `config.rs:37` asks for a writable parent directory; a bare file name is refused
  (:143), because its parent is the empty path.

## Proofs

TLAPS proves, with no bound on connections, ports, migrations, addresses, hits, lines, tasks
or time, from the named assumptions on the constants in each module (finite sets,
positive limits, `InitPort \in Ports`):

| theorem | statement |
|---|---|
| `TypeCorrect`, `PermitsAreConserved`, `ActiveIsWithinLimit` | the type invariant, `PermitsConserved` and `ActiveWithinLimit` of Network |
| `NetworkAdmits` | `ImplementsAdmission`: every behaviour of Network is one of Admission |
| `NetworkServes` | `ImplementsService`: every behaviour of Network is one of Service |
| `NoListenerIsOrphaned`, `PublishedPortIsTheCurrentOne` | `NoOrphanListener`, `PublishedPortIsCurrent` |
| `BurstMovesOnce`, `MigrationsAnswerAlarms` | `OneMigrationPerBurst`, `MigrationsWithinAlarms` |
| `TrackerTypes`, `MemoryIsBounded`, `NoFalseAlarms`, `NoMissedScans` | the four invariants of Detector |
| `EveryConnectionIsRecorded`, `AttacksAreExact`, `MovesAnswerScans` | `HitsAreConnections`, `AttacksAreScans`, `MigrationsWithinScans` of Trap |
| `TrapRunsNetwork`, `TrapRunsTracker` | every behaviour of Trap is one of Network and one of Detector |
| `HandoffTypes`, `RulesAreKept` | the invariants of Handoff |
| `HandoffKeepsService` | beside the hand-offs the listeners behave as Service says |
| `CandidateIsValid`, `EveryValidPortIsCandidate`, `ResultIsUsable` | `candidate_port` maps every random number to a valid port and reaches every valid port; `find_free_port` returns a valid port other than the excluded one |
| `FingerprintIsOne` | `OneFingerprint` of Sockets |
| `LimitsHold`, `LogSurvives` | `RunsWithinLimits`, `LogSurvivesExit` of Startup |
| `HandlerTypes`, `AnswersKeepOrder`, `OrderlyClose` | `TypeOK`, `AnswersInOrder` and `ResetOnlyAhead` of Personas |
| `DashboardTypes`, `PortFollows`, `AlarmsExplain`, `TotalsGrow` | the three invariants of Dashboard and the action property `TotalsNeverDecrease` |

The arguments:

* **Connection limit** (`CoreInv`). Neither the types nor `active <= MaxConn` are
  inductive alone: nothing in them says that `Uncount` finds the counter above zero, or
  that a connection that is to be counted still has a permit. `LimitInv` counts holders and handlers as sets of connections in given states
  (`In(S)`), lemma `MoveIn` says what moving one connection does to such a count, and
  each action is one use of it. The bound follows because a counted connection is a holder. All
  this is said of the living process: `Exit` closes the connections without a permit being freed.
* **Admission**. With `CoreInv`, the served clients of Admission are the holders of permits
  (`ServedAreHolders`), so `permits > 0` is `Cardinality(Served) < Limit` and `permits = 0` is
  equality. `StandingMove` turns a move of a connection into a move of its client or a stutter,
  and each action but the exit is one use of it. `Exit` of Network is `Exit` of Admission
  (`ExitAdmits`): the only step that cuts off an accepted client.
* **Service**. With `GenInv`, `last` and `done` differ only between the executor's spawn and its
  `Publish`; a listener whose `stop` is set has a successor or the shutdown has begun. With
  `OriginInv`, a connection in an accept loop came through a listener that is still open, and no
  request is younger than the migrations completed, so that `Publish` leaves none that counts as
  `Asked`; and by `RequestInv` the executor past the cooldown check has one. Each action of
  Network is one action of Service or leaves its variables alone.
* **Generations** (`GenInv`). It relates `txGen` and `lastGen` to the executor's
  program counter: they differ only while a migration is between its spawn and its
  swap, and `NoOrphanListener` is inductive only with that. The abort in that window drops the
  unswapped sender, which is what stops the new listener.
* **Requests** (`RequestInv`). A stale request exists only while the cooldown runs, and
  the executor past the cooldown check has a fresh one; the alarms
  not yet turned into requests, the requests and the finished migrations
  together never exceed the alarms.
* **Tracker** (`TrackerInv`, then `HitFate`). The log is ordered by time, an entry keeps the newest
  hit of its address, and entries are bounded. `NoMissedScan` needs what became of every hit in the
  window: it is in its entry, or it has left the window, or it is behind `Cap` newer hits of its address, or
  `MaxTracked` other addresses came after it. The step from eviction (`VictimPushedOut`) is that the victim is the least recent of
  `MaxTracked` entries, each with a newer hit.
* **Tracker in the listeners**. `TrapRunsNetwork` and `TrapRunsTracker` are refinements under the
  identity: a verdict of the tracker is one of those that Network allows, and what the loops do to
  the tracker are calls of it. So all that is proved of Network and of Detector holds of Trap, the
  bound on the calls, which the code does not have, being the number of connections: that it is
  never met is `HitsAreConnections`. With room for every address, `NoMissedScan` and `NoFalseAlarm`
  make the verdict exact (`Verdicts`): the alarm is raised if and only if the last hit completes a
  scan. `AttacksAreScans` counts these, since an earlier hit stays a scan or no scan when the log
  grows; `MigrationsWithinScans` adds `MigrationsWithinAlarms`, and needs no room for the
  addresses, because a false alarm is impossible in any case.
* **Hand-off**. Types together with `Unspawned` (the tasks of migrations that are not complete are
  idle, so a migration takes a fresh one); `RulesHaveKeeper` is then inductive.
* **Ports**. Linear arithmetic over the two bands; that the casts to `u16` lose no bit
  is the lemma `CastKeeps`, which `CandidateIsValid` uses; the
  search keeps the invariant that the candidate under way is a valid port. For the listener, the
  invariant says that no options are set and no client connects while `step` has not come
  to the call in question, which is where the order of `Calls` enters.
* **Lines and answers** (`LineInv`, `OrderInv`, `ResetInv`). `AnswersInOrder` speaks of the line
  in hand; that it is the oldest one due needs what is still to be read as well. `Stream` is
  that input, with the end which FIN gives to its last line, `Owed` the answers due for it, and
  `OrderInv` says that the one spells the other: `Spells(d, s)` gives by an increasing
  function the place in `s` of each word of `d`, so that nothing is defined by recursion.
  `SpellsPart`, `SpellsEnd` and `SpellsCut` say what another piece, another end and taking the first line
  do to it; each action uses one of them. `read_line` puts at most one line in hand
  (`LineInv`), which is where `line.clear()` enters. `ResetInv` says what a handler that sent
  RST left in the receive queue; a line end there is an answer still owed, by `OrderInv`, and
  one more than the line in hand when that could not be read (`LeftBehind`, `ResetNotUtf8`).
* **Start-up and log** (`LogInv`). A started process has the merged configuration that was
  validated. For the log, a line told before the goodbye is in the file or in the queue
  ahead of the shutdown message, and the worker stops only at that message; both need that the
  guard is held until the end.
* **Dashboard**. For `TotalsGrow`: answer <= what was read <= the counter, field by field. For
  `PortFollows` and `AlarmsExplain`: the port is ahead of the migrations except between the two
  halves of `Publish`, the alarms are ahead of requests, migration under way and
  migrations together, and what a handler has read is bounded by what is true when it
  reads the next field.

**Only model-checked**: everything temporal under fairness (`AcceptLoopProgress`,
`SignalledListenerStops`, `ShutdownTerminates`, `HandoffEnds`, `SearchEnds`,
`TimedHandlersEnd`, `StartDecided`), which is out of this prover's reach, as is
ENABLED. Every invariant and action property of a passing run is proved. No module declares a
recursive operator.

## Not modelled, and why

* Texts, banners, the terminal layer of the log, `display.rs`, error types: no state that anything reads.
* HTTP, JSON and the Prometheus text of the dashboard; `/health`, which reads nothing.
* What an option of a socket does to the packets: Sockets has which options a connection meets.
* `MigrationHistory` of `migration.rs` and `util.rs`: nothing uses them.
* The build for other systems, where the redirect is only a decoy; the `sysctl` call of
  `add_redirect`, whose result is only logged. The commands of `add_redirect` are one step: only the
  last adds the rule, and each failure ends the same way.
* SIGTERM: the code handles Ctrl-C alone. A next process that finds the rules of the last one
  in the kernel: nothing reads them back.
* Harness, tests and benchmarks (`lib.rs`, `tests/`, `benches/`): wrappers around the modelled code.

## Plan

Done: all components with state, their runs, two abstract specifications with their refinements,
the composition of the listeners with the tracker, and every safety property of the
passing runs as a theorem.

Left: a restart in Handoff, with a second process on a chain that still has the rules
of the first.
