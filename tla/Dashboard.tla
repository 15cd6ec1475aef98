----------------------------- MODULE Dashboard -----------------------------
(***************************************************************************)
(* src/metrics.rs and src/dashboard.rs: tasks raise the counters while     *)
(* request handlers read them, one atomic after the other, with no lock.   *)
(*                                                                         *)
(* current_port is represented by the number of times it was published: 0  *)
(* is the initial zero, 1 is cfg.port, 1 + n the port of migration n.      *)
(* Every access is Relaxed: a load returns the current value on machines   *)
(* that keep loads and stores in program order (x86-64), elsewhere any     *)
(* value that is not older than what the same client has been told.        *)
(* Abstracted: who alarms and when a migration runs (modules Detector and  *)
(* Network), HTTP, and the text of an answer.                              *)
(***************************************************************************)
EXTENDS Integers, Sequences, FiniteSets

CONSTANTS
  Clients,   \* of the dashboard; each waits for its answer before it asks again
  Loops,     \* accept loops
  MaxCount,  \* bound: connections
  MaxTime    \* bound: the clock, in seconds

ASSUME DashboardAssumption == IsFiniteSet(Loops) /\ MaxCount \in Nat /\ MaxTime \in Nat

VARIABLES
  ordered,   \* the machine keeps loads and stores in program order
  metrics,   \* the atomics: connections, attacks, migrations and port
  loop,      \* [Loops -> {"select", "counted", "alarmed"}]
  requests,  \* migration requests sent and not yet taken
  exec,      \* the executor: "boot", "recv", "moving" or "published"
  clock,     \* unix_now()
  start,     \* start_secs
  reading,   \* [Clients -> Nat]: the field its handler reads next, 0 without a request
  got,       \* [Clients -> answer]: what was read for the client, this time or the last
  answer     \* [Clients -> answer]: the last answer

vars == <<ordered, metrics, loop, requests, exec, clock, start, reading, got, answer>>

Counters == {"connections", "attacks", "migrations", "port"}
Zeroes   == [f \in Counters |-> 0]
Shown    == Counters \cup {"uptime"}
Blank    == [f \in Shown |-> 0]

Init ==
  /\ ordered \in BOOLEAN
  /\ metrics = Zeroes
  /\ loop = [l \in Loops |-> "select"] /\ requests = 0 /\ exec = "boot"
  /\ clock \in 0 .. MaxTime /\ start = clock
  /\ reading = [c \in Clients |-> 0]
  /\ got = [c \in Clients |-> Blank] /\ answer = [c \in Clients |-> Blank]

----------------------------------------------------------------------------
(* The tasks of network.rs. *)

Inc(f)  == metrics' = [metrics EXCEPT ![f] = @ + 1]
Others  == UNCHANGED <<ordered, clock, start, reading, got, answer>>

LoopStep(l, from, to) ==
  /\ exec # "boot" /\ loop[l] = from
  /\ loop' = [loop EXCEPT ![l] = to]
  /\ UNCHANGED exec /\ Others

CountConnection(l) ==
  /\ metrics.connections < MaxCount
  /\ LoopStep(l, "select", "counted") /\ Inc("connections") /\ UNCHANGED requests
NoAlarm(l) == LoopStep(l, "counted", "select") /\ UNCHANGED <<metrics, requests>>

\* An alarm is counted, then a migration is requested: a full channel drops the request.
\* (Mutant: the other order.)
CountAlarm(l, from, to) ==
  LoopStep(l, from, to) /\ Inc("attacks") /\ UNCHANGED requests
Request(l, from, to) ==
  LoopStep(l, from, to) /\ requests' \in {requests, requests + 1} /\ UNCHANGED metrics
AlarmLate(l) == Request(l, "counted", "alarmed") \/ CountAlarm(l, "alarmed", "select")
Alarm(l)     == CountAlarm(l, "counted", "alarmed") \/ Request(l, "alarmed", "select")

ExecStep(from, to) == exec = from /\ exec' = to /\ UNCHANGED loop /\ Others
ExecInc(from, to, f) == ExecStep(from, to) /\ Inc(f) /\ UNCHANGED requests

\* start_listener publishes cfg.port before it spawns anything.
SetFirstPort == ExecInc("boot", "recv", "port")

\* A request leads to a migration, or to none: cooldown, or no free port.
TakeRequest ==
  /\ requests > 0 /\ requests' = requests - 1
  /\ \E to \in {"recv", "moving"} : ExecStep("recv", to)
  /\ UNCHANGED metrics

\* set_port, then inc_migrations.
\* (Mutants: the other order; the connections are counted anew on the new port.)
CountThenPublish ==
  ExecInc("moving", "published", "migrations") \/ ExecInc("published", "recv", "port")
PublishAfresh ==
  \/ /\ ExecStep("moving", "published") /\ UNCHANGED requests
     /\ metrics' = [metrics EXCEPT !.port = @ + 1, !.connections = 0]
  \/ ExecInc("published", "recv", "migrations")
Publish ==
  ExecInc("moving", "published", "port") \/ ExecInc("published", "recv", "migrations")

\* The system clock runs on, or is set.
SetClock(t) ==
  /\ t \in {clock + 1, clock - 1} /\ clock' = t
  /\ UNCHANGED <<ordered, metrics, loop, requests, exec, start, reading, got, answer>>

----------------------------------------------------------------------------
(* A request handler: the fields in the order of the source. *)

Order        == <<"connections", "attacks", "migrations", "port", "uptime">>
AtMigrations == 3
AtPort       == 4
Finished     == 6

HandlerKeeps == UNCHANGED <<ordered, metrics, loop, requests, exec, clock, start>>

\* GET /metrics and /metrics/prometheus read all fields, /status the last two.
Ask(c) ==
  /\ reading[c] = 0
  /\ \E first \in {1, AtPort} : reading' = [reading EXCEPT ![c] = first]
  /\ HandlerKeeps /\ UNCHANGED <<got, answer>>

\* saturating_sub.  (Mutant: plain subtraction, that wraps at Width where u64 does at 2^64.)
Width       == 2 * (MaxTime + 1)
UptimeWraps == (clock - start) % Width
Uptime      == IF clock < start THEN 0 ELSE clock - start

Loadable(c, f) ==
  IF f = "uptime" THEN {Uptime}
  ELSE IF ordered THEN {metrics[f]} ELSE got[c][f] .. metrics[f]

Load(c) ==
  /\ reading[c] \in 1 .. Len(Order)
  /\ \E v \in Loadable(c, Order[reading[c]]) : got' = [got EXCEPT ![c][Order[reading[c]]] = v]
  /\ reading' = [reading EXCEPT ![c] = @ + 1]
  /\ HandlerKeeps /\ UNCHANGED answer

Respond(c) ==
  /\ reading[c] = Finished
  /\ answer' = [answer EXCEPT ![c] = got[c]]
  /\ reading' = [reading EXCEPT ![c] = 0]
  /\ HandlerKeeps /\ UNCHANGED got

----------------------------------------------------------------------------
Next ==
  \/ SetFirstPort \/ TakeRequest \/ Publish
  \/ \E l \in Loops : CountConnection(l) \/ NoAlarm(l) \/ Alarm(l)
  \/ \E t \in 0 .. MaxTime : SetClock(t)
  \/ \E c \in Clients : Ask(c) \/ Load(c) \/ Respond(c)

Spec == Init /\ [][Next]_vars

----------------------------------------------------------------------------
(* Properties. *)

\* Every variable has its type, the uptime being no more than the clock can show.
Answers == {a \in [Shown -> Nat] : a["uptime"] <= MaxTime}
TypeOK ==
  /\ ordered \in BOOLEAN
  /\ metrics \in [Counters -> Nat]
  /\ loop \in [Loops -> {"select", "counted", "alarmed"}]
  /\ requests \in Nat /\ exec \in {"boot", "recv", "moving", "published"}
  /\ clock \in 0 .. MaxTime /\ start \in 0 .. MaxTime
  /\ reading \in [Clients -> 0 .. Finished]
  /\ got \in [Clients -> Answers] /\ answer \in [Clients -> Answers]

\* dashboard.rs:81: the totals are counters: no client is told less than it was told
\* before, on any machine and across migrations, nor an older port after a newer one.
TotalsNeverDecrease ==
  [][\A c \in Clients, f \in Counters : answer'[c][f] >= answer[c][f]]_vars

\* Where loads and stores keep their order, an answer that shows connections or n
\* migrations shows the port of the last of them or a later one, though port and counter
\* are written and read separately.
PortKeepsUp ==
  ordered => \A c \in Clients :
    answer[c].connections > 0 \/ answer[c].migrations > 0 => answer[c].port > answer[c].migrations

\* And the alarms a client reads next explain every migration it was told of before
\* (not those of the same answer: attack_count is read first).
AlarmsExplainMigrations ==
  ordered => \A c \in Clients :
    reading[c] = AtMigrations => answer[c].migrations <= got[c].attacks
=============================================================================
