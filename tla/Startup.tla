------------------------------- MODULE Startup -------------------------------
(***************************************************************************)
(* src/main.rs: from the command line to the end of the process.  The      *)
(* operator gives flags and writes a configuration file, in any order and  *)
(* number up to a bound, then starts the process and some time ends it;    *)
(* what start_listener does in between is module Network.                  *)
(***************************************************************************)
EXTENDS Config, Logging, FiniteSets

CONSTANTS
  Values,       \* [Fields -> set of values]: what the operator may give
  MaxSettings,  \* bound: settings given on the command line and in the file
  Main          \* main, one of the Loggers

\* clap and toml admit nothing else for a number; the log is a path class of Config.
ASSUME StartupAssumption ==
  /\ DOMAIN Values = Fields
  /\ \A f \in Numbers : Values[f] \subseteq Nat
  /\ Values.log \subseteq Paths
  /\ MaxSettings \in Nat /\ Main \in Loggers

VARIABLES
  flags,      \* settings given on the command line
  file,       \* settings in the configuration file
  fileState,  \* "none" (no --config), "unreadable", "malformed" or "ok"
  cfg,        \* the configuration of main
  phase,      \* "command", "merged", "rejected", "started", "running", "over" or "exited"
  dashboard,  \* the dashboard task: "none", "serving" or "failed"
  told        \* history: the lines queued or written when main had said goodbye

mainVars == <<flags, file, fileState, cfg, phase, dashboard, told>>
vars     == <<mainVars, logVars>>

NoSettings == [f \in {} |-> 0]

Init ==
  /\ flags = NoSettings /\ file = NoSettings
  /\ fileState \in {"none", "unreadable", "malformed", "ok"}
  /\ cfg = Defaults /\ phase = "command" /\ dashboard = "none"
  /\ told = {} /\ LogInit

MaySet == phase = "command" /\ Cardinality(DOMAIN flags) + Cardinality(DOMAIN file) < MaxSettings

\* The settings s with v for f.
With(s, f, v) == [g \in DOMAIN s \cup {f} |-> IF g = f THEN v ELSE s[g]]

GiveFlag(f, v) ==
  /\ MaySet /\ f \notin DOMAIN flags
  /\ flags' = With(flags, f, v)
  /\ UNCHANGED <<file, fileState, cfg, phase, dashboard, told, logVars>>

WriteFile(f, v) ==
  /\ MaySet /\ fileState # "none" /\ f \notin DOMAIN file
  /\ file' = With(file, f, v)
  /\ UNCHANGED <<flags, fileState, cfg, phase, dashboard, told, logVars>>

\* CliConfig::parse().merged(): a file that cannot be used is passed over.
Merge ==
  /\ phase = "command" /\ phase' = "merged"
  /\ cfg' = IF fileState = "ok" THEN Merged(Parsed(flags), file) ELSE Parsed(flags)
  /\ UNCHANGED <<flags, file, fileState, dashboard, told, logVars>>

\* (Mutant: the command line is validated, not the merged configuration.)
ValidateFlags ==
  /\ phase = "merged" /\ phase' = IF Valid(Parsed(flags)) THEN "started" ELSE "rejected"
  /\ UNCHANGED <<flags, file, fileState, cfg, dashboard, told, logVars>>
Validate ==
  /\ phase = "merged" /\ phase' = IF Valid(cfg) THEN "started" ELSE "rejected"
  /\ UNCHANGED <<flags, file, fileState, cfg, dashboard, told, logVars>>

StartLogging ==
  /\ phase = "started" /\ InitTracing
  /\ UNCHANGED mainVars

\* The spawned dashboard binds its port or reports an error and ends.
StartDashboard ==
  /\ phase \in {"started", "running", "over"} /\ guard # "none" /\ dashboard = "none"
  /\ dashboard' \in {"serving", "failed"}
  /\ UNCHANGED <<flags, file, fileState, cfg, phase, told, logVars>>

\* start_listener sets up the semaphore; it does not wait for the dashboard.
\* (Mutant: it does.)
StartAfterDashboard ==
  /\ phase = "started" /\ guard # "none" /\ dashboard = "serving" /\ phase' = "running"
  /\ UNCHANGED <<flags, file, fileState, cfg, dashboard, told, logVars>>
StartListener ==
  /\ phase = "started" /\ guard # "none" /\ phase' = "running"
  /\ UNCHANGED <<flags, file, fileState, cfg, dashboard, told, logVars>>

\* start_listener says goodbye and returns; main drops the guard; the process ends.
Return ==
  /\ phase = "running" /\ Report(Main) /\ phase' = "over"
  /\ told' = Lines(queue') \cup Lines(logFile')
  /\ UNCHANGED <<flags, file, fileState, cfg, dashboard>>
CloseLog ==
  /\ phase = "over" /\ (DropGuard \/ GuardDone \/ GuardTimesOut)
  /\ UNCHANGED mainVars
Exit ==
  /\ phase = "over" /\ guard = "dropped" /\ phase' = "exited"
  /\ UNCHANGED <<flags, file, fileState, cfg, dashboard, told, logVars>>

\* The tasks go on while main closes the log; the runtime ends them when main has ended.
Background ==
  /\ phase \in {"running", "over"}
  /\ Work \/ \E l \in Loggers \ {Main} : Report(l)
  /\ UNCHANGED mainVars

Next ==
  \/ \E f \in Fields : \E v \in Values[f] : GiveFlag(f, v) \/ WriteFile(f, v)
  \/ Merge \/ Validate \/ StartLogging \/ StartDashboard \/ StartListener
  \/ Return \/ CloseLog \/ Exit \/ Background

Spec == Init /\ [][Next]_vars
FairSpec ==
  Spec /\ WF_vars(Merge) /\ WF_vars(Validate) /\ WF_vars(StartLogging) /\ WF_vars(StartListener)

----------------------------------------------------------------------------
(* Properties. *)

Between(x, lo, hi) == lo <= x /\ x <= hi

\* Wherever a setting came from, the honeypot runs with documented limits only, on a
\* port of its own, with a connection limit the semaphore accepts (network.rs:33) and
\* with a log it can open (main.rs:35).
RunsWithinLimits ==
  phase = "running" =>
    /\ \A p \in {cfg.port, cfg.dashboard_port} :
         Between(p, 1024, 32767) \/ Between(p, 61000, 65535)
    /\ cfg.port # cfg.dashboard_port
    /\ Between(cfg.threshold, 1, 1000) /\ Between(cfg.window, 1, 3600)
    /\ Between(cfg.max_connections, 1, 100000)
    /\ cfg.log = "writable"

\* main.rs:37: when the process has ended, the log file holds the goodbye and every line
\* before it that the queue had room for, however far the worker was behind: unless the
\* disk was slower than the guard waits.
LogSurvivesExit == phase = "exited" /\ ~late => told \subseteq Lines(logFile)

\* Every start is decided: the process exits with its errors, or the honeypot comes up
\* even when the dashboard does not.
StartDecided == <>(phase \in {"rejected", "running"})

=============================================================================
