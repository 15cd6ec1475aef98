------------------------------- MODULE Config -------------------------------
(***************************************************************************)
(* src/config.rs as operators: the defaults, how a configuration file is   *)
(* merged with the command line, and what validate objects to.  Settings   *)
(* given by flags or in a file are a function on the fields given.         *)
(***************************************************************************)
EXTENDS Naturals

Fields   == {"port", "dashboard_port", "threshold", "window", "max_connections", "log", "persona"}
Numbers  == Fields \ {"log", "persona"}
Paths    == {"writable", "bare", "nodir", "denied"}
Defaults == [port |-> 9000, dashboard_port |-> 8081, threshold |-> 5, window |-> 10,
             max_connections |-> 10000, log |-> "writable", persona |-> "ssh"]

\* What clap makes of the flags given.
Parsed(flags) == [f \in Fields |-> IF f \in DOMAIN flags THEN flags[f] ELSE Defaults[f]]

\* CliConfig::merged with a file that could be read and parsed: FileConfig has no
\* persona, toml ignores the key.
Merged(cli, file) ==
  [f \in Fields |-> IF f \in DOMAIN file \ {"persona"} THEN file[f] ELSE cli[f]]

\* validate_port objects to nothing.
ValidPort(p) ==
  /\ p \in Nat /\ p < 65536
  /\ ~(p < 1024)
  /\ ~(32768 <= p /\ p <= 60999)

\* The log is a path class: "writable"; "bare", a file name in a writable current
\* directory, whose parent() is the empty path, which does not exist; "nodir", with a
\* parent that does not exist; "denied", which cannot be opened for appending.
LogOpens(l) == l \notin {"bare", "nodir", "denied"}

\* CliConfig::validate returns Ok.
Valid(cfg) ==
  /\ ValidPort(cfg.port) /\ ValidPort(cfg.dashboard_port)
  /\ cfg.port # cfg.dashboard_port
  /\ ~(cfg.threshold = 0) /\ ~(cfg.threshold > 1000)
  /\ ~(cfg.window = 0) /\ ~(cfg.window > 3600)
  /\ ~(cfg.max_connections = 0) /\ ~(cfg.max_connections > 100000)
  /\ LogOpens(cfg.log)
=============================================================================
