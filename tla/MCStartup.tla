------------------------------ MODULE MCStartup ------------------------------
(* Startup with values on both sides of each limit. *)
EXTENDS Startup


EdgeValues ==
  [port            |-> {1023, 1024, 8081, 32768, 61000},
   dashboard_port  |-> {9000, 32767, 60999, 65535},
   threshold       |-> {0, 1, 1000, 1001},
   window          |-> {0, 1, 3600, 3601},
   max_connections |-> {0, 1, 100000, 100001},
   log             |-> {"bare", "nodir", "denied"},
   persona         |-> {"http", "redis"}]
=============================================================================
