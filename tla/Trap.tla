-------------------------------- MODULE Trap --------------------------------
(***************************************************************************)
(* Network and Detector together: the accept loops of all generations      *)
(* share one AttackTracker (src/network.rs:22), and what it says of a      *)
(* connection decides whether the loop asks for a migration.  The verdict  *)
(* that Network leaves open is here the tracker's, and a connection has    *)
(* the address of its client.                                              *)
(***************************************************************************)
EXTENDS Network

CONSTANTS Ips, Threshold, Window, MaxTracked, MaxTime   \* as in Detector

ASSUME TrapAssumption ==
  /\ IsFiniteSet(Ips)
  /\ Threshold \in Nat \ {0}
  /\ Window \in Nat \ {0}
  /\ MaxTracked \in Nat \ {0}
  /\ MaxTime \in Nat

VARIABLES
  now, log, history, alarm,   \* the tracker, as in Detector
  peer                        \* [Conns -> Ips]: the address of each client

\* The bound on the calls is no bound: a connection is recorded once (HitsAreConnections).
Tracker == INSTANCE Detector WITH MaxHits <- Cardinality(Conns)

trackerVars == <<now, log, history, alarm>>
trapVars    == <<vars, trackerVars, peer>>

TrapInit == Init /\ Tracker!Init /\ peer \in [Conns -> Ips]

\* Under the lock of the tracker: record_and_check, and inc_attacks when it says so.
\* (Mutant: try_lock, which lets a connection pass while another listener has the lock.)
JudgeIfFree(c) ==
  \/ /\ Tracker!Record(peer[c])
     /\ (alarm' /\ RecordAlarm(c)) \/ (~alarm' /\ RecordQuiet(c))
     /\ UNCHANGED peer
  \/ RecordQuiet(c) /\ UNCHANGED <<trackerVars, peer>>
Judge(c) ==
  /\ Tracker!Record(peer[c])
  /\ (alarm' /\ RecordAlarm(c)) \/ (~alarm' /\ RecordQuiet(c))
  /\ UNCHANGED peer

\* Every other step of the program leaves the tracker alone, the exit included, which may
\* come before a connection is recorded.  (purge_all_old has no caller.)
Elsewhere ==
  /\ Next
  /\ \A c \in Conns : conn[c] = "record" => conn'[c] \in {"record", "killed"}
  /\ UNCHANGED <<trackerVars, peer>>

TimePasses == Tracker!Tick /\ UNCHANGED <<vars, peer>>

TrapNext == (\E c \in Conns : Judge(c)) \/ Elsewhere \/ TimePasses

TrapSpec == TrapInit /\ [][TrapNext]_trapVars

----------------------------------------------------------------------------
(* Properties. *)

\* The hits that complete a scan: threshold connections of one address in the window.
Scans == {n \in 1 .. Len(log) : Cardinality(Tracker!Recent(n)) >= Threshold}

\* While the process lives, every connection it has accepted is recorded once, or about
\* to be, whichever listener accepted it.
HitsAreConnections ==
  Alive => metrics.connections = Len(log) + Cardinality({c \in Conns : conn[c] = "record"})

\* The honeypot moves only for scans, and for each hit of a scan at most once.
MigrationsWithinScans == metrics.migrations <= Cardinality(Scans)

\* As long as the tracker has room for every address, the attacks that the dashboard
\* shows are the scans that took place, whatever listeners saw them and whatever
\* migrations came between their hits.
AttacksAreScans == Cardinality(Ips) <= MaxTracked => metrics.attacks = Cardinality(Scans)
=============================================================================
