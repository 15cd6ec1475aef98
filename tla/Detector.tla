------------------------------ MODULE Detector ------------------------------
(***************************************************************************)
(* src/detector.rs: the AttackTracker, a bounded LRU cache of the recent   *)
(* connection times of each IP address.  Its callers hold the lock of the  *)
(* tracker for a whole call, and the clock is read under the lock, so that *)
(* a call is one step and hits are recorded in the order of their times.   *)
(*                                                                         *)
(* A hit is named by its position in log, the history of all calls, which  *)
(* the program does not keep: the properties compare the tracker with it.  *)
(***************************************************************************)
EXTENDS Integers, Sequences, FiniteSets

CONSTANTS
  Ips,         \* client addresses
  Threshold,   \* hits in the window that make an address suspicious
  Window,      \* length of the sliding window
  MaxTracked,  \* MAX_TRACKED_IPS
  MaxHits,     \* bound: calls of record_and_check
  MaxTime      \* bound: clock

ASSUME DetectorAssumption ==
  /\ IsFiniteSet(Ips)
  /\ Threshold \in Nat \ {0}
  /\ Window \in Nat \ {0}
  /\ MaxTracked \in Nat \ {0}
  /\ MaxHits \in Nat
  /\ MaxTime \in Nat

VARIABLES
  now,       \* Instant::now()
  log,       \* every hit: its address and time
  history,   \* [Ips -> set of hits]: the timestamps kept; {} is no entry
  alarm      \* what the last call returned

vars == <<now, log, history, alarm>>

Cap     == 4 * Threshold
Tracked == {ip \in Ips : history[ip] # {}}

\* The recency of an entry is its newest hit: only record_and_check touches entries.
Newest(S)   == CHOOSE h \in S : \A g \in S : g <= h
LeastRecent == CHOOSE ip \in Tracked : \A j \in Tracked : Newest(history[ip]) <= Newest(history[j])

Init ==
  /\ now = 0
  /\ log = <<>>
  /\ history = [ip \in Ips |-> {}]
  /\ alarm = FALSE

\* get_or_insert_mut: a new address takes the place of the least recently seen one
\* when the cache is full.  (Mutants: the new address inherits the times of the victim;
\* the victim is any other address.)
EvictReuse(ip) ==
  IF ip \notin Tracked /\ Cardinality(Tracked) >= MaxTracked
    THEN [history EXCEPT ![ip] = history[LeastRecent], ![LeastRecent] = {}]
    ELSE history
EvictOther(ip) ==
  [j \in Ips |-> IF ip \notin Tracked /\ Cardinality(Tracked) >= MaxTracked
                    /\ j = (CHOOSE k \in Tracked : TRUE)
                 THEN {} ELSE history[j]]
Evict(ip) ==
  [j \in Ips |-> IF ip \notin Tracked /\ Cardinality(Tracked) >= MaxTracked /\ j = LeastRecent
                 THEN {} ELSE history[j]]

\* retain: the hits no older than the window, its edge included.
\* (Mutants: nothing is pruned; the edge is not included.)
PruneNone(S, times) == S
PruneEdge(S, times) == {h \in S : times[h].at > now - Window}
Prune(S, times) == {h \in S : times[h].at >= now - Window}

\* drain: the newest Cap hits.  (Mutant: no cap.)
KeepAll(S) == S
KeepCap(S) == {h \in S : Cardinality({g \in S : g > h}) < Cap}

Record(ip) ==
  /\ Len(log) < MaxHits
  /\ log' = Append(log, [ip |-> ip, at |-> now])
  /\ LET kept == KeepCap(Prune(Evict(ip)[ip] \cup {Len(log) + 1}, log'))
     IN  /\ history' = [Evict(ip) EXCEPT ![ip] = kept]
         /\ alarm' = (Cardinality(kept) >= Threshold)
  /\ UNCHANGED now

\* purge_all_old: forget the addresses with no hit in the window.
PurgeAllOld ==
  /\ history' = [ip \in Ips |-> IF \A h \in history[ip] : log[h].at < now - Window
                                THEN {} ELSE history[ip]]
  /\ UNCHANGED <<now, log, alarm>>

Tick ==
  /\ now < MaxTime
  /\ now' = now + 1
  /\ UNCHANGED <<log, history, alarm>>

Next == (\E ip \in Ips : Record(ip)) \/ PurgeAllOld \/ Tick

Spec == Init /\ [][Next]_vars

----------------------------------------------------------------------------
(* Properties. *)

\* Every variable has its type, and an entry holds hits of its own address only.
TypeOK ==
  /\ now \in Nat
  /\ log \in Seq([ip : Ips, at : Nat])
  /\ history \in [Ips -> SUBSET Nat]
  /\ \A ip \in Ips : \A h \in history[ip] : h \in 1 .. Len(log) /\ log[h].ip = ip
  /\ alarm \in BOOLEAN

\* The hits of the address of hit n inside the window that ends with hit n.
Recent(n) == {h \in 1 .. n : log[h].ip = log[n].ip /\ log[h].at >= log[n].at - Window}

\* The other addresses seen between hit h and the next hit of the same address.
SeenAfter(h) ==
  {log[g].ip : g \in {g \in h + 1 .. Len(log) : \A k \in h + 1 .. g : log[k].ip # log[h].ip}}

\* An address is reported only if it made threshold connections within the window.
NoFalseAlarm == alarm => log # <<>> /\ Cardinality(Recent(Len(log))) >= Threshold

\* An address that made threshold connections within the window goes unreported only
\* if, between two of them, MAX_TRACKED_IPS other addresses connected and pushed it out.
NoMissedScan ==
  log # <<>> /\ ~alarm /\ Cardinality(Recent(Len(log))) >= Threshold
    => \E h \in Recent(Len(log)) : Cardinality(SeenAfter(h)) >= MaxTracked

\* The memory of the tracker is bounded whatever the clients do.
MemoryBound ==
  /\ Cardinality(Tracked) <= MaxTracked
  /\ \A ip \in Ips : Cardinality(history[ip]) <= Cap
=============================================================================
