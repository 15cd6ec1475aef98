------------------------------ MODULE Service ------------------------------
(***************************************************************************)
(* What the tasks of src/network.rs together promise to the rest of the    *)
(* program: listeners that follow one another from port to port, one       *)
(* migration at a time, each asked for by a connection that a listener has *)
(* taken, and that nobody closes before the next has been started.  Module *)
(* Network implements it, module Handoff builds on it.                     *)
(***************************************************************************)
EXTENDS Naturals

CONSTANTS
  Ports,          \* TCP ports
  InitPort,       \* cfg.port
  MaxMigrations   \* bound: migrations that find a port

ASSUME ServiceAssumption == InitPort \in Ports /\ MaxMigrations \in Nat

Gens == 0 .. MaxMigrations

VARIABLES
  listener,  \* [Gens -> ListenerState]
  portOf,    \* [Gens -> Ports]: the port each is started for
  asked,     \* a migration has been asked for since the last was completed
  last,      \* the generation started last
  done,      \* completed migrations: the generation that is current
  phase      \* "running", "closing" after Ctrl-C, or "exited"

serviceVars == <<listener, portOf, asked, last, done, phase>>

ListenerState == {"none", "starting", "open", "failed", "closed"}
Lives == phase # "exited"

ServiceInit ==
  /\ listener = [g \in Gens |-> IF g = 0 THEN "starting" ELSE "none"]
  /\ portOf = [g \in Gens |-> InitPort]
  /\ asked = FALSE
  /\ last = 0 /\ done = 0
  /\ phase = "running"

\* No listener has a socket on p.
Unused(p) == \A g \in Gens : listener[g] = "open" => portOf[g] # p

\* A connection that a listener has taken looks like an attack.
Ask ==
  /\ Lives /\ \E g \in Gens : listener[g] = "open"
  /\ asked' = TRUE
  /\ UNCHANGED <<listener, portOf, last, done, phase>>

\* A request is lost: in the cooldown, for want of a port, in the shutdown.
Forget ==
  /\ Lives /\ asked' = FALSE
  /\ UNCHANGED <<listener, portOf, last, done, phase>>

\* A migration that was asked for starts a listener on a port it found free, after the
\* one before is complete.
Start(p) ==
  /\ Lives /\ asked /\ last = done /\ last < MaxMigrations
  /\ p # portOf[done] /\ Unused(p)
  /\ last' = last + 1
  /\ listener' = [listener EXCEPT ![last + 1] = "starting"]
  /\ portOf' = [portOf EXCEPT ![last + 1] = p]
  /\ UNCHANGED <<asked, done, phase>>

Become(g, from, to) ==
  /\ Lives /\ listener[g] = from
  /\ listener' = [listener EXCEPT ![g] = to]
  /\ UNCHANGED <<portOf, asked, last, done, phase>>

Open(g) == Unused(portOf[g]) /\ Become(g, "starting", "open")
Fail(g) == Become(g, "starting", "failed")

\* Only a listener that has a successor is closed, until the shutdown closes them all.
Close(g) == (g < last \/ phase = "closing") /\ Become(g, "open", "closed")

\* What was asked for before is answered with it.
Complete ==
  /\ Lives /\ last = done + 1
  /\ done' = last /\ asked' = FALSE
  /\ UNCHANGED <<listener, portOf, last, phase>>

Proceed(from, to) ==
  /\ phase = from /\ phase' = to
  /\ UNCHANGED <<listener, portOf, asked, last, done>>
Shutdown == Proceed("running", "closing")
Exit     == Proceed("closing", "exited")

ServiceNext ==
  \/ Ask \/ Forget \/ \E p \in Ports : Start(p)
  \/ \E g \in Gens : Open(g) \/ Fail(g) \/ Close(g)
  \/ Complete \/ Shutdown \/ Exit

ServiceSpec == ServiceInit /\ [][ServiceNext]_serviceVars

\* Every variable has its type, and at most one migration is under way.
ServiceTypeOK ==
  /\ listener \in [Gens -> ListenerState]
  /\ portOf \in [Gens -> Ports] /\ asked \in BOOLEAN
  /\ last \in Gens /\ done \in Gens /\ last \in {done, done + 1}
  /\ phase \in {"running", "closing", "exited"}
=============================================================================
