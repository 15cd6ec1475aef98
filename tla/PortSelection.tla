--------------------------- MODULE PortSelection ---------------------------
(***************************************************************************)
(* Port selection of src/migration.rs, against the port rule of Config:    *)
(* the arithmetic with the constants and widths of the code, and the loop  *)
(* of find_free_port while other programs bind and leave ports.  Module    *)
(* Sockets runs it with the listener made for the port it returns.         *)
(***************************************************************************)
EXTENDS Config

CONSTANTS
  Draws,        \* values rand::random::<u32>() returns
  MaxAttempts   \* MAX_PORT_ATTEMPTS

ASSUME PortAssumption ==
  /\ Draws \subseteq Nat
  /\ MaxAttempts \in Nat \ {0}

U16(x) == x % 65536

EphemeralStart == 32768
EphemeralEnd   == 60999
ReservedBelow  == 1024
BandA == EphemeralStart - ReservedBelow
BandB == 65535 - EphemeralEnd

\* candidate_port for a random number.  (Mutant: band B starts one port early.)
CandidateEarly(rnd) ==
  LET idx == rnd % (BandA + BandB)
  IN  IF idx < BandA THEN U16(ReservedBelow + U16(idx))
                     ELSE U16(EphemeralEnd + U16(idx - BandA))
CandidatePort(rnd) ==
  LET idx == rnd % (BandA + BandB)
  IN  IF idx < BandA THEN U16(ReservedBelow + U16(idx))
                     ELSE U16(EphemeralEnd + 1 + U16(idx - BandA))

Candidates == {CandidatePort(rnd) : rnd \in Draws}

VARIABLES
  taken,      \* ports other programs listen on
  exclude,    \* the port to move away from
  attempt,    \* attempts made
  candidate,  \* the port of the attempt under way, or None
  result      \* None while searching; a port, or NoFreePort

vars == <<taken, exclude, attempt, candidate, result>>

None       == 0
NoFreePort == 65536

Init ==
  /\ taken \in SUBSET Candidates
  /\ exclude \in Candidates
  /\ attempt = 0
  /\ candidate = None /\ result = None

\* The environment.
TakeOrLeave(p) ==
  /\ taken' = IF p \in taken THEN taken \ {p} ELSE taken \cup {p}
  /\ UNCHANGED <<exclude, attempt, candidate, result>>

\* An attempt begins with a candidate.
Draw(rnd) ==
  /\ result = None /\ candidate = None /\ attempt < MaxAttempts
  /\ candidate' = CandidatePort(rnd)
  /\ UNCHANGED <<taken, exclude, attempt, result>>

\* The attempt is spent.
Spend ==
  /\ attempt' = attempt + 1 /\ candidate' = None
  /\ UNCHANGED <<taken, exclude>>

\* The candidate is the excluded port: the attempt is spent all the same.
\* (Mutant: it is not.)
SkipForFree ==
  /\ candidate # None /\ candidate = exclude
  /\ candidate' = None
  /\ UNCHANGED <<taken, exclude, attempt, result>>
Skip == candidate # None /\ candidate = exclude /\ Spend /\ UNCHANGED result

\* The bind fails: try another candidate.
Refused ==
  /\ candidate \notin {None, exclude} /\ candidate \in taken
  /\ Spend /\ UNCHANGED result

\* The bind succeeds; the probing socket is closed and the port returned.
Found ==
  /\ candidate \notin {None, exclude} /\ candidate \notin taken
  /\ Spend /\ result' = candidate

GiveUp ==
  /\ result = None /\ attempt = MaxAttempts
  /\ result' = NoFreePort
  /\ UNCHANGED <<taken, exclude, attempt, candidate>>

Attempt == (\E rnd \in Draws : Draw(rnd)) \/ Skip \/ Refused \/ Found \/ GiveUp

----------------------------------------------------------------------------
(* Properties. *)

\* A migration never moves to a port the configuration would refuse to start on, nor
\* stays where it is.
ResultUsable == result \notin {None, NoFreePort} => ValidPort(result) /\ result # exclude

\* The executor is never kept in the search, however unlucky the draws and whatever the
\* other programs do.
SearchEnds == result = None ~> result # None
=============================================================================
