------------------------- MODULE PortSelectionProofs -------------------------
(* Proofs about PortSelection and Sockets for every random number a u32 can hold. *)
EXTENDS Sockets, TLAPS

\* The sizes of the bands, and the sums candidate_port makes, as numbers.
LEMMA Bands == BandA = 31744 /\ BandB = 4536 /\ BandA + BandB = 36280
BY DEF BandA, BandB, EphemeralStart, EphemeralEnd, ReservedBelow

\* A remainder is below its modulus.
LEMMA ModBound ==
  ASSUME NEW x \in Nat, NEW m \in Nat \ {0}
  PROVE  x % m \in Nat /\ x % m < m
OBVIOUS

\* A number below the modulus is its own remainder.
LEMMA ModSmall ==
  ASSUME NEW x \in Nat, NEW m \in Nat, x < m
  PROVE  x % m = x
OBVIOUS

\* The casts to u16 lose nothing of a number that fits.
LEMMA CastKeeps ==
  ASSUME NEW x \in Nat, x < 65536
  PROVE  U16(x) = x
<1>1. 65536 \in Nat OBVIOUS
<1> QED BY <1>1, ModSmall DEF U16

\* candidate_port as a function of the index alone, the casts removed.
LEMMA CandidateByIndex ==
  ASSUME NEW rnd \in Nat, NEW idx \in Nat, idx < 36280, rnd % (BandA + BandB) = idx
  PROVE  /\ idx < 31744 => CandidatePort(rnd) = 1024 + idx
         /\ ~(idx < 31744) => CandidatePort(rnd) = 61000 + (idx - 31744)
<1>1. CASE idx < 31744
  <2>1. U16(idx) = idx BY <1>1, CastKeeps
  <2>2. U16(1024 + idx) = 1024 + idx BY <1>1, CastKeeps
  <2>3. CandidatePort(rnd) = U16(1024 + U16(idx))
    BY <1>1, Bands DEF CandidatePort, ReservedBelow
  <2> QED BY <1>1, <2>1, <2>2, <2>3
<1>2. CASE ~(idx < 31744)
  <2>1. idx - 31744 \in Nat /\ idx - 31744 < 4536 BY <1>2
  <2>2. U16(idx - 31744) = idx - 31744 BY <2>1, CastKeeps
  <2>3. U16(61000 + (idx - 31744)) = 61000 + (idx - 31744) BY <2>1, CastKeeps
  <2>4. 60999 + 1 = 61000 OBVIOUS
  <2>5. CandidatePort(rnd) = U16(61000 + U16(idx - 31744))
    BY <1>2, <2>4, Bands DEF CandidatePort, EphemeralEnd
  <2> QED BY <1>2, <2>2, <2>3, <2>5
<1> QED BY <1>1, <1>2

\* candidate_port returns, for every random number, a port the configuration accepts:
\* no sum wraps around, and neither band reaches into the other ranges.
THEOREM CandidateIsValid ==
  ASSUME NEW rnd \in Nat
  PROVE  ValidPort(CandidatePort(rnd)) /\ CandidatePort(rnd) # 0
<1> DEFINE idx == rnd % 36280
<1>1. idx \in Nat /\ idx < 36280
  <2>1. 36280 \in Nat \ {0} OBVIOUS
  <2> QED BY <2>1, ModBound
<1>2. rnd % (BandA + BandB) = idx BY Bands
<1> HIDE DEF idx
<1>3. /\ idx < 31744 => CandidatePort(rnd) = 1024 + idx
      /\ ~(idx < 31744) => CandidatePort(rnd) = 61000 + (idx - 31744)
  BY <1>1, <1>2, CandidateByIndex
<1>4. CASE idx < 31744
  <2>1. CandidatePort(rnd) = 1024 + idx BY <1>3, <1>4
  <2> QED BY <1>1, <1>4, <2>1 DEF ValidPort
<1>5. CASE ~(idx < 31744)
  <2>1. CandidatePort(rnd) = 61000 + (idx - 31744) BY <1>3, <1>5
  <2> QED BY <1>1, <1>5, <2>1 DEF ValidPort
<1> QED BY <1>4, <1>5

\* Every port the configuration accepts can be drawn: the two bands leave none out.
THEOREM EveryValidPortIsCandidate ==
  ASSUME NEW p, ValidPort(p)
  PROVE  \E rnd \in Nat : CandidatePort(rnd) = p
<1>1. p \in Nat /\ p < 65536 /\ 1024 <= p /\ (p < 32768 \/ 60999 < p) BY DEF ValidPort
<1>2. \A idx \in Nat : idx < 36280 => idx % (BandA + BandB) = idx
  <2> SUFFICES ASSUME NEW idx \in Nat, idx < 36280 PROVE idx % 36280 = idx BY Bands
  <2> QED BY ModSmall
<1>3. CASE p < 32768
  <2> DEFINE idx == p - 1024
  <2>1. idx \in Nat /\ idx < 31744 /\ idx < 36280 /\ 1024 + idx = p BY <1>1, <1>3
  <2> HIDE DEF idx
  <2>2. idx % (BandA + BandB) = idx BY <1>2, <2>1
  <2>3. CandidatePort(idx) = p BY <2>1, <2>2, CandidateByIndex
  <2> QED BY <2>1, <2>3
<1>4. CASE 60999 < p
  <2> DEFINE idx == (p - 61000) + 31744
  <2>1. idx \in Nat /\ idx < 36280 /\ ~(idx < 31744) /\ 61000 + (idx - 31744) = p
    BY <1>1, <1>4
  <2> HIDE DEF idx
  <2>2. idx % (BandA + BandB) = idx BY <1>2, <2>1
  <2>3. CandidatePort(idx) = p BY <2>1, <2>2, CandidateByIndex
  <2> QED BY <2>1, <2>3
<1> QED BY <1>1, <1>3, <1>4

----------------------------------------------------------------------------
\* The candidate under way is a valid port, and there is none once a port is chosen.
CandidateUsable ==
  /\ candidate # None => ValidPort(candidate)
  /\ Chosen => candidate = None

SearchInv == CandidateUsable /\ ResultUsable

LEMMA SearchStarts == Init => SearchInv
BY DEF Init, SearchInv, CandidateUsable, ResultUsable

\* One step of the search or of another program keeps the search's invariant and the
\* port chosen.
LEMMA SearchSteps ==
  ASSUME SearchInv, (\E p \in Candidates : TakeOrLeave(p)) \/ Attempt
  PROVE  SearchInv' /\ (Chosen => result' = result)
<1> USE DEF SearchInv
<1>1. ASSUME NEW rnd \in Draws, Draw(rnd) PROVE SearchInv' /\ result' = result
  <2>1. ValidPort(CandidatePort(rnd)) BY PortAssumption, CandidateIsValid
  <2>2. CandidateUsable' BY <1>1, <2>1, Zenon DEF Draw, CandidateUsable, Chosen
  <2>3. ResultUsable' BY <1>1, Zenon DEF Draw, ResultUsable
  <2> QED BY <1>1, <2>2, <2>3 DEF Draw
<1>2. CASE Skip \/ Refused
  BY <1>2, Zenon DEF Skip, Refused, Spend, CandidateUsable, ResultUsable, Chosen
<1>3. CASE Found
  BY <1>3, Zenon DEF Found, Spend, CandidateUsable, ResultUsable, Chosen
<1>4. CASE GiveUp
  BY <1>4, Zenon DEF GiveUp, CandidateUsable, ResultUsable, Chosen
<1>5. CASE \E p \in Candidates : TakeOrLeave(p)
  BY <1>5, Zenon DEF TakeOrLeave, CandidateUsable, ResultUsable, Chosen
<1> QED BY <1>1, <1>2, <1>3, <1>4, <1>5, Zenon DEF Attempt

\* The listener listens once the fourth call is done, now and in the next state.
LEMMA ListeningFrom ==
  /\ step \in 0 .. 6 => (Listening <=> step > 4)
  /\ step' \in 0 .. 6 => (Listening' <=> step' > 4)
<1>1. Calls[1] = "create" /\ Calls[2] = "options" /\ Calls[3] = "bind" /\ Calls[4] = "listen"
  BY DEF Calls
<1>2. ASSUME NEW s \in 0 .. 6
      PROVE  (s > 1 /\ "listen" \in {Calls[i] : i \in 1 .. s - 1}) <=> s > 4
  <2>1. s > 4 => 4 \in 1 .. s - 1 OBVIOUS
  <2>2. \A i \in 1 .. s - 1 : s <= 4 => i = 1 \/ i = 2 \/ i = 3 OBVIOUS
  <2> QED BY <1>1, <2>1, <2>2
<1> QED BY <1>2 DEF Listening

\* The call made at each step.
LEMMA CallOrder ==
  ASSUME NEW c, Makes(c)
  PROVE  /\ Chosen /\ step \in 1 .. 5
         /\ c = "options" => step = 2
         /\ c = "listen" <=> step = 4
         /\ c = "convert" => step = 5
         /\ c \in {"create", "bind"} => step < 4
BY DEF Makes, Calls

\* No connection before the listener listens, and the options are set before that.
SocketInv ==
  /\ SearchInv
  /\ step \in 0 .. 6
  /\ step > 1 => Chosen
  /\ step \in 1 .. 4 => profiles = {}
  /\ OneFingerprint

\* The search and the other programs leave the socket as it is.
LEMMA SearchKeepsSocket ==
  ASSUME SocketInv, UNCHANGED socketVars,
         (\E p \in Candidates : ~(Listening /\ p = result) /\ TakeOrLeave(p)) \/ Attempt
  PROVE  SocketInv'
<1>1. SearchInv' /\ (Chosen => result' = result) BY SearchSteps, Zenon DEF SocketInv
<1>2. step' = step /\ profiles' = profiles /\ options' = options BY DEF socketVars
<1>3. Chosen => Chosen' BY <1>1, Zenon DEF Chosen
<1>4. OneFingerprint' BY <1>2, Zenon DEF SocketInv, OneFingerprint
<1> QED BY <1>1, <1>2, <1>3, <1>4 DEF SocketInv

\* Each call keeps the invariant.
LEMMA CallsKeepSocket ==
  ASSUME SocketInv, BindWithOptions
  PROVE  SocketInv'
<1> USE DEF SocketInv
<1>1. UNCHANGED vars
  BY Zenon DEF BindWithOptions, Make, ApplyPersonaOptions, Claim, Keeps
<1>2. SearchInv' /\ (Chosen <=> Chosen')
  BY <1>1 DEF vars, SearchInv, CandidateUsable, ResultUsable, Chosen
<1> DEFINE Kept == /\ step' \in 0 .. 6 /\ (step' > 1 => Chosen)
                   /\ (step' \in 1 .. 4 => profiles' = {})
                   /\ OneFingerprint'
<1>3. SUFFICES Kept
  BY <1>2
<1>5. ASSUME NEW c \in {"create", "convert"}, Make(c) PROVE Kept
  <2>1. Chosen /\ step \in 1 .. 5 /\ step # 4 BY <1>5, CallOrder DEF Make
  <2>2. step' = step + 1 \/ step' = 0 BY <1>5 DEF Make, Succeeds, Fails, Failed
  <2>3. UNCHANGED <<options, profiles>> BY <1>5 DEF Make
  <2> QED BY <2>1, <2>2, <2>3 DEF OneFingerprint
<1>6. CASE ApplyPersonaOptions
  <2>1. Chosen /\ step = 2 BY <1>6, CallOrder DEF ApplyPersonaOptions
  <2>2. step' = 3 /\ profiles' = profiles BY <1>6, <2>1 DEF ApplyPersonaOptions, Succeeds
  <2>3. profiles = {} BY <2>1
  <2> QED BY <2>1, <2>2, <2>3 DEF OneFingerprint
<1>7. ASSUME NEW c \in {"bind", "listen"}, Claim(c) PROVE Kept
  <2>1. Chosen /\ step \in 1 .. 4 BY <1>7, CallOrder DEF Claim
  <2>2. step' = step + 1 \/ step' = 0
    BY <1>7 DEF Claim, Succeeds, Fails, Failed
  <2>3. UNCHANGED <<options, profiles>> BY <1>7 DEF Claim
  <2> QED BY <2>1, <2>2, <2>3 DEF OneFingerprint
<1> QED BY <1>5, <1>6, <1>7 DEF BindWithOptions

\* A connection meets the options the listener has.
LEMMA ConnectKeepsSocket ==
  ASSUME SocketInv, Connect
  PROVE  SocketInv'
<1> USE DEF SocketInv
<1>1. UNCHANGED <<vars, step, options>> /\ profiles' = profiles \cup {options}
  BY DEF Connect, Keeps
<1>2. step > 4 BY ListeningFrom DEF Connect
<1>3. OneFingerprint' BY <1>1 DEF OneFingerprint
<1>4. SearchInv' /\ (Chosen <=> Chosen')
  BY <1>1 DEF vars, SearchInv, CandidateUsable, ResultUsable, Chosen
<1> QED BY <1>1, <1>2, <1>3, <1>4

\* The inductive invariant holds throughout.
LEMMA SocketInvariant == SocketSpec => []SocketInv
<1>1. SocketInit => SocketInv
  <2> SUFFICES ASSUME SocketInit PROVE SocketInv OBVIOUS
  <2>1. SearchInv /\ step = 1 /\ profiles = {} BY SearchStarts DEF SocketInit
  <2> QED BY <2>1 DEF SocketInv, OneFingerprint
<1>2. SocketInv /\ [SocketNext]_<<vars, socketVars>> => SocketInv'
  <2> SUFFICES ASSUME SocketInv, [SocketNext]_<<vars, socketVars>> PROVE SocketInv' OBVIOUS
  <2>1. CASE (\E p \in Candidates : ~(Listening /\ p = result) /\ TakeOrLeave(p)
                                    /\ UNCHANGED socketVars)
             \/ (Attempt /\ UNCHANGED socketVars)
    BY <2>1, SearchKeepsSocket, Zenon
  <2>2. CASE BindWithOptions BY <2>2, CallsKeepSocket
  <2>3. CASE Connect BY <2>3, ConnectKeepsSocket
  <2>4. CASE UNCHANGED <<vars, socketVars>>
    BY <2>4 DEF SocketInv, SearchInv, CandidateUsable, ResultUsable, Chosen, vars, socketVars,
                OneFingerprint
  <2> QED BY <2>1, <2>2, <2>3, <2>4, Zenon DEF SocketNext
<1> QED BY <1>1, <1>2, PTL DEF SocketSpec

\* A migration never moves to a port the configuration would refuse to start on, nor
\* stays where it is: ResultUsable holds whatever the draws.
THEOREM ResultIsUsable == SocketSpec => []ResultUsable
<1>1. SocketInv => ResultUsable BY DEF SocketInv, SearchInv
<1> QED BY <1>1, SocketInvariant, PTL

\* Every connection to a listener meets the same options, however early it comes.
THEOREM FingerprintIsOne == SocketSpec => []OneFingerprint
<1>1. SocketInv => OneFingerprint BY DEF SocketInv
<1> QED BY <1>1, SocketInvariant, PTL
=============================================================================
