------------------------------ MODULE Sockets ------------------------------
(***************************************************************************)
(* src/sockopt.rs: the socket of a new listener, made for the port that    *)
(* PortSelection found, while other programs bind and leave ports and      *)
(* clients connect.                                                        *)
(*                                                                         *)
(* Kept of the kernel: with SO_REUSEADDR a port can be bound as long as no *)
(* socket listens on it; one socket listens on a port at a time; from      *)
(* listen on it takes connections, accepted or not, and each has the       *)
(* options the listening socket has when it is established.                *)
(***************************************************************************)
EXTENDS PortSelection, Sequences

VARIABLES
  persona,
  step,      \* the call bind_with_options makes next, or Failed
  options,   \* the options set on the socket
  profiles   \* history: the options of every connection established

socketVars == <<persona, step, options, profiles>>

\* The calls in their order.  (Mutant: the persona's options are applied to a listener.)
LateCalls == <<"create", "bind", "listen", "options", "convert">>
Calls     == <<"create", "options", "bind", "listen", "convert">>
Failed    == 0

\* What apply_persona_options asks for.
Wanted(p) ==
  CASE p = "ssh"   -> {"rcvbuf 128K", "keepalive", "keepalive times", "delay"}
    [] p = "http"  -> {"rcvbuf 64K", "nodelay", "no keepalive"}
    [] p = "redis" -> {"rcvbuf 64K", "nodelay", "keepalive"}
    [] p = "raw"   -> {"nodelay"}

SocketInit ==
  /\ Init
  /\ persona \in {"ssh", "http", "redis", "raw"}
  /\ step = 1 /\ options = {} /\ profiles = {}

----------------------------------------------------------------------------
Chosen    == result \notin {None, NoFreePort}
Makes(c)  == Chosen /\ step \in 1 .. Len(Calls) /\ Calls[step] = c
Succeeds  == step' = step + 1
Fails     == step' = Failed   \* the socket is dropped
Listening == step > 1 /\ "listen" \in {Calls[i] : i \in 1 .. step - 1}

Keeps == UNCHANGED <<vars, persona>>

\* Socket::new and set_reuse_address, set_nonblocking and from_std.
Make(c) ==
  /\ c \in {"create", "convert"} /\ Makes(c)
  /\ Succeeds \/ Fails
  /\ Keeps /\ UNCHANGED <<options, profiles>>

\* An option that cannot be set is warned of and passed over.
ApplyPersonaOptions ==
  /\ Makes("options") /\ Succeeds
  /\ options' \in SUBSET Wanted(persona)
  /\ Keeps /\ UNCHANGED profiles

\* bind and listen fail when another program listens on the port by now.
Claim(c) ==
  /\ c \in {"bind", "listen"} /\ Makes(c)
  /\ IF result \in taken THEN Fails ELSE Succeeds
  /\ Keeps /\ UNCHANGED <<options, profiles>>

BindWithOptions ==
  \/ \E c \in {"create", "convert"} : Make(c)
  \/ ApplyPersonaOptions
  \/ \E c \in {"bind", "listen"} : Claim(c)

\* A client connects.
Connect ==
  /\ Listening
  /\ profiles' = profiles \cup {options}
  /\ Keeps /\ UNCHANGED <<step, options>>

SocketNext ==
  \/ \E p \in Candidates : ~(Listening /\ p = result) /\ TakeOrLeave(p) /\ UNCHANGED socketVars
  \/ Attempt /\ UNCHANGED socketVars
  \/ BindWithOptions
  \/ Connect

SocketSpec ==
  SocketInit /\ [][SocketNext]_<<vars, socketVars>> /\ WF_vars(Attempt /\ UNCHANGED socketVars)

----------------------------------------------------------------------------
(* Properties. *)

\* sockopt.rs:23: whenever a client connects, to a listener that the accept loop has not
\* even seen, it meets the options of every other connection to it: one fingerprint.
OneFingerprint == \A o \in profiles : o = options
=============================================================================
