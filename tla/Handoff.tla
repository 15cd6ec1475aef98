------------------------------ MODULE Handoff ------------------------------
(***************************************************************************)
(* What happens to the old port after a migration, on Linux:               *)
(* src/redirect.rs (the nftables rule) and spawn_decoy of src/migration.rs, *)
(* one task for each migration, several of them at a time, beside the      *)
(* listeners of src/network.rs as module Service promises them.            *)
(*                                                                         *)
(* Timers fire at any time after they are set.  The commands of            *)
(* add_redirect are one step: only the last of them, which adds the rule,  *)
(* changes what is modelled, and a failure of any of them ends the same    *)
(* way.                                                                    *)
(***************************************************************************)
EXTENDS Service, Integers, Sequences, FiniteSets

CONSTANT DecoyTime   \* DECOY_DURATION_SECS, in ticks of the decoy's clock

ASSUME HandoffAssumption == DecoyTime \in Nat

Tasks == 1 .. MaxMigrations

VARIABLES
  nft,     \* the nft command: works, is missing, or fails now and then
  task,    \* [Tasks -> TaskState]: the hand-off task of each migration
  left,    \* [Tasks -> 0 .. DecoyTime]: time left to the decoy
  rules    \* the rules of the nftables chain, named by the task that added them

handoffVars == <<nft, task, left, rules>>
vars        == <<serviceVars, handoffVars>>

TaskState == {"none", "add", "hold", "remove", "settle", "bind", "decoy",
              "removed", "unremoved", "refused", "ended"}
Over(k)   == task[k] \in {"removed", "unremoved", "refused", "ended"}

\* Migration k leaves OldPort(k) for NewPort(k).
OldPort(k) == portOf[k - 1]
NewPort(k) == portOf[k]

DecoyPorts == {OldPort(k) : k \in {j \in Tasks : task[j] = "decoy"}}

Init ==
  /\ ServiceInit
  /\ nft \in {"works", "missing", "flaky"}
  /\ task = [k \in Tasks |-> "none"]
  /\ left = [k \in Tasks |-> 0]
  /\ rules = <<>>

----------------------------------------------------------------------------
(* The honeypot.  A decoy holds its port like any other program. *)

\* The completed migration spawns its hand-off task.
SpawnHandoff ==
  /\ Complete
  /\ task' = [task EXCEPT ![done + 1] = "add"]
  /\ UNCHANGED <<nft, left, rules>>

ServiceStep ==
  /\ \/ Ask \/ Forget \/ \E p \in Ports \ DecoyPorts : Start(p)
     \/ \E g \in Gens : (portOf[g] \notin DecoyPorts /\ Open(g)) \/ Fail(g) \/ Close(g)
     \/ Shutdown \/ Exit
  /\ UNCHANGED handoffVars

----------------------------------------------------------------------------
(* The task spawned by spawn_redirect_then_decoy. *)

Go(k, a, b) ==
  /\ Lives /\ task[k] = a
  /\ task' = [task EXCEPT ![k] = b]
  /\ UNCHANGED <<nft, serviceVars>>

\* add_redirect adds the rule.
AddRule(k) ==
  /\ nft # "missing" /\ Go(k, "add", "hold")
  /\ rules' = Append(rules, k)
  /\ UNCHANGED left

\* add_redirect returns Ok without a rule when nft is missing or nft --version fails.
NoNft(k) == nft # "works" /\ Go(k, "add", "hold") /\ UNCHANGED <<left, rules>>

\* add_redirect fails: fall back to the decoy.
AddFails(k) == nft = "flaky" /\ Go(k, "add", "settle") /\ UNCHANGED <<left, rules>>

\* REDIRECT_DURATION_SECS pass.  (Mutant: the rule is left to expire by itself.)
HoldForgets(k) == Go(k, "hold", "removed") /\ UNCHANGED <<left, rules>>
HoldEnds(k)    == Go(k, "hold", "remove") /\ UNCHANGED <<left, rules>>

\* remove_redirect flushes the whole table.
Flush(k) ==
  /\ nft # "missing" /\ Go(k, "remove", "removed")
  /\ rules' = <<>>
  /\ UNCHANGED left

\* remove_redirect finds no nft, or fails with a warning.
NoFlush(k) == nft # "works" /\ Go(k, "remove", "unremoved") /\ UNCHANGED <<left, rules>>

\* The 200 ms settle window.
SettleEnds(k) == Go(k, "settle", "bind") /\ UNCHANGED <<left, rules>>

\* spawn_decoy: the deadline is fixed when the socket is bound.
BindDecoy(k) ==
  /\ Unused(OldPort(k)) /\ OldPort(k) \notin DecoyPorts /\ Go(k, "bind", "decoy")
  /\ left' = [left EXCEPT ![k] = DecoyTime]
  /\ UNCHANGED rules
\* The port has an owner: the honeypot, another decoy or some other program.
DecoyRefused(k) == Go(k, "bind", "refused") /\ UNCHANGED <<left, rules>>

\* A scanner connects before the deadline and is fed by a task of its own.
\* (Mutant: every connection gives the decoy its full time again.)
FeedRestarts(k) ==
  /\ left[k] > 0 /\ Go(k, "decoy", "decoy")
  /\ left' = [left EXCEPT ![k] = DecoyTime]
  /\ UNCHANGED rules
Feed(k) == left[k] > 0 /\ Go(k, "decoy", "decoy") /\ UNCHANGED <<left, rules>>

\* remaining = saturating_duration_since.
\* (Mutant: a subtraction that does not saturate: the clock runs on below zero.)
DecoyClockPast(k) ==
  /\ Go(k, "decoy", "decoy")
  /\ left' = [left EXCEPT ![k] = @ - 1]
  /\ UNCHANGED rules
DecoyClock(k) ==
  /\ left[k] > 0 /\ Go(k, "decoy", "decoy")
  /\ left' = [left EXCEPT ![k] = @ - 1]
  /\ UNCHANGED rules

\* The deadline has passed, or accept has failed.
DecoyEnds(k)  == left[k] = 0 /\ Go(k, "decoy", "ended") /\ UNCHANGED <<left, rules>>
DecoyFails(k) == left[k] > 0 /\ Go(k, "decoy", "ended") /\ UNCHANGED <<left, rules>>

----------------------------------------------------------------------------
RedirectStep(k) == AddRule(k) \/ NoNft(k) \/ AddFails(k) \/ HoldEnds(k) \/ Flush(k) \/ NoFlush(k)
DecoyStep(k)    == SettleEnds(k) \/ BindDecoy(k) \/ DecoyRefused(k) \/ DecoyClock(k) \/ DecoyEnds(k)

Next ==
  \/ ServiceStep \/ SpawnHandoff
  \/ \E k \in Tasks : RedirectStep(k) \/ DecoyStep(k) \/ Feed(k) \/ DecoyFails(k)

\* Commands return, timers fire and the clock of a decoy advances; nothing is assumed
\* of scanners, migrations or the operator.
Fairness == \A k \in Tasks : WF_vars(RedirectStep(k)) /\ WF_vars(DecoyStep(k))

Spec     == Init /\ [][Next]_vars
FairSpec == Spec /\ Fairness

----------------------------------------------------------------------------
(* Properties. *)

\* Every variable has its type.
TypeOK ==
  /\ ServiceTypeOK
  /\ nft \in {"works", "missing", "flaky"}
  /\ task \in [Tasks -> TaskState]
  /\ left \in [Tasks -> 0 .. DecoyTime]
  /\ rules \in Seq(Tasks)

\* As long as the process lives, every rule in the kernel has a task that will still
\* remove it, or the removal was tried and nft failed.
RulesHaveKeeper ==
  Lives => \A i \in 1 .. Len(rules) :
    task[rules[i]] \in {"hold", "remove"} \/ (nft # "works" /\ task[rules[i]] = "unremoved")

\* A hand-off comes to an end, with the decoy's port given back even if scanners keep
\* connecting to it.
HandoffEnds == \A k \in Tasks : (task[k] # "none") ~> (Over(k) \/ ~Lives)

\* Where the kernel sends a connection to port p: the first rule for p decides, and only
\* once.
Destination(p) ==
  LET hits == {i \in 1 .. Len(rules) : OldPort(rules[i]) = p}
  IN  IF hits = {} THEN p
      ELSE NewPort(rules[CHOOSE i \in hits : \A j \in hits : i <= j])

\* The migrations so far are over and every one of their listeners came up: the current
\* one is open, the others have been closed.
Settled ==
  last = done /\ \A g \in 0 .. last : listener[g] = (IF g = last THEN "open" ELSE "closed")

\* README.md:28: between migrations, connections to the current port, and to an old port
\* as long as its redirect lasts, reach the honeypot.
RedirectReachesHoneypot ==
  nft = "works" /\ phase = "running" /\ Settled =>
    \A p \in {portOf[last]} \cup {OldPort(k) : k \in {j \in Tasks : task[j] = "hold"}} :
      Destination(p) = portOf[last]
=============================================================================
