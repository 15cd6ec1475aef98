---------------------------- MODULE HandoffProofs ----------------------------
(* Proofs about Handoff: for every set of ports, any number of migrations  *)
(* and any life time of a decoy.                                           *)
EXTENDS Handoff, TLAPS

\* The constants of the listeners and of the decoys.
Assumptions == InitPort \in Ports /\ MaxMigrations \in Nat /\ DecoyTime \in Nat

\* The assumptions of the two modules hold.
LEMMA Assumed == Assumptions
BY ServiceAssumption, HandoffAssumption DEF Assumptions

\* A task that no completed migration has spawned does nothing.
Unspawned == \A k \in Tasks : k > done => task[k] = "none"

\* The migration that completes has a number of its own, and its task is not spawned yet.
LEMMA NextIsUnspawned ==
  ASSUME TypeOK, Unspawned, Complete
  PROVE  done + 1 = last /\ done + 1 \in Tasks /\ task[done + 1] = "none"
BY Assumed DEF Assumptions, TypeOK, ServiceTypeOK, Unspawned, Complete, Tasks, Gens

\* What the task of migration k may do.
TaskStep(k) == RedirectStep(k) \/ DecoyStep(k) \/ Feed(k) \/ DecoyFails(k)

\* A step of a hand-off task moves that task's program counter, and no other.
LEMMA StepIsGo ==
  ASSUME NEW k \in Tasks, TaskStep(k)
  PROVE  \E a \in TaskState \ {"none"}, b \in TaskState : Go(k, a, b)
<1> DEFINE Goal == \E a \in TaskState \ {"none"}, b \in TaskState : Go(k, a, b)
<1>1. ASSUME NEW a \in TaskState \ {"none"}, NEW b \in TaskState, Go(k, a, b) PROVE Goal
  BY <1>1
<1> HIDE DEF Goal
<1>2. \A a \in TaskState \ {"none"}, b \in TaskState : Go(k, a, b) => Goal BY <1>1
<1>3. /\ "add" \in TaskState \ {"none"} /\ "hold" \in TaskState \ {"none"}
      /\ "remove" \in TaskState \ {"none"} /\ "settle" \in TaskState \ {"none"}
      /\ "bind" \in TaskState \ {"none"} /\ "decoy" \in TaskState \ {"none"}
      /\ "removed" \in TaskState /\ "unremoved" \in TaskState /\ "ended" \in TaskState /\ "refused" \in TaskState
  BY DEF TaskState
<1>4. CASE RedirectStep(k)
  BY <1>2, <1>3, <1>4, Zenon DEF RedirectStep, AddRule, NoNft, AddFails, HoldEnds, Flush, NoFlush
<1>5. CASE DecoyStep(k)
  BY <1>2, <1>3, <1>5, Zenon DEF DecoyStep, SettleEnds, BindDecoy, DecoyRefused, DecoyClock, DecoyEnds
<1>6. CASE Feed(k) \/ DecoyFails(k) BY <1>2, <1>3, <1>6, Zenon DEF Feed, DecoyFails
<1> QED BY <1>4, <1>5, <1>6 DEF TaskStep, Goal

----------------------------------------------------------------------------
(* Types and the tasks not yet spawned. *)

\* The time left and the rules keep their types whatever the task does.
LEMMA StepTypes ==
  ASSUME TypeOK, NEW k \in Tasks, TaskStep(k)
  PROVE  left' \in [Tasks -> 0 .. DecoyTime] /\ rules' \in Seq(Tasks)
<1> USE Assumed DEF Assumptions
<1>1. left \in [Tasks -> 0 .. DecoyTime] /\ rules \in Seq(Tasks) BY DEF TypeOK
<1>2. CASE UNCHANGED <<left, rules>> BY <1>1, <1>2
<1>3. CASE AddRule(k) BY <1>1, <1>3 DEF AddRule
<1>4. CASE Flush(k) BY <1>1, <1>4 DEF Flush
<1>5. CASE BindDecoy(k)
  <2>1. DecoyTime \in 0 .. DecoyTime OBVIOUS
  <2>2. left' = [left EXCEPT ![k] = DecoyTime] /\ rules' = rules BY <1>5 DEF BindDecoy
  <2> QED BY <1>1, <2>1, <2>2
<1>6. CASE DecoyClock(k)
  <2>1. left[k] > 0 /\ left' = [left EXCEPT ![k] = left[k] - 1] /\ rules' = rules
    BY <1>6 DEF DecoyClock
  <2>2. left[k] - 1 \in 0 .. DecoyTime BY <1>1, <2>1
  <2> QED BY <1>1, <2>1, <2>2
<1> QED BY <1>2, <1>3, <1>4, <1>5, <1>6, Zenon DEF TaskStep, RedirectStep, DecoyStep, NoNft,
        AddFails, HoldEnds, NoFlush, SettleEnds, DecoyRefused, Feed, DecoyEnds, DecoyFails

\* The listeners keep their types, whatever the hand-off tasks do meanwhile.
LEMMA ServiceTypes ==
  ASSUME ServiceTypeOK, ServiceNext
  PROVE  ServiceTypeOK' /\ done' \in {done, done + 1}
<1> USE Assumed DEF Assumptions, ServiceTypeOK, ListenerState, Gens
<1>1. CASE \E p \in Ports : Start(p) BY <1>1 DEF Start
<1>2. CASE \E g \in Gens : Open(g) \/ Fail(g) \/ Close(g)
  BY <1>2 DEF Open, Fail, Close, Become
<1>3. CASE Complete BY <1>3 DEF Complete
<1>4. CASE Shutdown \/ Exit BY <1>4 DEF Shutdown, Exit, Proceed
<1>5. CASE Ask \/ Forget BY <1>5 DEF Ask, Forget
<1> QED BY <1>1, <1>2, <1>3, <1>4, <1>5 DEF ServiceNext

\* The listeners move without completing a migration, or the task of one is spawned.
LEMMA HoneypotSteps ==
  ASSUME TypeOK, ServiceStep
  PROVE  ServiceNext /\ done' = done /\ UNCHANGED handoffVars
<1>1. ServiceNext /\ UNCHANGED handoffVars BY DEF ServiceStep, ServiceNext
<1>2. done' = done
  BY DEF ServiceStep, Ask, Forget, Start, Open, Fail, Close, Become, Shutdown, Exit, Proceed
<1> QED BY <1>1, <1>2

\* TypeOK and Unspawned are inductive together.
LEMMA TypesAreInductive ==
  ASSUME TypeOK, Unspawned, [Next]_vars
  PROVE  TypeOK' /\ Unspawned'
<1>1. CASE ServiceStep
  <2>1. ServiceNext /\ done' = done /\ UNCHANGED handoffVars BY <1>1, HoneypotSteps
  <2>2. ServiceTypeOK' BY <2>1, ServiceTypes DEF TypeOK
  <2> QED BY <2>1, <2>2 DEF handoffVars, TypeOK, Unspawned
<1>2. CASE SpawnHandoff
  <2>1. Complete /\ task' = [task EXCEPT ![done + 1] = "add"] /\ UNCHANGED <<nft, left, rules>>
    BY <1>2 DEF SpawnHandoff
  <2>2. ServiceTypeOK' BY <2>1, ServiceTypes DEF TypeOK, ServiceNext
  <2>3. task' \in [Tasks -> TaskState] BY <2>1 DEF TypeOK, TaskState
  <2>4. TypeOK' BY <2>1, <2>2, <2>3 DEF TypeOK
  <2>5. Unspawned'
    <3>1. done' = done + 1 /\ done \in Nat
      BY <2>1, NextIsUnspawned DEF Complete, TypeOK, ServiceTypeOK, Gens
    <3> SUFFICES ASSUME NEW k \in Tasks, k > done' PROVE task'[k] = "none" BY DEF Unspawned
    <3>2. k > done /\ k # done + 1 BY <3>1 DEF Tasks
    <3> QED BY <2>1, <3>2 DEF Unspawned, TypeOK
  <2> QED BY <2>4, <2>5
<1>3. ASSUME NEW k \in Tasks, TaskStep(k) PROVE TypeOK' /\ Unspawned'
  <2>1. PICK a \in TaskState \ {"none"}, b \in TaskState : Go(k, a, b) BY <1>3, StepIsGo
  <2>2. task[k] = a /\ task' = [task EXCEPT ![k] = b] /\ UNCHANGED <<nft, serviceVars>>
    BY <2>1 DEF Go
  <2>3. TypeOK'
    <3>1. task' \in [Tasks -> TaskState] BY <2>2 DEF TypeOK
    <3>2. left' \in [Tasks -> 0 .. DecoyTime] /\ rules' \in Seq(Tasks) BY <1>3, StepTypes
    <3> QED BY <2>2, <3>1, <3>2 DEF TypeOK, ServiceTypeOK, serviceVars
  <2>4. Unspawned' BY <2>2 DEF Unspawned, TypeOK, serviceVars
  <2> QED BY <2>3, <2>4
<1>4. CASE UNCHANGED vars
  BY <1>4 DEF vars, serviceVars, handoffVars, TypeOK, ServiceTypeOK, Unspawned
<1> QED BY <1>1, <1>2, <1>3, <1>4 DEF Next, TaskStep

\* TypeOK holds in every state.
THEOREM HandoffTypes == Spec => [](TypeOK /\ Unspawned)
<1>1. Init => TypeOK /\ Unspawned
  BY Assumed DEF Assumptions, Init, ServiceInit, TypeOK, ServiceTypeOK, Unspawned, TaskState,
     ListenerState, Tasks, Gens
<1>2. TypeOK /\ Unspawned /\ [Next]_vars => (TypeOK /\ Unspawned)' BY TypesAreInductive
<1> QED BY <1>1, <1>2, PTL DEF Spec

----------------------------------------------------------------------------
(* The rules in the kernel. *)

\* RulesHaveKeeper is preserved: the only task steps out of "hold" and "remove" are to
\* "remove", past the flush, which leaves no rule of anybody, and to a failed removal.
LEMMA KeepersStep ==
  ASSUME TypeOK, Unspawned, RulesHaveKeeper, [Next]_vars
  PROVE  RulesHaveKeeper'
<1> DEFINE Keeping == IF nft = "works" THEN {"hold", "remove"} ELSE {"hold", "remove", "unremoved"}
           Kept == \A i \in 1 .. Len(rules) : task[rules[i]] \in Keeping
<1>0. (RulesHaveKeeper <=> (Lives => Kept)) /\ (RulesHaveKeeper <=> (Lives => Kept))'
  BY DEF RulesHaveKeeper
<1>1. rules \in Seq(Tasks) /\ task \in [Tasks -> TaskState] BY DEF TypeOK
<1>2. CASE nft' = nft /\ rules' = rules /\ task' = task /\ (Lives' => Lives)
  BY <1>0, <1>2
<1>3. CASE ServiceStep
  <2>1. UNCHANGED handoffVars /\ (Lives' => Lives)
    BY <1>3 DEF ServiceStep, Ask, Forget, Start, Open, Fail, Close, Become, Shutdown, Exit, Proceed, Lives
  <2> QED BY <1>2, <2>1 DEF handoffVars
<1>4. CASE SpawnHandoff
  <2>1. done + 1 \in Tasks /\ task[done + 1] = "none" /\ Lives
    BY <1>4, NextIsUnspawned DEF SpawnHandoff, Complete
  <2>2. rules' = rules /\ nft' = nft /\ task' = [task EXCEPT ![done + 1] = "add"]
    BY <1>4 DEF SpawnHandoff
  <2>3. Kept BY <1>0, <2>1
  <2>4. Kept' BY <1>1, <2>1, <2>2, <2>3
  <2> QED BY <1>0, <2>4
<1>5. ASSUME NEW k \in Tasks, NEW a, NEW b, Go(k, a, b), a \in Keeping => b \in Keeping,
             rules' = rules \/ (rules' = Append(rules, k) /\ b \in Keeping)
      PROVE  RulesHaveKeeper'
  <2>1. Lives /\ task[k] = a /\ task' = [task EXCEPT ![k] = b] /\ nft' = nft BY <1>5 DEF Go
  <2>2. Kept BY <1>0, <2>1
  <2>3. Keeping' = Keeping BY <2>1
  <2> HIDE DEF Keeping
  <2>4. \A j \in Tasks : task[j] \in Keeping => task'[j] \in Keeping BY <1>1, <1>5, <2>1
  <2>5. CASE rules' = rules
    <3>1. \A i \in 1 .. Len(rules) : task'[rules[i]] \in Keeping BY <1>1, <2>2, <2>4
    <3> QED BY <1>0, <2>3, <2>5, <3>1
  <2>6. CASE rules' = Append(rules, k) /\ b \in Keeping
    <3>1. \A i \in 1 .. Len(rules') : task'[rules'[i]] \in Keeping BY <1>1, <2>1, <2>2, <2>4, <2>6
    <3> QED BY <1>0, <2>3, <3>1
  <2> QED BY <1>5, <2>5, <2>6
<1>6. ASSUME NEW k \in Tasks, Flush(k) PROVE RulesHaveKeeper'
  BY <1>6 DEF Flush, RulesHaveKeeper
<1>7. ASSUME NEW k \in Tasks, AddRule(k) PROVE RulesHaveKeeper'
  BY <1>5, <1>7 DEF AddRule
<1>8. ASSUME NEW k \in Tasks, HoldEnds(k) PROVE RulesHaveKeeper'
  BY <1>5, <1>8 DEF HoldEnds
<1>9. ASSUME NEW k \in Tasks, NoFlush(k) PROVE RulesHaveKeeper'
  BY <1>5, <1>9 DEF NoFlush
<1>10. ASSUME NEW k \in Tasks, NoNft(k) \/ AddFails(k) \/ DecoyStep(k) \/ Feed(k) \/ DecoyFails(k)
       PROVE  RulesHaveKeeper'
  <2>1. /\ rules' = rules
        /\ \E a \in {"add", "settle", "bind", "decoy"}, b \in TaskState :
              Go(k, a, b) /\ (a = "add" => b \in {"hold", "settle"})
    BY <1>10 DEF DecoyStep, NoNft, AddFails, SettleEnds, BindDecoy, DecoyRefused, DecoyClock,
       DecoyEnds, Feed, DecoyFails, TaskState
  <2> QED BY <1>5, <2>1
<1>11. CASE UNCHANGED vars BY <1>2, <1>11 DEF vars, serviceVars, handoffVars, Lives
<1> HIDE DEF Kept
<1> QED BY <1>3, <1>4, <1>6, <1>7, <1>8, <1>9, <1>10, <1>11 DEF Next, RedirectStep

\* As long as the process lives, every rule in the kernel has a task that will still
\* remove it, unless nft failed to: RulesHaveKeeper.
THEOREM RulesAreKept == Spec => []RulesHaveKeeper
<1>1. Init => RulesHaveKeeper BY DEF Init, RulesHaveKeeper
<1>2. TypeOK /\ Unspawned /\ RulesHaveKeeper /\ [Next]_vars => RulesHaveKeeper' BY KeepersStep
<1> QED BY <1>1, <1>2, HandoffTypes, PTL DEF Spec

----------------------------------------------------------------------------
(* The listeners. *)

\* Beside the hand-offs the listeners behave as Service promises: the tasks and the decoys,
\* which take ports away from them (migration.rs:96), add no step to it.
THEOREM HandoffKeepsService == Spec => ServiceSpec
<1>1. Init => ServiceInit BY DEF Init
<1>2. [Next]_vars => [ServiceNext]_serviceVars
  <2> SUFFICES ASSUME Next PROVE [ServiceNext]_serviceVars BY DEF vars, serviceVars
  <2>1. CASE ServiceStep BY <2>1 DEF ServiceStep, ServiceNext
  <2>2. CASE SpawnHandoff BY <2>2 DEF SpawnHandoff, ServiceNext
  <2>3. ASSUME NEW k \in Tasks, TaskStep(k) PROVE UNCHANGED serviceVars
    BY <2>3, StepIsGo DEF Go
  <2> QED BY <2>1, <2>2, <2>3 DEF Next, TaskStep
<1> QED BY <1>1, <1>2, PTL DEF Spec, ServiceSpec
=============================================================================
