--------------------------- MODULE DashboardProofs ---------------------------
(* Proofs about Dashboard, for any number of clients, accept loops and migrations. *)
EXTENDS Dashboard, FiniteSetTheorems, TLAPS

\* The port published is that of the last migration counted, or of the one that is being
\* counted.
Published ==
  /\ exec = "boot" => metrics["port"] = 0 /\ metrics["migrations"] = 0 /\ metrics["connections"] = 0
  /\ exec \in {"recv", "moving"} => metrics["port"] = metrics["migrations"] + 1
  /\ exec = "published" => metrics["port"] = metrics["migrations"] + 2

\* What a client has been told, its handler has read, and the atomics hold.
Growing ==
  \A c \in Clients, f \in Counters : answer[c][f] <= got[c][f] /\ got[c][f] <= metrics[f]

Consistent(a) ==
  a["connections"] > 0 \/ a["migrations"] > 0 => a["port"] > a["migrations"]

\* A handler that has read the counters and not yet the port is the only one behind.
Followed ==
  ordered => \A c \in Clients :
    Consistent(answer[c]) /\ (reading[c] \notin 2 .. AtPort => Consistent(got[c]))

\* Every migration, request and alarm not yet requested has been counted as an attack.
Alarmed  == {l \in Loops : loop[l] = "alarmed"}
InFlight == IF exec \in {"moving", "published"} THEN 1 ELSE 0
Pending  == metrics["migrations"] + requests + InFlight + Cardinality(Alarmed)
Alarms   == Pending <= metrics["attacks"]

Explained ==
  ordered => \A c \in Clients :
    reading[c] = AtMigrations => answer[c]["migrations"] <= got[c]["attacks"]

IInv == TypeOK /\ Published /\ Growing /\ Followed /\ Alarms /\ Explained

LEMMA Starts == Init => IInv
<1> SUFFICES ASSUME Init PROVE IInv OBVIOUS
<1>1. Zeroes \in [Counters -> Nat] /\ \A f \in Counters : Zeroes[f] = 0 BY DEF Zeroes
<1>2. Blank \in Answers /\ \A f \in Shown : Blank[f] = 0
  BY DashboardAssumption DEF Blank, Shown, Answers
<1>3. Counters \subseteq Shown BY DEF Shown
<1>4. TypeOK BY <1>1, <1>2, DashboardAssumption DEF Init, TypeOK, Finished
<1>5. Published BY <1>1 DEF Init, Published, Counters
<1>6. Growing BY <1>1, <1>2, <1>3 DEF Init, Growing
<1>7. Followed BY <1>2, <1>3 DEF Init, Followed, Consistent, Counters
<1>8. Alarms
  <2>1. Alarmed = {} BY DEF Init, Alarmed
  <2> QED BY <1>1, <2>1, FS_EmptySet DEF Init, Alarms, Pending, InFlight, Counters
<1>9. Explained BY DEF Init, Explained, AtMigrations
<1> QED BY <1>4, <1>5, <1>6, <1>7, <1>8, <1>9 DEF IInv

\* There are as many alarmed loops as a number can tell.
LEMMA AlarmedFinite ==
  /\ IsFiniteSet(Alarmed) /\ Cardinality(Alarmed) \in Nat
  /\ IsFiniteSet(Alarmed') /\ Cardinality(Alarmed') \in Nat
<1>1. IsFiniteSet(Alarmed) /\ IsFiniteSet(Alarmed')
  BY FS_Subset, DashboardAssumption DEF Alarmed
<1> QED BY <1>1, FS_CardinalityType

\* A loop that raises an alarm, and one that has requested its migration.
LEMMA AlarmedChanges ==
  ASSUME TypeOK, NEW l \in Loops, NEW from, NEW to, LoopStep(l, from, to)
  PROVE  /\ from # "alarmed" /\ to = "alarmed" =>
              Cardinality(Alarmed') = Cardinality(Alarmed) + 1
         /\ from = "alarmed" /\ to # "alarmed" =>
              Cardinality(Alarmed') = Cardinality(Alarmed) - 1
         /\ from # "alarmed" /\ to # "alarmed" => Alarmed' = Alarmed
<1>1. /\ loop[l] = from /\ loop' = [loop EXCEPT ![l] = to]
      /\ loop \in [Loops -> {"select", "counted", "alarmed"}]
  BY DEF LoopStep, TypeOK
<1>2. ASSUME from # "alarmed", to = "alarmed" PROVE Alarmed' = Alarmed \cup {l} /\ l \notin Alarmed
  BY <1>1, <1>2 DEF Alarmed
<1>3. ASSUME from = "alarmed", to # "alarmed" PROVE Alarmed' = Alarmed \ {l} /\ l \in Alarmed
  BY <1>1, <1>3 DEF Alarmed
<1>4. ASSUME from # "alarmed", to # "alarmed" PROVE Alarmed' = Alarmed
  BY <1>1, <1>4 DEF Alarmed
<1> QED BY <1>2, <1>3, <1>4, AlarmedFinite, FS_AddElement, FS_RemoveElement

\* A counter goes up by one.
LEMMA Incremented ==
  ASSUME TypeOK, NEW f \in Counters, Inc(f)
  PROVE  /\ metrics' \in [Counters -> Nat]
         /\ metrics'[f] = metrics[f] + 1
         /\ \A g \in Counters : metrics'[g] >= metrics[g] /\ (g # f => metrics'[g] = metrics[g])
BY DEF TypeOK, Inc

\* A step of the tasks: the handlers and their clients see nothing of it yet.
LEMMA TaskKeeps ==
  ASSUME IInv, Others, Published', Alarms',
         metrics' \in [Counters -> Nat], \A f \in Counters : metrics'[f] >= metrics[f],
         loop' \in [Loops -> {"select", "counted", "alarmed"}], requests' \in Nat,
         exec' \in {"boot", "recv", "moving", "published"}
  PROVE  IInv'
<1>1. UNCHANGED <<ordered, clock, start, reading, got, answer>> BY DEF Others
<1>2. TypeOK' BY <1>1 DEF IInv, TypeOK
<1>3. Growing'
  <2> SUFFICES ASSUME NEW c \in Clients, NEW f \in Counters
               PROVE  answer[c][f] <= got[c][f] /\ got[c][f] <= metrics'[f]
    BY <1>1 DEF Growing
  <2>1. got[c][f] \in Nat /\ metrics[f] \in Nat /\ metrics'[f] \in Nat
    BY DEF IInv, TypeOK, Answers, Shown
  <2> QED BY <2>1 DEF IInv, Growing
<1>4. Followed' /\ Explained' BY <1>1 DEF IInv, Followed, Explained
<1> QED BY <1>2, <1>3, <1>4 DEF IInv

\* A step of an accept loop.
LEMMA LoopKeeps ==
  ASSUME IInv, NEW l \in Loops, CountConnection(l) \/ NoAlarm(l) \/ Alarm(l)
  PROVE  IInv'
<1>1. ASSUME NEW from \in {"select", "counted", "alarmed"},
             NEW to \in {"select", "counted", "alarmed"}, LoopStep(l, from, to)
      PROVE  /\ exec # "boot" /\ exec' = exec /\ Others
             /\ loop' \in [Loops -> {"select", "counted", "alarmed"}]
  BY <1>1 DEF LoopStep, IInv, TypeOK
<1>2. /\ requests \in Nat /\ metrics["attacks"] \in Nat /\ metrics["migrations"] \in Nat
      /\ Cardinality(Alarmed) \in Nat /\ Cardinality(Alarmed') \in Nat
      /\ \A f \in Counters : metrics[f] \in Nat
  BY AlarmedFinite DEF IInv, TypeOK, Counters
<1>3. CASE NoAlarm(l)
  <2>1. LoopStep(l, "counted", "select") /\ UNCHANGED <<metrics, requests>>
    BY <1>3 DEF NoAlarm
  <2>2. Alarmed' = Alarmed BY <2>1, AlarmedChanges DEF IInv
  <2>3. Alarms' BY <1>1, <2>1, <2>2 DEF IInv, Alarms, Pending, InFlight
  <2>4. Published' BY <1>1, <2>1 DEF IInv, Published
  <2> QED BY <1>1, <1>2, <2>1, <2>3, <2>4, TaskKeeps DEF IInv, TypeOK
<1>4. CASE CountConnection(l)
  <2>1. LoopStep(l, "select", "counted") /\ Inc("connections") /\ UNCHANGED requests
    BY <1>4 DEF CountConnection
  <2>2. /\ metrics' \in [Counters -> Nat] /\ \A g \in Counters : metrics'[g] >= metrics[g]
        /\ metrics'["port"] = metrics["port"] /\ metrics'["migrations"] = metrics["migrations"]
        /\ metrics'["attacks"] = metrics["attacks"]
    BY <2>1, Incremented DEF IInv, Counters
  <2>3. Alarmed' = Alarmed BY <2>1, AlarmedChanges DEF IInv
  <2>4. Alarms' BY <1>1, <2>1, <2>2, <2>3 DEF IInv, Alarms, Pending, InFlight
  <2>5. Published' BY <1>1, <2>1, <2>2 DEF IInv, Published
  <2> QED BY <1>1, <1>2, <2>1, <2>2, <2>4, <2>5, TaskKeeps DEF IInv, TypeOK
<1>5. CASE CountAlarm(l, "counted", "alarmed")
  <2>1. LoopStep(l, "counted", "alarmed") /\ Inc("attacks") /\ UNCHANGED requests
    BY <1>5 DEF CountAlarm
  <2>2. /\ metrics' \in [Counters -> Nat] /\ \A g \in Counters : metrics'[g] >= metrics[g]
        /\ metrics'["port"] = metrics["port"] /\ metrics'["migrations"] = metrics["migrations"]
        /\ metrics'["attacks"] = metrics["attacks"] + 1
    BY <2>1, Incremented DEF IInv, Counters
  <2>3. Cardinality(Alarmed') = Cardinality(Alarmed) + 1 BY <2>1, AlarmedChanges DEF IInv
  <2>4. InFlight' = InFlight /\ InFlight \in Nat BY <1>1, <2>1 DEF InFlight
  <2>5. Alarms' BY <1>2, <2>1, <2>2, <2>3, <2>4 DEF IInv, Alarms, Pending
  <2>6. Published' BY <1>1, <2>1, <2>2 DEF IInv, Published
  <2> QED BY <1>1, <1>2, <2>1, <2>2, <2>5, <2>6, TaskKeeps DEF IInv, TypeOK
<1>6. CASE Request(l, "alarmed", "select")
  <2>1. LoopStep(l, "alarmed", "select") /\ requests' \in {requests, requests + 1} /\ UNCHANGED metrics
    BY <1>6 DEF Request
  <2>2. Cardinality(Alarmed') = Cardinality(Alarmed) - 1 BY <2>1, AlarmedChanges DEF IInv
  <2>3. InFlight' = InFlight /\ InFlight \in Nat BY <1>1, <2>1 DEF InFlight
  <2>4. Alarms' BY <1>2, <2>1, <2>2, <2>3 DEF IInv, Alarms, Pending
  <2>5. Published' BY <1>1, <2>1 DEF IInv, Published
  <2> QED BY <1>1, <1>2, <2>1, <2>4, <2>5, TaskKeeps DEF IInv, TypeOK
<1> QED BY <1>3, <1>4, <1>5, <1>6 DEF Alarm

\* A step of the executor.
LEMMA ExecKeeps ==
  ASSUME IInv, SetFirstPort \/ TakeRequest \/ Publish
  PROVE  IInv'
<1>1. CASE TakeRequest
  <2>1. /\ exec = "recv" /\ exec' \in {"recv", "moving"} /\ UNCHANGED <<loop, metrics>> /\ Others
        /\ requests' \in Nat
    BY <1>1 DEF TakeRequest, ExecStep, IInv, TypeOK
  <2>2. Published' BY <2>1 DEF IInv, Published
  <2>3. \A f \in Counters : metrics[f] \in Nat BY DEF IInv, TypeOK
  <2>4. /\ requests' = requests - 1 /\ Alarmed' = Alarmed /\ Cardinality(Alarmed) \in Nat
        /\ requests \in Nat /\ metrics["migrations"] \in Nat /\ metrics["attacks"] \in Nat
    BY <1>1, <2>1, <2>3, AlarmedFinite DEF TakeRequest, Alarmed, IInv, TypeOK, Counters
  <2>5. Alarms' BY <2>1, <2>4 DEF IInv, Alarms, Pending, InFlight
  <2> QED BY <2>1, <2>2, <2>3, <2>5, TaskKeeps DEF IInv, TypeOK
<1>2. ASSUME NEW from, NEW to, NEW f, ExecInc(from, to, f),
             <<from, to, f>> \in {<<"boot", "recv", "port">>, <<"moving", "published", "port">>,
                                  <<"published", "recv", "migrations">>}
      PROVE  IInv'
  <2>1. exec = from /\ exec' = to /\ UNCHANGED <<loop, requests>> /\ Others /\ Inc(f)
    BY <1>2 DEF ExecInc, ExecStep
  <2>2. f \in {"port", "migrations"} /\ f \in Counters BY <1>2 DEF Counters
  <2>3. /\ metrics' \in [Counters -> Nat] /\ metrics'[f] = metrics[f] + 1
        /\ \A g \in Counters : metrics'[g] >= metrics[g] /\ (g # f => metrics'[g] = metrics[g])
    BY <2>1, <2>2, Incremented DEF IInv
  <2>4. metrics["port"] \in Nat /\ metrics["migrations"] \in Nat BY DEF IInv, TypeOK, Counters
  <2>5. Published' BY <1>2, <2>1, <2>3, <2>4 DEF IInv, Published, Counters
  <2>6. exec' \in {"boot", "recv", "moving", "published"} BY <1>2, <2>1
  <2>7. /\ Alarmed' = Alarmed /\ Cardinality(Alarmed) \in Nat
        /\ requests \in Nat /\ metrics["attacks"] \in Nat
    BY <2>1, AlarmedFinite DEF Alarmed, IInv, TypeOK, Counters
  <2>8. InFlight' + metrics'["migrations"] = InFlight + metrics["migrations"]
    BY <1>2, <2>1, <2>3, <2>4 DEF InFlight, Counters
  <2>9. metrics'["attacks"] = metrics["attacks"] /\ metrics'["migrations"] \in Nat
    BY <2>2, <2>3 DEF Counters
  <2>10. InFlight \in Nat /\ InFlight' \in Nat BY DEF InFlight
  <2>11. Alarms' BY <2>1, <2>4, <2>7, <2>8, <2>9, <2>10 DEF IInv, Alarms, Pending
  <2> QED BY <2>1, <2>3, <2>5, <2>6, <2>11, TaskKeeps DEF IInv, TypeOK
<1> QED BY <1>1, <1>2 DEF SetFirstPort, Publish

\* A step of a client or its handler leaves the tasks alone.
LEMMA HandlerFrame ==
  ASSUME IInv, UNCHANGED <<ordered, metrics, loop, requests, exec, clock, start>>,
         reading' \in [Clients -> 0 .. Finished],
         got' \in [Clients -> Answers], answer' \in [Clients -> Answers]
  PROVE  TypeOK' /\ Published' /\ Alarms'
BY DEF IInv, TypeOK, Published, Alarms, Pending, InFlight, Alarmed

\* What a load returns is no older than what the client was told, and current on an
\* ordered machine.
LEMMA LoadedValue ==
  ASSUME IInv, NEW c \in Clients, NEW f \in Shown, NEW v \in Loadable(c, f)
  PROVE  /\ v \in Nat
         /\ f = "uptime" => v <= MaxTime
         /\ f \in Counters => got[c][f] <= v /\ v <= metrics[f] /\ (ordered => v = metrics[f])
<1>1. CASE f = "uptime"
  <2>1. v = Uptime /\ f \notin Counters BY <1>1 DEF Loadable, Counters
  <2>2. Uptime \in Nat /\ Uptime <= MaxTime
    BY DashboardAssumption DEF Uptime, IInv, TypeOK
  <2> QED BY <2>1, <2>2
<1>2. CASE f # "uptime"
  <2>1. f \in Counters BY <1>2 DEF Shown
  <2>2. got[c][f] \in Nat /\ metrics[f] \in Nat /\ got[c][f] <= metrics[f]
    BY <2>1 DEF IInv, TypeOK, Answers, Growing, Shown
  <2>3. v \in IF ordered THEN {metrics[f]} ELSE got[c][f] .. metrics[f] BY <1>2 DEF Loadable
  <2>4. CASE ordered BY <1>2, <2>2, <2>3, <2>4
  <2>5. CASE ~ordered BY <1>2, <2>2, <2>3, <2>5
  <2> QED BY <2>4, <2>5
<1> QED BY <1>1, <1>2

\* The handler reads a field.
LEMMA LoadKeeps ==
  ASSUME IInv, NEW c \in Clients, Load(c)
  PROVE  IInv'
<1> DEFINE f == Order[reading[c]]
<1>1. PICK v \in Loadable(c, f) : got' = [got EXCEPT ![c][f] = v] BY DEF Load
<1>2. /\ reading[c] \in 1 .. 5
      /\ reading' = [reading EXCEPT ![c] = @ + 1] /\ answer' = answer
      /\ UNCHANGED <<ordered, metrics, loop, requests, exec, clock, start>>
  BY DEF Load, HandlerKeeps, Order
<1>3. /\ f \in Shown
      /\ reading[c] = AtPort <=> f = "port"
      /\ f = "uptime" => reading[c] = 5
      /\ reading[c] < AtPort => f \in {"connections", "attacks", "migrations"}
  BY <1>2 DEF Order, Shown, Counters, AtPort
<1> HIDE DEF f
<1>4. /\ v \in Nat /\ (f = "uptime" => v <= MaxTime)
      /\ f \in Counters => got[c][f] <= v /\ v <= metrics[f] /\ (ordered => v = metrics[f])
  BY <1>1, <1>3, LoadedValue
<1>5. /\ got[c] \in Answers /\ got \in [Clients -> Answers]
      /\ \A d \in Clients : d # c => got'[d] = got[d] /\ reading'[d] = reading[d]
      /\ got'[c] = [got[c] EXCEPT ![f] = v] /\ reading'[c] = reading[c] + 1
  BY <1>1, <1>2 DEF IInv, TypeOK
<1>6. got'[c] \in Answers /\ \A g \in Shown : got'[c][g] = IF g = f THEN v ELSE got[c][g]
  <2>1. got[c] \in [Shown -> Nat] /\ got[c]["uptime"] <= MaxTime BY <1>5 DEF Answers
  <2>2. \A g \in Shown : got'[c][g] = IF g = f THEN v ELSE got[c][g] BY <1>5, <2>1
  <2>3. got'[c] \in [Shown -> Nat] BY <1>4, <1>5, <2>1
  <2>4. got'[c]["uptime"] <= MaxTime BY <1>4, <2>1, <2>2 DEF Shown
  <2> QED BY <2>2, <2>3, <2>4 DEF Answers
<1>7. got' \in [Clients -> Answers] BY <1>1, <1>5, <1>6
<1>8. reading' \in [Clients -> 0 .. Finished] BY <1>2 DEF IInv, TypeOK, Finished
<1>9. TypeOK' /\ Published' /\ Alarms' BY <1>2, <1>7, <1>8, HandlerFrame DEF IInv, TypeOK
<1>10. Growing'
  <2> SUFFICES ASSUME NEW d \in Clients, NEW g \in Counters
               PROVE  answer[d][g] <= got'[d][g] /\ got'[d][g] <= metrics[g]
    BY <1>2 DEF Growing
  <2>1. /\ answer[d][g] \in Nat /\ got[d][g] \in Nat /\ metrics[g] \in Nat
        /\ answer[d][g] <= got[d][g] /\ got[d][g] <= metrics[g] /\ g \in Shown
    BY DEF IInv, TypeOK, Answers, Growing, Shown
  <2>2. CASE d = c /\ g = f BY <1>4, <1>6, <2>1, <2>2
  <2>3. CASE ~(d = c /\ g = f) BY <1>5, <1>6, <2>1, <2>3
  <2> QED BY <2>2, <2>3
<1>11. Followed'
  <2> SUFFICES ASSUME ordered, NEW d \in Clients, reading'[d] \notin 2 .. AtPort
               PROVE  Consistent(got'[d])
    BY <1>2 DEF IInv, Followed
  <2>1. CASE d # c
    <3>1. Consistent(got[d]) BY <1>5, <2>1 DEF IInv, Followed
    <3> QED BY <1>5, <2>1, <3>1
  <2>2. CASE d = c
    <3>1. reading[c] >= AtPort BY <1>2, <1>5, <2>2 DEF AtPort
    <3>2. {"connections", "migrations", "port"} \subseteq Shown \cap Counters
      BY DEF Shown, Counters
    <3>3. CASE f = "port"
      <4>1. got'[c]["port"] = metrics["port"] BY <1>4, <1>6, <3>2, <3>3
      <4>2. /\ got'[c]["connections"] <= metrics["connections"]
            /\ got'[c]["migrations"] <= metrics["migrations"]
            /\ got'[c]["connections"] \in Nat /\ got'[c]["migrations"] \in Nat
        BY <1>2, <1>6, <1>10, <3>2 DEF Growing, Answers
      <4>3. /\ metrics["connections"] \in Nat /\ metrics["migrations"] \in Nat
            /\ metrics["port"] \in Nat
            /\ exec \in {"boot", "recv", "moving", "published"}
        BY <3>2 DEF IInv, TypeOK
      <4>4. metrics["connections"] > 0 \/ metrics["migrations"] > 0
              => metrics["port"] > metrics["migrations"]
        BY <4>3 DEF IInv, Published
      <4> QED BY <2>2, <4>1, <4>2, <4>3, <4>4 DEF Consistent
    <3>4. CASE f # "port"
      <4>1. reading[c] = 5 BY <1>2, <1>3, <3>1, <3>4 DEF AtPort
      <4>2. f = "uptime" BY <4>1 DEF f, Order
      <4>3. Consistent(got[c]) BY <4>1 DEF IInv, Followed, AtPort
      <4>4. \A g \in {"connections", "migrations", "port"} : got'[c][g] = got[c][g]
        BY <1>6, <3>2, <4>2
      <4> QED BY <2>2, <4>3, <4>4 DEF Consistent
    <3> QED BY <3>3, <3>4
  <2> QED BY <2>1, <2>2
<1>12. Explained'
  <2> SUFFICES ASSUME ordered, NEW d \in Clients, reading'[d] = AtMigrations
               PROVE  answer[d]["migrations"] <= got'[d]["attacks"]
    BY <1>2 DEF Explained
  <2>1. CASE d # c BY <1>2, <1>5, <2>1 DEF IInv, Explained
  <2>2. CASE d = c
    <3>1. f = "attacks" BY <1>2, <1>5, <2>2 DEF f, Order, AtMigrations
    <3>2. f \in Counters /\ "migrations" \in Counters BY <3>1 DEF Counters
    <3>3. got'[c]["attacks"] = metrics["attacks"] BY <1>3, <1>4, <1>6, <3>1, <3>2
    <3>4. /\ answer[c]["migrations"] <= got[c]["migrations"]
          /\ got[c]["migrations"] <= metrics["migrations"]
          /\ answer[c]["migrations"] \in Nat /\ got[c]["migrations"] \in Nat
      BY <3>2 DEF IInv, Growing, TypeOK, Answers, Shown
    <3>5. metrics["migrations"] <= metrics["attacks"]
      BY <3>2, AlarmedFinite DEF IInv, TypeOK, Alarms, Pending, InFlight, Counters
    <3>6. metrics["migrations"] \in Nat /\ metrics["attacks"] \in Nat
      BY DEF IInv, TypeOK, Counters
    <3> QED BY <2>2, <3>3, <3>4, <3>5, <3>6
  <2> QED BY <2>1, <2>2
<1> QED BY <1>9, <1>10, <1>11, <1>12 DEF IInv

\* A client asks, or is answered.
LEMMA ClientKeeps ==
  ASSUME IInv, NEW c \in Clients, Ask(c) \/ Respond(c)
  PROVE  IInv'
<1>1. UNCHANGED <<ordered, metrics, loop, requests, exec, clock, start, got>>
  BY DEF Ask, Respond, HandlerKeeps
<1>2. CASE Ask(c)
  <2>1. PICK first \in {1, AtPort} : reading' = [reading EXCEPT ![c] = first] BY <1>2 DEF Ask
  <2>2. answer' = answer /\ reading[c] = 0 BY <1>2 DEF Ask
  <2>3. reading' \in [Clients -> 0 .. Finished] BY <2>1 DEF IInv, TypeOK, AtPort, Finished
  <2>4. TypeOK' /\ Published' /\ Alarms' BY <1>1, <2>2, <2>3, HandlerFrame DEF IInv, TypeOK
  <2>5. Growing' BY <1>1, <2>2 DEF IInv, Growing
  <2>6. \A d \in Clients : reading'[d] \notin 2 .. AtPort => reading[d] \notin 2 .. AtPort
    BY <2>1, <2>2 DEF IInv, TypeOK, AtPort
  <2>7. Followed' BY <1>1, <2>2, <2>6 DEF IInv, Followed
  <2>8. \A d \in Clients : reading'[d] = AtMigrations => reading[d] = AtMigrations
    BY <2>1 DEF IInv, TypeOK, AtPort, AtMigrations
  <2>9. Explained' BY <1>1, <2>2, <2>8 DEF IInv, Explained
  <2> QED BY <2>4, <2>5, <2>7, <2>9 DEF IInv
<1>3. CASE Respond(c)
  <2>1. /\ reading[c] = Finished /\ reading' = [reading EXCEPT ![c] = 0]
        /\ answer' = [answer EXCEPT ![c] = got[c]]
    BY <1>3 DEF Respond
  <2>2. reading' \in [Clients -> 0 .. Finished] /\ answer' \in [Clients -> Answers]
    BY <2>1 DEF IInv, TypeOK, Finished
  <2>3. TypeOK' /\ Published' /\ Alarms' BY <1>1, <2>2, HandlerFrame DEF IInv, TypeOK
  <2>4. \A d \in Clients : answer'[d] = IF d = c THEN got[d] ELSE answer[d]
    BY <2>1 DEF IInv, TypeOK
  <2>5. Growing'
    <3> SUFFICES ASSUME NEW d \in Clients, NEW f \in Counters
                 PROVE  answer'[d][f] <= got[d][f] /\ got[d][f] <= metrics[f]
      BY <1>1 DEF Growing
    <3>1. got[d][f] \in Nat BY DEF IInv, TypeOK, Answers, Shown
    <3> QED BY <2>4, <3>1 DEF IInv, Growing
  <2>6. \A d \in Clients : reading'[d] = IF d = c THEN 0 ELSE reading[d]
    BY <2>1 DEF IInv, TypeOK
  <2>7. Followed'
    <3> SUFFICES ASSUME ordered, NEW d \in Clients
                 PROVE  /\ Consistent(answer'[d])
                        /\ reading'[d] \notin 2 .. AtPort => Consistent(got[d])
      BY <1>1 DEF Followed
    <3>1. d = c => Consistent(got[d]) BY <2>1 DEF IInv, Followed, Finished, AtPort
    <3> QED BY <2>4, <2>6, <3>1 DEF IInv, Followed
  <2>8. Explained' BY <1>1, <2>4, <2>6 DEF IInv, Explained, AtMigrations
  <2> QED BY <2>3, <2>5, <2>7, <2>8 DEF IInv
<1> QED BY <1>2, <1>3

\* The clock moves.
LEMMA ClockKeeps ==
  ASSUME IInv, NEW t \in 0 .. MaxTime, SetClock(t)
  PROVE  IInv'
BY DEF SetClock, IInv, TypeOK, Published, Growing, Followed, Alarms, Pending, InFlight, Alarmed,
       Explained

LEMMA Steps ==
  ASSUME IInv, [Next]_vars
  PROVE  IInv'
<1>1. CASE UNCHANGED vars 
  BY <1>1 DEF vars, IInv, TypeOK, Published, Growing, Followed, Alarms, Pending, InFlight,
              Alarmed, Explained
<1> QED BY <1>1, ExecKeeps, LoopKeeps, ClockKeeps, ClientKeeps, LoadKeeps DEF Next

\* Every variable keeps its type; the uptime is never out of range, even when the system
\* clock is set back.
THEOREM DashboardTypes == Spec => []TypeOK
<1>1. IInv => TypeOK BY DEF IInv
<1> QED BY <1>1, Starts, Steps, PTL DEF Spec

\* On a machine that orders loads and stores an answer that shows connections or
\* migrations shows a port as new as the last of the migrations.
THEOREM PortFollows == Spec => []PortKeepsUp
<1>1. IInv => PortKeepsUp BY DEF IInv, Followed, Consistent, PortKeepsUp
<1> QED BY <1>1, Starts, Steps, PTL DEF Spec

\* On such a machine the alarms a client reads explain the migrations it was told of.
THEOREM AlarmsExplain == Spec => []AlarmsExplainMigrations
<1>1. IInv => AlarmsExplainMigrations BY DEF IInv, Explained, AlarmsExplainMigrations
<1> QED BY <1>1, Starts, Steps, PTL DEF Spec

\* No client is ever told less than before, on any machine.
THEOREM TotalsGrow == Spec => TotalsNeverDecrease
<1>1. ASSUME IInv, [Next]_vars
      PROVE  [\A c \in Clients, f \in Counters : answer'[c][f] >= answer[c][f]]_vars
  <2> SUFFICES ASSUME Next, NEW c \in Clients, NEW f \in Counters
               PROVE  answer'[c][f] >= answer[c][f]
    BY <1>1
  <2>1. answer[c][f] \in Nat /\ got[c][f] \in Nat /\ answer[c][f] <= got[c][f]
    BY <1>1 DEF IInv, TypeOK, Answers, Shown, Growing
  <2>2. ASSUME NEW d \in Clients, Respond(d) PROVE answer'[c][f] >= answer[c][f]
    <3>1. answer'[c] = IF c = d THEN got[c] ELSE answer[c]
      BY <1>1, <2>2 DEF Respond, IInv, TypeOK
    <3> QED BY <2>1, <3>1
  <2>3. ASSUME NEW d \in Clients, Ask(d) \/ Load(d) PROVE answer' = answer
    BY <2>3 DEF Ask, Load
  <2>4. ASSUME NEW t \in 0 .. MaxTime, SetClock(t) PROVE answer' = answer BY <2>4 DEF SetClock
  <2>5. ASSUME NEW l \in Loops, CountConnection(l) \/ NoAlarm(l) \/ Alarm(l)
        PROVE  answer' = answer
    BY <2>5 DEF CountConnection, NoAlarm, Alarm, CountAlarm, Request, LoopStep, Others
  <2>6. CASE SetFirstPort \/ TakeRequest \/ Publish
    BY <2>1, <2>6 DEF SetFirstPort, TakeRequest, Publish, ExecInc, ExecStep, Others
  <2> QED BY <2>1, <2>2, <2>3, <2>4, <2>5, <2>6 DEF Next
<1> QED BY <1>1, Starts, Steps, PTL DEF Spec, TotalsNeverDecrease
=============================================================================
