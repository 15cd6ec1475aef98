---------------------------- MODULE StartupProofs ----------------------------
(* Proofs about Startup: the limits the honeypot runs within, and its log file. *)
EXTENDS Startup, SequenceTheorems, TLAPS

----------------------------------------------------------------------------
(* The configuration. *)

Given(s) ==
  /\ DOMAIN s \subseteq Fields
  /\ \A f \in DOMAIN s : s[f] \in Values[f]

CfgInv ==
  /\ Given(flags) /\ Given(file)
  /\ \A f \in Numbers : cfg[f] \in Nat
  /\ cfg.log \in Paths
  /\ phase \in {"started", "running"} => Valid(cfg)

\* A setting more is still a setting of the operator's choice.
LEMMA WithGiven ==
  ASSUME NEW s, Given(s), NEW f \in Fields, NEW v \in Values[f]
  PROVE  Given(With(s, f, v))
BY DEF Given, With

\* Flags and file make a configuration of the right types.
LEMMA MergedTypes ==
  ASSUME Given(flags), Given(file),
         NEW c \in {Merged(Parsed(flags), file), Parsed(flags)}
  PROVE  (\A f \in Numbers : c[f] \in Nat) /\ c.log \in Paths
<1>1. \A f \in Numbers : f \in Fields /\ f # "persona" /\ Defaults[f] \in Nat
  BY DEF Numbers, Fields, Defaults
<1>2. "log" \in Fields /\ "log" # "persona" /\ Defaults["log"] \in Paths
  BY DEF Fields, Defaults, Paths
<1>3. \A f \in Numbers : Parsed(flags)[f] \in Nat
  BY <1>1, StartupAssumption DEF Parsed, Given
<1>4. Parsed(flags).log \in Paths BY <1>2, StartupAssumption DEF Parsed, Given
<1>5. \A f \in Numbers : Merged(Parsed(flags), file)[f] \in Nat
  BY <1>1, <1>3, StartupAssumption DEF Merged, Given
<1>6. Merged(Parsed(flags), file).log \in Paths
  BY <1>2, <1>4, StartupAssumption DEF Merged, Given
<1> QED BY <1>3, <1>4, <1>5, <1>6

\* Steps after the decision leave the configuration, and the phase goes on.
LEMMA CfgSteps ==
  ASSUME CfgInv, [Next]_vars
  PROVE  CfgInv'
<1> USE DEF CfgInv
<1>1. ASSUME NEW f \in Fields, NEW v \in Values[f], GiveFlag(f, v) PROVE CfgInv'
  BY <1>1, WithGiven DEF GiveFlag, MaySet
<1>2. ASSUME NEW f \in Fields, NEW v \in Values[f], WriteFile(f, v) PROVE CfgInv'
  BY <1>2, WithGiven DEF WriteFile, MaySet
<1>3. CASE Merge
  <2>1. cfg' \in {Merged(Parsed(flags), file), Parsed(flags)} BY <1>3 DEF Merge
  <2> QED BY <1>3, <2>1, MergedTypes DEF Merge
<1>4. CASE Validate
  <2>1. cfg' = cfg /\ flags' = flags /\ file' = file BY <1>4 DEF Validate
  <2>2. phase' = "started" => Valid(cfg) BY <1>4 DEF Validate
  <2>3. phase' # "running" BY <1>4 DEF Validate
  <2> QED BY <2>1, <2>2, <2>3
<1>5. CASE StartLogging \/ StartDashboard \/ CloseLog \/ Background
  BY <1>5 DEF StartLogging, StartDashboard, CloseLog, Background, mainVars
<1>6. CASE StartListener BY <1>6 DEF StartListener
<1>7. CASE Return \/ Exit BY <1>7 DEF Return, Exit
<1>8. CASE UNCHANGED vars BY <1>8 DEF vars, mainVars
<1> QED BY <1>1, <1>2, <1>3, <1>4, <1>5, <1>6, <1>7, <1>8 DEF Next

\* Whatever the operator gives on the command line and in the file, the honeypot runs
\* within the documented limits only.
THEOREM LimitsHold == Spec => []RunsWithinLimits
<1>1. Init => CfgInv
  BY DEF Init, CfgInv, Given, NoSettings, Defaults, Numbers, Fields, Paths
<1>2. CfgInv => RunsWithinLimits
  <2> SUFFICES ASSUME CfgInv, phase = "running" PROVE RunsWithinLimits
    BY DEF RunsWithinLimits
  <2>1. /\ cfg.port \in Nat /\ cfg.dashboard_port \in Nat /\ cfg.threshold \in Nat
        /\ cfg.window \in Nat /\ cfg.max_connections \in Nat
    BY DEF CfgInv, Numbers, Fields
  <2>2. Valid(cfg) /\ cfg.log \in Paths BY DEF CfgInv
  <2> QED BY <2>1, <2>2 DEF RunsWithinLimits, Between, Valid, ValidPort, LogOpens, Paths
<1> QED BY <1>1, <1>2, CfgSteps, PTL DEF Spec

----------------------------------------------------------------------------
(* The log. *)

Msgs == (Loggers \X Nat) \cup {ShutdownMsg}

LogTypes ==
  /\ queue \in Seq(Msgs) /\ logFile \in Seq(Msgs)
  /\ logged \in [Loggers -> Nat]
  /\ guard \in {"none", "held", "closing", "dropped"} /\ worker \in {"runs", "stopped"}

\* The lines before place k of queue q, and those of file f.
Before(q, f, k) == {q[i] : i \in 1 .. k - 1} \cup Lines(f)

\* While the guard is held the worker will reach every line; when it is dropped the
\* shutdown message stands behind the lines told of.
Ongoing == guard \in {"none", "held"} =>
  /\ worker = "runs"
  /\ \A i \in 1 .. Len(queue) : queue[i] # ShutdownMsg
  /\ told \subseteq Before(queue, logFile, Len(queue) + 1)
Closing == guard = "closing" /\ worker = "runs" =>
  \E k \in 1 .. Len(queue) :
    /\ queue[k] = ShutdownMsg
    /\ \A i \in 1 .. k - 1 : queue[i] # ShutdownMsg
    /\ told \subseteq Before(queue, logFile, k)
Closed ==
  /\ guard \in {"closing", "dropped"} /\ worker = "stopped" /\ ~late => told \subseteq Lines(logFile)
  /\ guard = "dropped" => late \/ worker = "stopped"

LogInv ==
  /\ LogTypes /\ Ongoing /\ Closing /\ Closed
  /\ phase \notin {"over", "exited"} => guard \in {"none", "held"}
  /\ phase = "exited" => guard = "dropped"

\* A step that leaves the log alone keeps its invariant.
LEMMA OtherSteps ==
  ASSUME LogInv, UNCHANGED <<logVars, told>>,
         phase \in {"over", "exited"} => phase' \in {"over", "exited"},
         phase' = "exited" => guard = "dropped"
  PROVE  LogInv'
<1>1. UNCHANGED <<guard, worker, logged, queue, logFile, late, told>> BY DEF logVars
<1>2. LogTypes' /\ Ongoing' /\ Closing' /\ Closed'
  BY <1>1, Zenon DEF LogInv, LogTypes, Ongoing, Closing, Closed
<1> QED BY <1>1, <1>2 DEF LogInv

\* What a report does to the queue.
LEMMA ReportQueue ==
  ASSUME LogTypes, NEW l \in Loggers, Report(l)
  PROVE  /\ LogTypes' /\ UNCHANGED <<guard, worker, logFile, late>>
         /\ Len(queue') \in Nat /\ Len(queue') >= Len(queue)
         /\ \A i \in 1 .. Len(queue) : queue'[i] = queue[i]
         /\ \A i \in 1 .. Len(queue') : i > Len(queue) => queue'[i] # ShutdownMsg
<1>1. UNCHANGED <<guard, worker, logFile, late>> BY DEF Report
<1>2. logged[l] + 1 \in Nat BY DEF LogTypes
<1>3. logged' \in [Loggers -> Nat] BY <1>2 DEF Report, LogTypes
<1> DEFINE line == <<l, logged[l] + 1>>
<1>4. line \in Msgs /\ line # ShutdownMsg BY <1>2 DEF Msgs, ShutdownMsg
<1>5. queue' = queue \/ queue' = Append(queue, line) BY DEF Report
<1> HIDE DEF line
<1>6. Len(queue) \in Nat /\ queue \in Seq(Msgs) BY LenProperties DEF LogTypes
<1>7. CASE queue' = queue BY <1>1, <1>3, <1>6, <1>7 DEF LogTypes
<1>8. CASE queue' = Append(queue, line)
  <2>1. /\ Append(queue, line) \in Seq(Msgs)
        /\ Len(Append(queue, line)) = Len(queue) + 1
        /\ \A i \in 1 .. Len(queue) : Append(queue, line)[i] = queue[i]
        /\ Append(queue, line)[Len(queue) + 1] = line
    BY <1>4, <1>6, AppendProperties
  <2> QED BY <1>1, <1>3, <1>4, <1>6, <1>8, <2>1 DEF LogTypes
<1> QED BY <1>5, <1>7, <1>8

\* A task's report disturbs nothing.
LEMMA ReportSteps ==
  ASSUME LogInv, NEW l \in Loggers, Report(l), told' = told, phase' = phase
  PROVE  LogInv'
<1>1. /\ LogTypes' /\ UNCHANGED <<guard, worker, logFile, late>>
      /\ Len(queue') \in Nat /\ Len(queue') >= Len(queue)
      /\ \A i \in 1 .. Len(queue) : queue'[i] = queue[i]
      /\ \A i \in 1 .. Len(queue') : i > Len(queue) => queue'[i] # ShutdownMsg
  BY ReportQueue DEF LogInv
<1>2. Len(queue) \in Nat BY LenProperties DEF LogInv, LogTypes
<1>3. \A k \in 1 .. Len(queue) + 1 :
        Before(queue, logFile, k) \subseteq Before(queue', logFile', k)
  BY <1>1, <1>2 DEF Before, Lines
<1>4. Before(queue, logFile, Len(queue) + 1) \subseteq Before(queue', logFile', Len(queue') + 1)
  BY <1>1, <1>2 DEF Before, Lines
<1>5. Ongoing'
  <2> SUFFICES ASSUME guard \in {"none", "held"}
               PROVE  /\ worker = "runs"
                      /\ \A i \in 1 .. Len(queue') : queue'[i] # ShutdownMsg
                      /\ told \subseteq Before(queue', logFile', Len(queue') + 1)
    BY <1>1 DEF Ongoing, Before
  <2>1. /\ worker = "runs" /\ told \subseteq Before(queue, logFile, Len(queue) + 1)
        /\ \A i \in 1 .. Len(queue) : queue[i] # ShutdownMsg
    BY DEF LogInv, Ongoing
  <2>2. \A i \in 1 .. Len(queue') : queue'[i] # ShutdownMsg BY <1>1, <1>2, <2>1
  <2> QED BY <1>4, <2>1, <2>2
<1>6. Closing'
  <2> SUFFICES ASSUME guard = "closing", worker = "runs"
               PROVE  \E k \in 1 .. Len(queue') :
                        /\ queue'[k] = ShutdownMsg
                        /\ \A i \in 1 .. k - 1 : queue'[i] # ShutdownMsg
                        /\ told \subseteq Before(queue', logFile', k)
    BY <1>1 DEF Closing, Before
  <2>1. PICK k \in 1 .. Len(queue) :
          /\ queue[k] = ShutdownMsg
          /\ \A i \in 1 .. k - 1 : queue[i] # ShutdownMsg
          /\ told \subseteq Before(queue, logFile, k)
    BY DEF LogInv, Closing
  <2>2. k \in 1 .. Len(queue') /\ \A i \in 1 .. k - 1 : i \in 1 .. Len(queue) BY <1>1, <1>2
  <2>3. told \subseteq Before(queue', logFile', k) BY <1>2, <1>3, <2>1
  <2> QED BY <1>1, <2>1, <2>2, <2>3
<1>7. Closed' BY <1>1 DEF LogInv, Closed, Lines
<1> QED BY <1>1, <1>5, <1>6, <1>7 DEF LogInv

\* The goodbye: what is queued or written then is told of.
LEMMA ReturnSteps ==
  ASSUME LogInv, Return
  PROVE  LogInv'
<1>1. /\ LogTypes' /\ UNCHANGED <<guard, worker, logFile, late>>
      /\ Len(queue') \in Nat /\ Len(queue') >= Len(queue)
      /\ \A i \in 1 .. Len(queue) : queue'[i] = queue[i]
      /\ \A i \in 1 .. Len(queue') : i > Len(queue) => queue'[i] # ShutdownMsg
  BY ReportQueue, StartupAssumption DEF LogInv, Return
<1>2. Len(queue) \in Nat BY LenProperties DEF LogInv, LogTypes
<1>3. phase = "running" /\ phase' = "over" /\ told' = Lines(queue') \cup Lines(logFile')
  BY DEF Return
<1>4. guard \in {"none", "held"} /\ worker = "runs"
      /\ \A i \in 1 .. Len(queue) : queue[i] # ShutdownMsg
  BY <1>3 DEF LogInv, Ongoing
<1>5. \A i \in 1 .. Len(queue') : queue'[i] # ShutdownMsg BY <1>1, <1>2, <1>4
<1>6. told' \subseteq Before(queue', logFile', Len(queue') + 1) BY <1>1, <1>3 DEF Before, Lines
<1>7. Ongoing' BY <1>1, <1>4, <1>5, <1>6 DEF Ongoing, Before
<1>8. Closing' /\ Closed' BY <1>1, <1>4 DEF Closing, Closed
<1> QED BY <1>1, <1>3, <1>4, <1>7, <1>8 DEF LogInv

\* The worker takes the line at the head of the queue.
LEMMA WorkSteps ==
  ASSUME LogInv, Work, told' = told, phase' = phase
  PROVE  LogInv'
<1>1. /\ worker = "runs" /\ queue # <<>> /\ queue' = Tail(queue)
      /\ UNCHANGED <<guard, logged, late>>
  BY DEF Work
<1>2. /\ Len(queue) \in Nat \ {0} /\ Head(queue) = queue[1] /\ queue[1] \in Msgs
      /\ queue' \in Seq(Msgs) /\ Len(queue') = Len(queue) - 1
      /\ \A i \in 1 .. Len(queue) - 1 : queue'[i] = queue[i + 1]
  <2>1. queue \in Seq(Msgs) BY DEF LogInv, LogTypes
  <2>2. Len(queue) \in Nat \ {0} BY <1>1, <2>1, EmptySeq
  <2>3. Head(queue) = queue[1] BY <1>1, <2>1
  <2> QED BY <1>1, <2>1, <2>2, <2>3, HeadTailProperties, ElementOfSeq
<1>3. CASE Head(queue) = ShutdownMsg
  <2>1. worker' = "stopped" /\ logFile' = logFile BY <1>3 DEF Work
  <2>2. LogTypes' BY <1>1, <1>2, <2>1 DEF LogInv, LogTypes
  <2>3. guard \notin {"none", "held"} BY <1>2, <1>3 DEF LogInv, Ongoing
  <2>4. guard = "closing" => told \subseteq Lines(logFile)
    <3> SUFFICES ASSUME guard = "closing" PROVE told \subseteq Lines(logFile) OBVIOUS
    <3>1. PICK k \in 1 .. Len(queue) :
            /\ \A i \in 1 .. k - 1 : queue[i] # ShutdownMsg
            /\ told \subseteq Before(queue, logFile, k)
      BY <1>1 DEF LogInv, Closing
    <3>2. k = 1 BY <1>2, <1>3, <3>1
    <3> QED BY <3>1, <3>2 DEF Before
  <2>5. guard = "dropped" => late BY <1>1 DEF LogInv, Closed
  <2>6. Ongoing' /\ Closing' BY <1>1, <2>1, <2>3 DEF Ongoing, Closing
  <2>7. Closed' BY <1>1, <2>1, <2>4, <2>5 DEF Closed
  <2> QED BY <1>1, <2>2, <2>3, <2>6, <2>7 DEF LogInv
<1>4. CASE Head(queue) # ShutdownMsg
  <2>1. worker' = worker /\ logFile' = Append(logFile, queue[1]) BY <1>2, <1>4 DEF Work
  <2>2. LogTypes' /\ Lines(logFile') = Lines(logFile) \cup {queue[1]}
    <3>1. logFile \in Seq(Msgs) /\ Len(logFile) \in Nat BY LenProperties DEF LogInv, LogTypes
    <3>2. /\ logFile' \in Seq(Msgs) /\ Len(logFile') = Len(logFile) + 1
          /\ \A i \in 1 .. Len(logFile) : logFile'[i] = logFile[i]
          /\ logFile'[Len(logFile) + 1] = queue[1]
      BY <1>2, <2>1, <3>1, AppendProperties
    <3>3. LogTypes' BY <1>1, <1>2, <2>1, <3>2 DEF LogInv, LogTypes
    <3>4. {logFile'[i] : i \in 1 .. Len(logFile')}
            = {logFile[i] : i \in 1 .. Len(logFile)} \cup {queue[1]}
      BY <3>1, <3>2
    <3> QED BY <1>2, <1>4, <3>3, <3>4 DEF Lines
  <2>3. ASSUME NEW k \in 2 .. Len(queue) + 1
        PROVE  Before(queue, logFile, k) \subseteq Before(queue', logFile', k - 1)
    <3> SUFFICES ASSUME NEW i \in 1 .. k - 1 PROVE queue[i] \in Before(queue', logFile', k - 1)
      BY <2>2 DEF Before
    <3>1. CASE i = 1 BY <2>2, <3>1 DEF Before
    <3>2. CASE i # 1
      <4>1. i - 1 \in 1 .. (k - 1) - 1 /\ i - 1 \in 1 .. Len(queue) - 1 BY <1>2, <3>2
      <4>2. queue'[i - 1] = queue[i] BY <1>2, <4>1
      <4> QED BY <4>1, <4>2 DEF Before
    <3> QED BY <3>1, <3>2
  <2>4. Ongoing'
    <3> SUFFICES ASSUME guard \in {"none", "held"}
                 PROVE  /\ \A i \in 1 .. Len(queue') : queue'[i] # ShutdownMsg
                        /\ told \subseteq Before(queue', logFile', Len(queue') + 1)
      BY <1>1, <2>1 DEF Ongoing, Before
    <3>1. /\ told \subseteq Before(queue, logFile, Len(queue) + 1)
          /\ \A i \in 1 .. Len(queue) : queue[i] # ShutdownMsg
      BY DEF LogInv, Ongoing
    <3>2. Len(queue) + 1 \in 2 .. Len(queue) + 1 /\ (Len(queue) + 1) - 1 = Len(queue') + 1
      BY <1>2
    <3>3. told \subseteq Before(queue', logFile', (Len(queue) + 1) - 1) BY <2>3, <3>1, <3>2
    <3>4. \A i \in 1 .. Len(queue') : i + 1 \in 1 .. Len(queue) /\ i \in 1 .. Len(queue) - 1
      BY <1>2
    <3> QED BY <1>2, <3>1, <3>2, <3>3, <3>4 DEF Before
  <2>5. Closing'
    <3> SUFFICES ASSUME guard = "closing"
                 PROVE  \E k \in 1 .. Len(queue') :
                          /\ queue'[k] = ShutdownMsg
                          /\ \A i \in 1 .. k - 1 : queue'[i] # ShutdownMsg
                          /\ told \subseteq Before(queue', logFile', k)
      BY <1>1 DEF Closing, Before
    <3>1. PICK k \in 1 .. Len(queue) :
            /\ queue[k] = ShutdownMsg
            /\ \A i \in 1 .. k - 1 : queue[i] # ShutdownMsg
            /\ told \subseteq Before(queue, logFile, k)
      BY <1>1 DEF LogInv, Closing
    <3>2. k \in 2 .. Len(queue) + 1 /\ k - 1 \in 1 .. Len(queue') BY <1>2, <1>4, <3>1
    <3>3. told \subseteq Before(queue', logFile', k - 1) BY <2>3, <3>1, <3>2
    <3>4. queue'[k - 1] = ShutdownMsg BY <1>2, <3>1, <3>2
    <3>5. ASSUME NEW i \in 1 .. (k - 1) - 1 PROVE queue'[i] # ShutdownMsg
      <4>1. i \in 1 .. Len(queue) - 1 /\ i + 1 \in 1 .. k - 1 BY <1>2, <3>2
      <4> QED BY <1>2, <3>1, <4>1
    <3> QED BY <3>2, <3>3, <3>4, <3>5
  <2>6. Closed' BY <1>1, <2>1 DEF LogInv, Closed
  <2> QED BY <1>1, <2>1, <2>2, <2>4, <2>5, <2>6 DEF LogInv
<1> QED BY <1>3, <1>4

\* main closes the log.
LEMMA CloseSteps ==
  ASSUME LogInv, CloseLog
  PROVE  LogInv'
<1>1. phase = "over" /\ phase' = phase /\ told' = told BY DEF CloseLog, mainVars
<1>2. CASE DropGuard
  <2>1. /\ guard = "held" /\ guard' = "closing" /\ queue' = Append(queue, ShutdownMsg)
        /\ UNCHANGED <<worker, logged, logFile, late>>
    BY <1>2 DEF DropGuard
  <2>2. Len(queue) \in Nat /\ queue \in Seq(Msgs) /\ ShutdownMsg \in Msgs
    BY LenProperties DEF LogInv, LogTypes, Msgs
  <2>3. /\ queue' \in Seq(Msgs) /\ Len(queue') = Len(queue) + 1
        /\ \A i \in 1 .. Len(queue) : queue'[i] = queue[i]
        /\ queue'[Len(queue) + 1] = ShutdownMsg
    BY <2>1, <2>2, AppendProperties
  <2>4. LogTypes' BY <2>1, <2>3 DEF LogInv, LogTypes
  <2>5. /\ worker = "runs" /\ told \subseteq Before(queue, logFile, Len(queue) + 1)
        /\ \A i \in 1 .. Len(queue) : queue[i] # ShutdownMsg
    BY <2>1 DEF LogInv, Ongoing
  <2>6. Closing'
    <3> DEFINE k == Len(queue) + 1
    <3>1. k \in 1 .. Len(queue') /\ k - 1 = Len(queue) BY <2>2, <2>3
    <3>2. Before(queue, logFile, k) \subseteq Before(queue', logFile', k)
      BY <2>1, <2>2, <2>3 DEF Before, Lines
    <3>3. told \subseteq Before(queue', logFile', k) BY <2>5, <3>2
    <3>4. queue'[k] = ShutdownMsg /\ \A i \in 1 .. k - 1 : queue'[i] # ShutdownMsg
      BY <2>3, <2>5, <3>1
    <3> HIDE DEF k
    <3> QED BY <1>1, <3>1, <3>3, <3>4 DEF Closing, Before
  <2> QED BY <1>1, <2>1, <2>4, <2>5, <2>6 DEF LogInv, Ongoing, Closed
<1>3. CASE GuardDone
  <2>1. /\ guard = "closing" /\ worker = "stopped" /\ guard' = "dropped"
        /\ UNCHANGED <<worker, logged, queue, logFile, late>>
    BY <1>3 DEF GuardDone
  <2> QED BY <1>1, <2>1 DEF LogInv, LogTypes, Ongoing, Closing, Closed, Lines
<1>4. CASE GuardTimesOut
  <2>1. guard' = "dropped" /\ late' = TRUE /\ UNCHANGED <<worker, logged, queue, logFile>>
    BY <1>4 DEF GuardTimesOut
  <2> QED BY <1>1, <2>1 DEF LogInv, LogTypes, Ongoing, Closing, Closed
<1> QED BY <1>2, <1>3, <1>4 DEF CloseLog

\* When the process has ended the log file holds every line told of, unless the disk was
\* slower than the guard waits: for any number of tasks and lines and any queue.
THEOREM LogSurvives == Spec => []LogSurvivesExit
<1>1. Init => LogInv
  <2> SUFFICES ASSUME Init PROVE LogInv OBVIOUS
  <2>1. queue = <<>> /\ logFile = <<>> /\ told = {} BY DEF Init, LogInit
  <2>2. <<>> \in Seq(Msgs) /\ Len(<<>>) = 0 BY EmptySeq
  <2>3. LogTypes BY <2>1, <2>2 DEF Init, LogInit, LogTypes
  <2> QED BY <2>1, <2>2, <2>3 DEF Init, LogInit, LogInv, Ongoing, Closing, Closed
<1>2. LogInv /\ [Next]_vars => LogInv'
  <2> SUFFICES ASSUME LogInv, [Next]_vars PROVE LogInv' OBVIOUS
  <2>1. ASSUME NEW f \in Fields, NEW v \in Values[f], GiveFlag(f, v) \/ WriteFile(f, v)
        PROVE  LogInv'
    BY <2>1, OtherSteps DEF GiveFlag, WriteFile, MaySet
  <2>2. CASE Merge \/ Validate \/ StartDashboard \/ StartListener
    BY <2>2, OtherSteps DEF Merge, Validate, StartDashboard, StartListener
  <2>3. CASE StartLogging
    <3>1. guard = "none" /\ guard' = "held" /\ phase' = phase /\ phase = "started"
          /\ UNCHANGED <<worker, logged, queue, logFile, late, told>>
      BY <2>3 DEF StartLogging, InitTracing, mainVars
    <3> QED BY <3>1 DEF LogInv, LogTypes, Ongoing, Closing, Closed, Before, Lines
  <2>4. CASE Return BY <2>4, ReturnSteps
  <2>5. CASE CloseLog BY <2>5, CloseSteps
  <2>6. CASE Exit BY <2>6, OtherSteps DEF Exit
  <2>7. CASE Background
    <3>1. told' = told /\ phase' = phase BY <2>7 DEF Background, mainVars
    <3> QED BY <2>7, <3>1, WorkSteps, ReportSteps DEF Background
  <2>8. CASE UNCHANGED vars BY <2>8, OtherSteps DEF vars, mainVars, LogInv
  <2> QED BY <2>1, <2>2, <2>3, <2>4, <2>5, <2>6, <2>7, <2>8 DEF Next
<1>3. LogInv => LogSurvivesExit BY DEF LogInv, Closed, LogSurvivesExit
<1> QED BY <1>1, <1>2, <1>3, PTL DEF Spec
=============================================================================
