------------------------------- MODULE Logging -------------------------------
(***************************************************************************)
(* src/logger.rs: an event is shown on the terminal by the task that       *)
(* reports it and put on the bounded queue of tracing_appender, whose      *)
(* worker thread writes the log file.  Dropping the WorkerGuard puts a     *)
(* shutdown message behind the lines queued, for which there must be room  *)
(* within 100 ms, and waits up to a second for the worker to get there.    *)
(* The queue, the worker and the guard are the library's, not src's.       *)
(*                                                                         *)
(* Abstracted: the terminal, RUST_LOG (the lines are those it lets         *)
(* through), the text of a line.                                           *)
(***************************************************************************)
EXTENDS Naturals, Sequences

CONSTANTS
  Loggers,   \* the tasks that report events
  QueueCap,  \* lines the queue holds (128 000)
  MaxLines   \* bound: events of each task

ASSUME LoggingAssumption == QueueCap \in Nat \ {0} /\ MaxLines \in Nat

VARIABLES
  guard,    \* "none" (no subscriber yet), "held", "closing" or "dropped"
  worker,   \* "runs" or "stopped"
  logged,   \* [Loggers -> 0 .. MaxLines]: events reported
  queue,    \* lines <<logger, number>>, and perhaps ShutdownMsg
  logFile,  \* the lines written
  late      \* a timeout of the guard has expired

logVars == <<guard, worker, logged, queue, logFile, late>>

ShutdownMsg == <<>>

LogInit ==
  /\ guard = "none" /\ worker = "runs"
  /\ logged = [l \in Loggers |-> 0]
  /\ queue = <<>> /\ logFile = <<>> /\ late = FALSE

\* main holds the guard that init_tracing returns.  (Mutant: let _ drops it at once.)
InitUnheld ==
  /\ guard = "none" /\ guard' = "closing" /\ queue' = <<ShutdownMsg>>
  /\ UNCHANGED <<worker, logged, logFile, late>>
InitTracing ==
  /\ guard = "none" /\ guard' = "held"
  /\ UNCHANGED <<worker, logged, queue, logFile, late>>

\* A line that finds the queue full is dropped.
Report(l) ==
  /\ guard # "none" /\ logged[l] < MaxLines
  /\ logged' = [logged EXCEPT ![l] = @ + 1]
  /\ queue' = IF Len(queue) < QueueCap THEN Append(queue, <<l, logged[l] + 1>>) ELSE queue
  /\ UNCHANGED <<guard, worker, logFile, late>>

Work ==
  /\ worker = "runs" /\ queue # <<>>
  /\ queue' = Tail(queue)
  /\ IF Head(queue) = ShutdownMsg
       THEN worker' = "stopped" /\ UNCHANGED logFile
       ELSE logFile' = Append(logFile, Head(queue)) /\ UNCHANGED worker
  /\ UNCHANGED <<guard, logged, late>>

\* The guard is dropped: a shutdown message, and the wait for the worker.
DropGuard ==
  /\ guard = "held" /\ Len(queue) < QueueCap
  /\ queue' = Append(queue, ShutdownMsg) /\ guard' = "closing"
  /\ UNCHANGED <<worker, logged, logFile, late>>
GuardDone ==
  /\ guard = "closing" /\ worker = "stopped" /\ guard' = "dropped"
  /\ UNCHANGED <<worker, logged, queue, logFile, late>>
GuardTimesOut ==
  /\ guard \in {"held", "closing"} /\ worker = "runs"
  /\ guard = "held" => Len(queue) = QueueCap
  /\ guard' = "dropped" /\ late' = TRUE
  /\ UNCHANGED <<worker, logged, queue, logFile>>

\* The lines in a queue or a file.
Lines(q) == {q[i] : i \in 1 .. Len(q)} \ {ShutdownMsg}
=============================================================================
