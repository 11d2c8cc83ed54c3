------------------------------ MODULE Console ------------------------------
(***************************************************************************)
(* The console of the client (src/Utils/Console.cpp): a UI thread that waits *)
(* for keys, for output and for the stop event, and two queues between it   *)
(* and the other threads.  A step is what a thread does between two points  *)
(* where another one can come in: a lock section, an atomic, an event, the  *)
(* condition variable.  What a line says is left out: of the output queue   *)
(* only whether there is something in it.                                   *)
(***************************************************************************)
EXTENDS Integers, Sequences

CONSTANTS
  Lines,        \* what the user types
  MaxCommands   \* bound: lines waiting in m_commandQueue
ASSUME MaxCommandsAssumption == MaxCommands \in Nat

VARIABLES
  running, started,           \* m_running, m_started
  output,                     \* m_outputQueue is not empty
  outputEvent, stopEvent,     \* the two events are signalled
  commands,                   \* m_commandQueue
  commandLocked,              \* the reader is in wait(), not blocked yet, m_commandMutex held
  reader,                     \* where the thread that calls ReadLine is in it
  entered, line,              \* the line being queued, and the line read
  ui                          \* where the UI thread is

outputVars  == <<output, outputEvent>>
stopVars    == <<running, started, stopEvent>>
commandVars == <<commands, commandLocked, reader>>
lineVars    == <<entered, line>>
consoleVars == <<outputVars, stopVars, commandVars, lineVars, ui>>

NoLine == "none"

ConsoleInit ==
  /\ running = FALSE /\ started = FALSE
  /\ output = FALSE /\ outputEvent = FALSE /\ stopEvent = FALSE
  /\ commands = <<>> /\ commandLocked = FALSE /\ reader = "out"
  /\ entered = NoLine /\ line = NoLine
  /\ ui = "none"

\* Start: the events are made and the UI thread begins, unless the process has no
\* standard handles.
Start ==
  \/ /\ running' = TRUE /\ started' = TRUE
     /\ ui' = "check"
     /\ UNCHANGED <<outputVars, stopEvent, commandVars, lineVars>>
  \/ UNCHANGED consoleVars

-----------------------------------------------------------------------------
(* QueueOutput, called by any thread: push under the lock, then SetEvent.   *)
(* A console that is not started writes the text itself, and has no event   *)
(* to set: not yet, or no more since the stop came in between.              *)

PushOutput ==
  /\ output' = (output \/ started)
  /\ UNCHANGED <<outputEvent, stopVars, commandVars, lineVars>>

SignalOutput ==
  /\ outputEvent' = started
  /\ UNCHANGED <<output, stopVars, commandVars, lineVars>>

-----------------------------------------------------------------------------
(* ReadLine.  The predicate of m_commandCv.wait is tested with the mutex    *)
(* held, and the mutex is held until the thread is on the waiting list.     *)

ReadTest ==
  /\ reader = "test"
  /\ IF commands # <<>>
     THEN /\ line' = Head(commands) /\ commands' = Tail(commands)
          /\ reader' = "line"
          /\ UNCHANGED commandLocked
     ELSE /\ reader' = IF running THEN "block" ELSE "stopped"
          /\ commandLocked' = running
          /\ UNCHANGED <<commands, line>>
  /\ UNCHANGED <<outputVars, stopVars, entered, ui>>

ReadBlock ==
  /\ reader = "block"
  /\ reader' = "blocked"
  /\ commandLocked' = FALSE
  /\ UNCHANGED <<outputVars, stopVars, commands, lineVars, ui>>

\* notify_one and notify_all: one thread reads at most.
Notify == reader' = IF reader = "blocked" THEN "test" ELSE reader

-----------------------------------------------------------------------------
(* The UI thread.                                                           *)

\* Mutant: the thread ends on the stop event only.
UiCheckMutant ==
  /\ ui = "check"
  /\ ui' = "wait"
  /\ UNCHANGED <<outputVars, stopVars, commandVars, lineVars>>

UiCheck ==
  /\ ui = "check"
  /\ ui' = IF running THEN "wait" ELSE "done"
  /\ UNCHANGED <<outputVars, stopVars, commandVars, lineVars>>

\* WaitForMultipleObjects returns the first handle signalled: a record in the
\* console's input, if there is one, comes before the two events.
UiWait ==
  /\ ui = "wait"
  /\ \/ outputEvent /\ ui' = "reset"
     \/ ~outputEvent /\ stopEvent /\ ui' = "last"
  /\ UNCHANGED <<outputVars, stopVars, commandVars, lineVars>>

\* A record is read, one a pass: Enter queues the line, any other only edits it
\* or scrolls.
UiKeys ==
  /\ ui = "wait"
  /\ \/ ui' = "drain" /\ UNCHANGED entered
     \/ /\ Len(commands) < MaxCommands
        /\ entered' \in Lines
        /\ ui' = "echo"
  /\ UNCHANGED <<outputVars, stopVars, commandVars, line>>

\* QueueCommand: the line is echoed, queued, and the reader woken.
UiEcho ==
  \/ ui = "echo" /\ PushOutput /\ ui' = "echoed"
  \/ ui = "echoed" /\ SignalOutput /\ ui' = "queue"

UiQueue ==
  /\ ui = "queue"
  /\ ~commandLocked
  /\ commands' = Append(commands, entered)
  /\ entered' = NoLine
  /\ ui' = "notify"
  /\ UNCHANGED <<outputVars, stopVars, commandLocked, reader, line>>

\* Mutant: nobody is told of the line.
UiNotifyMutant ==
  /\ ui = "notify"
  /\ ui' = "drain"
  /\ UNCHANGED <<outputVars, stopVars, commandVars, lineVars>>

UiNotify ==
  /\ ui = "notify"
  /\ Notify
  /\ ui' = "drain"
  /\ UNCHANGED <<outputVars, stopVars, commands, commandLocked, lineVars>>

\* Mutant: the event is reset when the queue has been emptied.
UiResetMutant ==
  \/ /\ ui = "reset"
     /\ output' = FALSE
     /\ ui' = "reset late"
     /\ UNCHANGED <<outputEvent, stopVars, commandVars, lineVars>>
  \/ /\ ui = "reset late"
     /\ outputEvent' = FALSE
     /\ ui' = "check"
     /\ UNCHANGED <<output, stopVars, commandVars, lineVars>>

UiReset ==
  /\ ui = "reset"
  /\ outputEvent' = FALSE
  /\ ui' = "drain"
  /\ UNCHANGED <<output, stopVars, commandVars, lineVars>>

\* DrainOutputQueue: everything queued is swapped out and rendered.
UiDrain ==
  /\ ui \in {"drain", "last"}
  /\ output' = FALSE
  /\ ui' = IF ui = "last" THEN "done" ELSE "check"
  /\ UNCHANGED <<outputEvent, stopVars, commandVars, lineVars>>

Ui == UiCheck \/ UiWait \/ UiEcho \/ UiQueue \/ UiNotify \/ UiReset \/ UiDrain

=============================================================================
