------------------------------- MODULE Client -------------------------------
(***************************************************************************)
(* The client program: the console, the receiving thread, the thread of     *)
(* CommandProcessor::Run and the main loop (src/main.cpp), from the start    *)
(* to the return of main.  The other shared state is Player's: m_deleted and *)
(* whether m_recvThread is joinable.                                        *)
(***************************************************************************)
EXTENDS Console, Receiver

VARIABLES
  main, input,          \* where the two threads are
  deleted, joinable,    \* Player: m_deleted, m_recvThread.joinable()
  handled               \* the pack DoOneTask handled last

playerVars == <<deleted, joinable>>
vars == <<consoleVars, receiverVars, main, input, playerVars, handled>>

Init ==
  /\ ConsoleInit /\ ReceiverInit
  /\ main = "start" /\ input = "none"
  /\ deleted = FALSE /\ joinable = FALSE
  /\ handled = NoPack

Expired == deleted \/ ~joinable

\* A thread prints a line: from, then SetEvent, then on to what follows.
MainPrints(from, signal, to) ==
  /\ \/ main = from /\ PushOutput /\ main' = IF started THEN signal ELSE to
     \/ main = signal /\ SignalOutput /\ main' = to
  /\ UNCHANGED <<ui, receiverVars, input, playerVars, handled>>

InputPrints(from, signal, to) ==
  /\ \/ input = from /\ PushOutput /\ input' = IF started THEN signal ELSE to
     \/ input = signal /\ SignalOutput /\ input' = to
  /\ UNCHANGED <<ui, receiverVars, main, playerVars, handled>>

-----------------------------------------------------------------------------
(* main: start and connection.                                              *)

MainStart ==
  /\ main = "start"
  /\ Start
  /\ main' = "banner"
  /\ UNCHANGED <<receiverVars, input, playerVars, handled>>

\* The connection is made, and Player's constructor starts the receiving thread;
\* or WSAStartup, getaddrinfo, socket or connect fails.
MainConnect ==
  /\ main = "connect"
  /\ \/ main' = "error" /\ UNCHANGED <<recv, input, joinable>>
     \/ /\ main' = "loop" /\ recv' = "recv" /\ input' = "check"
        /\ joinable' = TRUE
  /\ UNCHANGED <<consoleVars, socket, read, buffer, taskVars, deleted, handled>>

MainOpens ==
  \/ MainStart
  \/ MainPrints("banner", "banner event", "connect")
  \/ MainConnect
  \/ MainPrints("error", "error event", "stop")

-----------------------------------------------------------------------------
(* main: the loop.                                                          *)

MainLoop ==
  /\ main = "loop"
  /\ main' = IF Expired THEN "stop" ELSE "task"
  /\ UNCHANGED <<consoleVars, receiverVars, input, playerVars, handled>>

\* DoOneTask: most packs print something, some do not.
MainTask ==
  /\ main = "task"
  /\ \/ NoTask /\ main' = "loop"
     \/ PopTask /\ main' \in {"handle", "handled"}
  /\ UNCHANGED <<consoleVars, input, playerVars, handled>>

MainHandled ==
  /\ main = "handled"
  /\ handled' = task
  /\ TaskDone
  /\ main' = "task"
  /\ UNCHANGED <<consoleVars, input, playerVars>>

MainLoops ==
  MainLoop \/ MainTask \/ MainPrints("handle", "handle event", "handled") \/ MainHandled

-----------------------------------------------------------------------------
(* main: Console::Stop, and the join of the input thread.                   *)

\* m_running is cleared, without m_commandMutex.  A console that never started is
\* left alone.
StopRunning ==
  /\ main = "stop"
  /\ running' = FALSE
  /\ main' = IF started THEN "notify" ELSE "join input"
  /\ UNCHANGED <<outputVars, started, stopEvent, commandVars, lineVars, ui,
                 receiverVars, input, playerVars, handled>>

StopNotify ==
  /\ main = "notify"
  /\ Notify
  /\ main' = "stop event"
  /\ UNCHANGED <<outputVars, stopVars, commands, commandLocked, lineVars, ui,
                 receiverVars, input, playerVars, handled>>

StopEvents ==
  /\ \/ /\ main = "stop event"
        /\ stopEvent' = TRUE /\ UNCHANGED outputEvent
        /\ main' = "output event"
     \/ /\ main = "output event"
        /\ outputEvent' = TRUE /\ UNCHANGED stopEvent
        /\ main' = "join ui"
  /\ UNCHANGED <<output, running, started, commandVars, lineVars, ui,
                 receiverVars, input, playerVars, handled>>

\* The UI thread is joined and the two events are closed.
StopJoin ==
  /\ main = "join ui"
  /\ ui = "done"
  /\ started' = FALSE /\ outputEvent' = FALSE /\ stopEvent' = FALSE
  /\ main' = "join input"
  /\ UNCHANGED <<output, running, commandVars, lineVars, ui,
                 receiverVars, input, playerVars, handled>>

\* A main that never connected has no thread to join.
MainJoin ==
  /\ main = "join input"
  /\ input \in {"none", "done"}
  /\ main' = "done"
  /\ UNCHANGED <<consoleVars, receiverVars, input, playerVars, handled>>

MainStops == StopRunning \/ StopNotify \/ StopEvents \/ StopJoin \/ MainJoin

Main == MainOpens \/ MainLoops \/ MainStops

-----------------------------------------------------------------------------
(* CommandProcessor::Run.                                                   *)

\* Mutant: the thread reads on, whatever has become of the player.
InputCheckMutant ==
  /\ input = "check"
  /\ input' = "read" /\ reader' = "test"
  /\ UNCHANGED <<outputVars, stopVars, commands, commandLocked, lineVars, ui,
                 receiverVars, main, playerVars, handled>>

InputCheck ==
  /\ input = "check"
  /\ IF Expired THEN input' = "done" /\ UNCHANGED reader
     ELSE input' = "read" /\ reader' = "test"
  /\ UNCHANGED <<outputVars, stopVars, commands, commandLocked, lineVars, ui,
                 receiverVars, main, playerVars, handled>>

\* ReadLine returns: HandleLine, which prints, sends, both or neither; or the
\* end of the thread.
InputRead ==
  /\ input = "read"
  /\ reader \in {"line", "stopped"}
  /\ input' \in CASE reader = "stopped" -> {"done"}
                  [] reader = "line" /\ line = "QUIT" -> {"delete"}
                  [] OTHER -> {"text", "send"}
  /\ reader' = "out" /\ line' = NoLine
  /\ UNCHANGED <<outputVars, stopVars, commands, commandLocked, entered, ui,
                 receiverVars, main, playerVars, handled>>

\* Player::Send: it may fail, and always does when the server is gone for good.
InputSend ==
  /\ input = "send"
  /\ \/ input' = "check"
     \/ ~Expired /\ input' = "delete"
  /\ UNCHANGED <<consoleVars, receiverVars, main, playerVars, handled>>

\* Player::Delete: m_deleted first, then the message, detach, closesocket.
InputDelete ==
  /\ input = "delete"
  /\ deleted' = TRUE
  /\ input' = "tell"
  /\ UNCHANGED <<consoleVars, receiverVars, main, joinable, handled>>

InputClose ==
  /\ input = "close"
  /\ joinable' = FALSE /\ socket' = "closed"
  /\ input' = "check"
  /\ UNCHANGED <<consoleVars, recvVars, taskVars, main, deleted, handled>>

Reading == (ReadTest \/ ReadBlock) /\ UNCHANGED <<receiverVars, main, input, playerVars, handled>>

Input ==
  \/ InputCheck \/ Reading \/ InputRead
  \/ InputPrints("text", "text event", "send") \/ InputSend
  \/ InputDelete \/ InputPrints("tell", "tell event", "close")
  \/ InputClose

-----------------------------------------------------------------------------

UiThread   == Ui /\ UNCHANGED <<receiverVars, main, input, playerVars, handled>>
User       == UiKeys /\ UNCHANGED <<receiverVars, main, input, playerVars, handled>>
RecvThread == main # "done" /\ RecvJob(deleted) /\ UNCHANGED <<consoleVars, main, input, playerVars, handled>>

Next == Main \/ Input \/ UiThread \/ User \/ RecvThread

\* Every thread that can go on goes on.  The user need not type, nor the server
\* send: nothing is asked of the steps that wait for them.
Spec ==
  /\ Init /\ [][Next]_vars
  /\ WF_vars(Main) /\ WF_vars(Input) /\ WF_vars(UiThread)

-----------------------------------------------------------------------------
(* Properties.                                                              *)

\* What DoOneTask handles is what was received, each pack at most once and in
\* the order of the stream, although the reference it keeps points to an element
\* it has popped (NetPackHandler.cpp:13-23).
HandledInOrder ==
  [][main = "handled" /\ main' = "task" => task > handled]_vars

\* The UI thread goes to sleep on an output that is queued only if its event is
\* signalled or the thread that queued it is about to (Console.cpp:184-189,
\* 274-284).
OutputIsSignalled ==
  ui \in {"check", "wait"} /\ output /\ running =>
    \/ outputEvent
    \/ main \in {"banner event", "error event", "handle event"}
    \/ input \in {"text event", "tell event"}

\* Console::Stop clears m_running and notifies without the mutex, so a reader
\* about to block would sleep for ever.  There is none: main stops the console
\* only when the input thread itself has deleted the player and reads no more,
\* and where no console was started ReadLine fails at once (Console.cpp:123-124,
\* 156-158; main.cpp:74-85; CommandProcessor.cpp:19-25).
StopMeetsNoReader == reader \in {"block", "blocked"} => running

\* Once the player is deleted, by QUIT or by a failed send, the program ends,
\* whatever the user types and the server sends (main.cpp:74-86).
QuitEnds == deleted ~> main = "done"

\* What is printed is rendered unless the console is stopped (Console.cpp:173-190,
\* 231-288).
OutputIsShown == output ~> ~output \/ ~running

\* A line entered is read unless the console is stopped (Console.cpp:153-166,
\* 219-229; CommandProcessor.cpp:17-26).
LinesAreRead == commands # <<>> ~> commands = <<>> \/ ~running

\* A pack queued is handled unless the console is stopped (main.cpp:74-83).
TasksAreHandled == tasks # <<>> ~> tasks = <<>> \/ ~running

\* When the connection fails the program is to "print an error message"
\* (main.cpp:60-62): what was printed is on the screen when it ends.
FailureIsPrinted == main = "done" /\ input = "none" => ~output

=============================================================================
