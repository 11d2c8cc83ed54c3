---------------------------- MODULE ClientProofs ----------------------------
(***************************************************************************)
(* Proofs about Client.tla, for any lines the user types, any number waiting  *)
(* and any stream of packs: no reader sleeps through the stop of the console, *)
(* the UI thread never sleeps on a queued output, and packs are handled in    *)
(* the order they were received, although DoOneTask keeps a reference to an   *)
(* element it has popped.                                                    *)
(***************************************************************************)
EXTENDS Client, SequenceTheorems, TLAPS

\* The places of main before the connection, with a pack in hand, and after it
\* began to stop the console.
Opening  == {"start", "banner", "banner event", "connect", "error", "error event"}
Handling == {"handle", "handle event", "handled"}
Looping  == {"loop", "task"} \cup Handling
Stopping == {"stop", "notify", "stop event", "output event", "join ui", "join input", "done"}

-----------------------------------------------------------------------------
(* Who still runs: what keeps readers and Console::Stop apart.              *)

\* The input thread reads in state "read" alone, and no more once the player is
\* deleted.  Before the connection there is no such thread, and main stops the
\* console only when the connection failed or the player is deleted.  A reader about
\* to sleep, or asleep, has found the console running.
Lifetimes ==
  /\ main \in Opening \cup Looping \cup Stopping
  /\ reader # "out" => input = "read"
  /\ main \in Opening => input = "none"
  /\ main \in Looping => joinable \/ deleted
  /\ main \in Stopping => input = "none" \/ deleted
  /\ deleted => input \in {"tell", "tell event", "close", "check", "done"}
  /\ input \in {"tell", "tell event", "close"} => deleted
  /\ reader \in {"block", "blocked"} => running
  /\ main = "start" => ui = "none"

\* At the start the queues stand and nobody reads yet.
LEMMA LifetimesInit == Init => Lifetimes
  BY DEF Init, ConsoleInit, Lifetimes, Opening, Looping, Stopping, Handling

\* A step of the main thread frees nothing that is still read.
LEMMA LifetimesMain == Lifetimes /\ Main => Lifetimes'
<1> SUFFICES ASSUME Lifetimes, Main PROVE Lifetimes'
    OBVIOUS
<1> USE DEF Lifetimes, Opening, Looping, Stopping, Handling
<1>1. CASE MainStart
    BY <1>1 DEF MainStart, Start, receiverVars, playerVars, commandVars, consoleVars, stopVars
<1>2. ASSUME NEW from, NEW signal, NEW to, MainPrints(from, signal, to)
      PROVE  /\ running' = running /\ reader' = reader /\ input' = input
             /\ deleted' = deleted /\ joinable' = joinable
             /\ \/ main = from /\ main' \in {signal, to}
                \/ main = signal /\ main' = to
    BY <1>2 DEF MainPrints, PushOutput, SignalOutput, stopVars, commandVars, playerVars
<1>12. CASE MainPrints("banner", "banner event", "connect")
  <2>1. \/ main = "banner" /\ main' \in {"banner event", "connect"}
        \/ main = "banner event" /\ main' = "connect"
      BY <1>2, <1>12
  <2>2. running' = running /\ reader' = reader /\ input' = input /\ deleted' = deleted
        /\ joinable' = joinable
      BY <1>2, <1>12
  <2> QED BY <2>1, <2>2
<1>13. CASE MainPrints("error", "error event", "stop")
  <2>1. \/ main = "error" /\ main' \in {"error event", "stop"}
        \/ main = "error event" /\ main' = "stop"
      BY <1>2, <1>13
  <2>2. running' = running /\ reader' = reader /\ input' = input /\ deleted' = deleted
        /\ joinable' = joinable
      BY <1>2, <1>13
  <2> QED BY <2>1, <2>2
<1>14. CASE MainPrints("handle", "handle event", "handled")
  <2>1. \/ main = "handle" /\ main' \in {"handle event", "handled"}
        \/ main = "handle event" /\ main' = "handled"
      BY <1>2, <1>14
  <2>2. running' = running /\ reader' = reader /\ input' = input /\ deleted' = deleted
        /\ joinable' = joinable
      BY <1>2, <1>14
  <2> QED BY <2>1, <2>2
<1>3. CASE MainConnect
    BY <1>3 DEF MainConnect, consoleVars, commandVars, stopVars
<1>4. CASE MainLoop
    BY <1>4 DEF MainLoop, Expired, consoleVars, commandVars, stopVars, playerVars
<1>5. CASE MainTask
    BY <1>5 DEF MainTask, consoleVars, commandVars, stopVars, playerVars
<1>6. CASE MainHandled
    BY <1>6 DEF MainHandled, consoleVars, commandVars, stopVars, playerVars
<1>7. CASE StopRunning
    BY <1>7 DEF StopRunning, commandVars, playerVars
<1>8. CASE StopNotify
    BY <1>8 DEF StopNotify, Notify, stopVars, playerVars
<1>9. CASE StopEvents
    BY <1>9 DEF StopEvents, commandVars, playerVars
<1>10. CASE StopJoin
    BY <1>10 DEF StopJoin, commandVars, playerVars
<1>11. CASE MainJoin
    BY <1>11 DEF MainJoin, consoleVars, commandVars, stopVars, playerVars
<1> QED BY <1>1, <1>3, <1>4, <1>5, <1>6, <1>7, <1>8, <1>9, <1>10, <1>11, <1>12, <1>13, <1>14
        DEF Main, MainOpens, MainLoops, MainStops

\* Nor does one of the input thread.
LEMMA LifetimesInput == Lifetimes /\ Input => Lifetimes'
<1> SUFFICES ASSUME Lifetimes, Input PROVE Lifetimes'
    OBVIOUS
<1> USE DEF Lifetimes, Opening, Looping, Stopping, Handling, stopVars, playerVars
<1>1. CASE InputCheck
    BY <1>1 DEF InputCheck, Expired
<1>2. CASE Reading
    BY <1>2 DEF Reading, ReadTest, ReadBlock
<1>3. CASE InputRead
    BY <1>3 DEF InputRead
<1>4. ASSUME NEW from, NEW signal, NEW to, InputPrints(from, signal, to)
      PROVE  /\ running' = running /\ reader' = reader /\ main' = main
             /\ deleted' = deleted /\ joinable' = joinable
             /\ \/ input = from /\ input' \in {signal, to}
                \/ input = signal /\ input' = to
    BY <1>4 DEF InputPrints, PushOutput, SignalOutput, commandVars
<1>8. CASE InputPrints("text", "text event", "send")
  <2>1. \/ input = "text" /\ input' \in {"text event", "send"}
        \/ input = "text event" /\ input' = "send"
      BY <1>4, <1>8
  <2>2. running' = running /\ reader' = reader /\ main' = main /\ deleted' = deleted
        /\ joinable' = joinable
      BY <1>4, <1>8
  <2> QED BY <2>1, <2>2
<1>9. CASE InputPrints("tell", "tell event", "close")
    BY <1>4, <1>9
<1>5. CASE InputSend
    BY <1>5 DEF InputSend, Expired, consoleVars, commandVars
<1>6. CASE InputDelete
    BY <1>6 DEF InputDelete, consoleVars, commandVars
<1>7. CASE InputClose
    BY <1>7 DEF InputClose, consoleVars, commandVars
<1> QED BY <1>1, <1>2, <1>3, <1>5, <1>6, <1>7, <1>8, <1>9 DEF Input

\* The other threads neither start nor stop anybody.
LEMMA LifetimesOthers ==
  Lifetimes /\ (UiThread \/ User \/ RecvThread \/ UNCHANGED vars) => Lifetimes'
<1> SUFFICES ASSUME Lifetimes, UiThread \/ User \/ RecvThread \/ UNCHANGED vars
             PROVE  Lifetimes'
    OBVIOUS
<1> USE DEF Lifetimes, Opening, Looping, Stopping, Handling, stopVars, playerVars
<1>1. CASE UiThread
  <2>1. /\ UNCHANGED <<main, input, deleted, joinable, running>>
        /\ reader' # reader => reader = "blocked"
        /\ ui # "none"
      BY <1>1 DEF UiThread, Ui, UiCheck, UiWait, UiEcho, UiQueue, UiNotify, UiReset, UiDrain,
                  PushOutput, SignalOutput, Notify, commandVars
  <2> QED BY <2>1
<1>2. CASE User
    BY <1>2 DEF User, UiKeys, commandVars
<1>3. CASE RecvThread
    BY <1>3 DEF RecvThread, consoleVars, commandVars
<1>4. CASE UNCHANGED vars
    BY <1>4 DEF vars, consoleVars, commandVars
<1> QED BY <1>1, <1>2, <1>3, <1>4

\* Every step keeps the threads where they may be.
THEOREM LifetimesHold == Spec => []Lifetimes
<1>1. Lifetimes /\ [Next]_vars => Lifetimes'
    BY LifetimesMain, LifetimesInput, LifetimesOthers DEF Next
<1> QED BY <1>1, LifetimesInit, PTL DEF Spec

\* Console::Stop clears m_running and notifies without the mutex; nobody is reading
\* then, so no reader misses it (Console.cpp:123-124, 156-158).
THEOREM StopMeetsNobody == Spec => []StopMeetsNoReader
<1>1. Lifetimes => StopMeetsNoReader
    BY DEF Lifetimes, StopMeetsNoReader
<1> QED BY <1>1, LifetimesHold, PTL

-----------------------------------------------------------------------------
(* Who still signals: what keeps the UI thread from sleeping on an output.  *)

\* The console is up as long as its UI thread runs.
Signalled ==
  /\ OutputIsSignalled
  /\ main = "start" => ~output
  /\ started \/ ui \in {"none", "done"}

\* A thread at "from" queues text and goes on to signal it, if the console is
\* started; else it leaves the queue as it was.
LEMMA MainPrinted ==
  ASSUME NEW from, NEW signal, NEW to, MainPrints(from, signal, to)
  PROVE  /\ ui' = ui /\ input' = input /\ running' = running /\ started' = started
         /\ \/ main = from /\ main' = signal /\ outputEvent' = outputEvent
            \/ main = from /\ main' = to /\ (output' <=> output) /\ outputEvent' = outputEvent
            \/ main = signal /\ main' = to /\ outputEvent' = started /\ output' = output
  BY DEF MainPrints, PushOutput, SignalOutput, stopVars

\* See MainPrinted.
LEMMA InputPrinted ==
  ASSUME NEW from, NEW signal, NEW to, InputPrints(from, signal, to)
  PROVE  /\ ui' = ui /\ main' = main /\ running' = running /\ started' = started
         /\ \/ input = from /\ input' = signal /\ outputEvent' = outputEvent
            \/ input = from /\ input' = to /\ (output' <=> output) /\ outputEvent' = outputEvent
            \/ input = signal /\ input' = to /\ outputEvent' = started /\ output' = output
  BY DEF InputPrints, PushOutput, SignalOutput, stopVars

\* What the main thread prints is signalled before its line is done.
LEMMA SignalledMain == Lifetimes /\ Signalled /\ Main => Signalled'
<1> SUFFICES ASSUME Lifetimes, Signalled, Main PROVE Signalled'
    OBVIOUS
<1> USE DEF Signalled, OutputIsSignalled, consoleVars, outputVars, stopVars
<1>1. CASE MainStart
  <2>1. /\ main = "start" /\ main' = "banner" /\ output' = output /\ outputEvent' = outputEvent
        /\ \/ started' = TRUE
           \/ started' = started /\ ui' = ui /\ running' = running
      BY <1>1 DEF MainStart, Start
  <2>2. ui = "none" /\ ~output
      BY <2>1 DEF Lifetimes
  <2> QED BY <2>1, <2>2
<1>2. CASE MainPrints("banner", "banner event", "connect")
  <2>1. /\ ui' = ui /\ input' = input /\ running' = running /\ started' = started
        /\ \/ main = "banner" /\ main' = "banner event" /\ outputEvent' = outputEvent
           \/ main = "banner" /\ main' = "connect" /\ (output' <=> output) /\ outputEvent' = outputEvent
           \/ main = "banner event" /\ main' = "connect" /\ outputEvent' = started /\ output' = output
      BY <1>2, MainPrinted
  <2> QED BY <2>1
<1>3. CASE MainConnect
  <2>1. input = "none"
      BY <1>3 DEF MainConnect, Lifetimes, Opening
  <2> QED BY <1>3, <2>1 DEF MainConnect
<1>4. CASE MainPrints("error", "error event", "stop")
  <2>1. /\ ui' = ui /\ input' = input /\ running' = running /\ started' = started
        /\ \/ main = "error" /\ main' = "error event" /\ outputEvent' = outputEvent
           \/ main = "error" /\ main' = "stop" /\ (output' <=> output) /\ outputEvent' = outputEvent
           \/ main = "error event" /\ main' = "stop" /\ outputEvent' = started /\ output' = output
      BY <1>4, MainPrinted
  <2> QED BY <2>1
<1>5. CASE MainPrints("handle", "handle event", "handled")
  <2>1. /\ ui' = ui /\ input' = input /\ running' = running /\ started' = started
        /\ \/ main = "handle" /\ main' = "handle event" /\ outputEvent' = outputEvent
           \/ main = "handle" /\ main' = "handled" /\ (output' <=> output) /\ outputEvent' = outputEvent
           \/ main = "handle event" /\ main' = "handled" /\ outputEvent' = started /\ output' = output
      BY <1>5, MainPrinted
  <2> QED BY <2>1
<1>6. CASE MainLoop \/ MainTask \/ MainHandled
  <2>1. /\ ui' = ui /\ output' = output /\ outputEvent' = outputEvent /\ running' = running
        /\ started' = started
        /\ input' = input
        /\ main \in {"loop", "task", "handled"}
        /\ main' \in {"loop", "stop", "task", "handle", "handled"}
      BY <1>6 DEF MainLoop, MainTask, MainHandled
  <2> QED BY <2>1
<1>7. CASE MainStops
  <2>1. /\ ui' = ui /\ output' = output /\ input' = input
        /\ main \in Stopping /\ main' \in Stopping
        /\ running' \in {running, FALSE}
        /\ \/ outputEvent' \in {outputEvent, TRUE} /\ started' = started
           \/ ui = "done"
    <3>1. CASE StopRunning \/ MainJoin
        BY <3>1 DEF StopRunning, MainJoin, Stopping
    <3>2. CASE StopNotify
        BY <3>2 DEF StopNotify, Stopping
    <3>3. CASE StopEvents
        BY <3>3 DEF StopEvents, Stopping
    <3>4. CASE StopJoin
        BY <3>4 DEF StopJoin, Stopping
    <3> QED BY <1>7, <3>1, <3>2, <3>3, <3>4 DEF MainStops
  <2>2. /\ main # "start" /\ main' # "start"
        /\ main \notin {"banner event", "error event", "handle event"}
      BY <2>1 DEF Stopping
  <2>3. CASE ui = "done"
      BY <2>1, <2>2, <2>3
  <2>4. CASE started' = started /\ (outputEvent' = TRUE \/ running' = FALSE)
      BY <2>1, <2>2, <2>4
  <2>5. CASE started' = started /\ outputEvent' = outputEvent /\ running' = running
      BY <2>1, <2>2, <2>5
  <2> QED BY <2>1, <2>3, <2>4, <2>5
<1> QED BY <1>1, <1>2, <1>3, <1>4, <1>5, <1>6, <1>7 DEF Main, MainOpens, MainLoops

\* And so is what the input thread prints.
LEMMA SignalledInput == Lifetimes /\ Signalled /\ Input => Signalled'
<1> SUFFICES ASSUME Lifetimes, Signalled, Input PROVE Signalled'
    OBVIOUS
<1> USE DEF Signalled, OutputIsSignalled, consoleVars, outputVars, stopVars
<1>1. main # "start"
  <2>1. input # "none"
      BY DEF Input, InputCheck, InputRead, InputPrints, InputSend, InputDelete, InputClose,
             Reading, ReadTest, ReadBlock, Lifetimes
  <2> QED BY <2>1 DEF Lifetimes, Opening
<1>2. CASE InputPrints("text", "text event", "send")
  <2>1. /\ ui' = ui /\ main' = main /\ running' = running /\ started' = started
        /\ \/ input = "text" /\ input' = "text event" /\ outputEvent' = outputEvent
           \/ input = "text" /\ input' = "send" /\ (output' <=> output) /\ outputEvent' = outputEvent
           \/ input = "text event" /\ input' = "send" /\ outputEvent' = started /\ output' = output
      BY <1>2, InputPrinted
  <2> QED BY <1>1, <2>1
<1>3. CASE InputPrints("tell", "tell event", "close")
  <2>1. /\ ui' = ui /\ main' = main /\ running' = running /\ started' = started
        /\ \/ input = "tell" /\ input' = "tell event" /\ outputEvent' = outputEvent
           \/ input = "tell" /\ input' = "close" /\ (output' <=> output) /\ outputEvent' = outputEvent
           \/ input = "tell event" /\ input' = "close" /\ outputEvent' = started /\ output' = output
      BY <1>3, InputPrinted
  <2> QED BY <1>1, <2>1
<1>4. CASE InputCheck \/ InputRead
  <2>1. /\ ui' = ui /\ output' = output /\ outputEvent' = outputEvent /\ running' = running
        /\ started' = started
        /\ main' = main /\ input \in {"check", "read"}
      BY <1>4 DEF InputCheck, InputRead
  <2> QED BY <1>1, <2>1
<1>5. CASE InputSend \/ InputDelete \/ InputClose
  <2>1. /\ ui' = ui /\ output' = output /\ outputEvent' = outputEvent /\ running' = running
        /\ started' = started
        /\ main' = main /\ input \in {"send", "delete", "close"}
      BY <1>5 DEF InputSend, InputDelete, InputClose
  <2> QED BY <1>1, <2>1
<1>6. CASE Reading
  <2>1. /\ ui' = ui /\ output' = output /\ outputEvent' = outputEvent /\ running' = running
        /\ started' = started
        /\ main' = main /\ input' = input
      BY <1>6 DEF Reading, ReadTest, ReadBlock
  <2> QED BY <1>1, <2>1
<1> QED BY <1>2, <1>3, <1>4, <1>5, <1>6 DEF Input

\* The UI thread itself clears the event only on its way to empty the queue.
LEMMA SignalledOthers ==
  Lifetimes /\ Signalled /\ (UiThread \/ User \/ RecvThread \/ UNCHANGED vars) => Signalled'
<1> SUFFICES ASSUME Lifetimes, Signalled, UiThread \/ User \/ RecvThread \/ UNCHANGED vars
             PROVE  Signalled'
    OBVIOUS
<1> USE DEF Signalled, OutputIsSignalled, consoleVars, outputVars, stopVars
<1>1. CASE UiThread
  <2>1. main' = main /\ input' = input /\ Ui
      BY <1>1 DEF UiThread
  <2>2. CASE UiCheck \/ UiWait
    <3>1. /\ output' = output /\ outputEvent' = outputEvent /\ running' = running
          /\ started' = started
          /\ \/ ui = "check" /\ ui' \in {"wait", "done"}
             \/ ui = "wait" /\ ui' \in {"reset", "last"}
        BY <2>2 DEF UiCheck, UiWait
    <3> QED BY <2>1, <3>1
  <2>3. CASE UiEcho
    <3>1. /\ ui \in {"echo", "echoed"} /\ ui' \in {"echoed", "queue"} /\ main # "start"
          /\ started' = started
        BY <2>3 DEF UiEcho, PushOutput, SignalOutput, Lifetimes
    <3> QED BY <2>1, <3>1
  <2>4. CASE UiQueue \/ UiNotify \/ UiReset
    <3>1. /\ ui \in {"queue", "notify", "reset"} /\ ui' \in {"notify", "drain"}
          /\ output' = output /\ started' = started
        BY <2>4 DEF UiQueue, UiNotify, UiReset
    <3> QED BY <2>1, <3>1
  <2>5. CASE UiDrain
    <3>1. output' = FALSE /\ ui \in {"drain", "last"} /\ started' = started
        BY <2>5 DEF UiDrain
    <3> QED BY <2>1, <3>1
  <2> QED BY <2>1, <2>2, <2>3, <2>4, <2>5 DEF Ui
<1>2. CASE User
    BY <1>2 DEF User, UiKeys
<1>3. CASE RecvThread
    BY <1>3 DEF RecvThread
<1>4. CASE UNCHANGED vars
    BY <1>4 DEF vars
<1> QED BY <1>1, <1>2, <1>3, <1>4

\* The UI thread goes to sleep on a queued output only if its event is signalled or
\* the thread that queued it is about to (Console.cpp:184-189, 274-284).
THEOREM OutputStaysSignalled == Spec => []OutputIsSignalled
<1>1. Init => Signalled
    BY DEF Init, ConsoleInit, Signalled, OutputIsSignalled
<1>2. Lifetimes /\ Signalled /\ [Next]_vars => Signalled'
    BY SignalledMain, SignalledInput, SignalledOthers DEF Next
<1>3. Signalled => OutputIsSignalled
    BY DEF Signalled
<1> QED BY <1>1, <1>2, <1>3, LifetimesHold, PTL DEF Spec

-----------------------------------------------------------------------------
(* What is handled: the queue is in order, and nothing takes the slot of the  *)
(* element DoOneTask refers to.                                             *)

\* The packs are numbered upwards, from the one handled last over the one in hand and
\* the queue to the buffer; the lock is held as long as one is in hand.
PackTypes ==
  /\ tasks \in Seq(Nat)
  /\ task \in Nat /\ handled \in Nat /\ buffer \in Nat /\ read \in Nat

Held ==
  /\ taskMutex \in BOOLEAN
  /\ taskMutex <=> main \in Handling
  /\ ~taskMutex => task = NoPack
  /\ taskMutex => handled < task

Upwards ==
  /\ \A i, j \in 1 .. Len(tasks) : i < j => tasks[i] < tasks[j]
  /\ \A i \in 1 .. Len(tasks) : handled < tasks[i] /\ task < tasks[i] /\ tasks[i] <= read
  /\ handled <= read /\ task <= read
  /\ recv = "add" =>
       /\ handled < buffer /\ task < buffer /\ buffer <= read
       /\ \A i \in 1 .. Len(tasks) : tasks[i] < buffer

PacksInv == PackTypes /\ Held /\ Upwards

\* Nothing has come at the start.
LEMMA PacksInit == Init => PacksInv
<1> SUFFICES ASSUME Init PROVE PacksInv
    OBVIOUS
<1>1. /\ tasks = <<>> /\ task = 0 /\ handled = 0 /\ buffer = 0 /\ read = 0
      /\ recv = "none" /\ taskMutex = FALSE /\ main = "start"
    BY DEF Init, ReceiverInit, NoPack
<1>2. tasks \in Seq(Nat) /\ Len(tasks) = 0
    BY <1>1
<1>3. PackTypes
    BY <1>1, <1>2 DEF PackTypes
<1>4. Held
    BY <1>1 DEF Held, NoPack, Handling
<1>5. Upwards
    BY <1>1, <1>2 DEF Upwards
<1> QED BY <1>3, <1>4, <1>5 DEF PacksInv

\* A step that touches no pack and moves main neither into nor out of Handling.
LEMMA PacksStay ==
  ASSUME PacksInv, UNCHANGED <<tasks, task, handled, buffer, read, recv, taskMutex>>,
         main' \in Handling <=> main \in Handling
  PROVE  PacksInv'
  BY DEF PacksInv, PackTypes, Held, Upwards

\* The main thread takes the oldest pack that is left, and no pack twice.
LEMMA PacksMain == PacksInv /\ Main => PacksInv'
<1> SUFFICES ASSUME PacksInv, Main PROVE PacksInv'
    OBVIOUS
<1> USE DEF receiverVars, recvVars, taskVars
<1>1. CASE MainPrints("banner", "banner event", "connect")
  <2>1. /\ main \notin Handling /\ main' \notin Handling
        /\ UNCHANGED <<tasks, task, handled, buffer, read, recv, taskMutex>>
      BY <1>1 DEF MainPrints, Handling
  <2> QED BY <2>1, PacksStay
<1>2. CASE MainPrints("error", "error event", "stop")
  <2>1. /\ main \notin Handling /\ main' \notin Handling
        /\ UNCHANGED <<tasks, task, handled, buffer, read, recv, taskMutex>>
      BY <1>2 DEF MainPrints, Handling
  <2> QED BY <2>1, PacksStay
<1>3. CASE MainPrints("handle", "handle event", "handled")
  <2>1. /\ main \in Handling /\ main' \in Handling
        /\ UNCHANGED <<tasks, task, handled, buffer, read, recv, taskMutex>>
      BY <1>3 DEF MainPrints, Handling
  <2> QED BY <2>1, PacksStay
<1>4. CASE MainConnect
  <2>1. /\ main \notin Handling /\ main' \notin Handling /\ recv' \in {recv, "recv"}
        /\ UNCHANGED <<tasks, task, handled, buffer, read, taskMutex>>
      BY <1>4 DEF MainConnect, Handling
  <2> QED BY <2>1 DEF PacksInv, PackTypes, Held, Upwards
<1>5. CASE MainStart \/ MainLoop \/ MainStops
  <2>1. /\ main \notin Handling /\ main' \notin Handling
        /\ UNCHANGED <<tasks, task, handled, buffer, read, recv, taskMutex>>
      BY <1>5 DEF MainStart, MainLoop, MainStops, StopRunning, StopNotify, StopEvents,
                  StopJoin, MainJoin, Handling
  <2> QED BY <2>1, PacksStay
<1>6. CASE MainTask /\ NoTask
  <2>1. /\ tasks = <<>> /\ UNCHANGED <<tasks, task, handled, buffer, read, recv, taskMutex>>
        /\ main \notin Handling
      BY <1>6 DEF MainTask, NoTask, Handling
  <2>2. ~PopTask
      BY <2>1 DEF PopTask
  <2>3. main' \notin Handling
      BY <1>6, <2>2 DEF MainTask, Handling
  <2> QED BY <2>1, <2>3, PacksStay
<1>7. CASE MainTask /\ PopTask
  <2>1. /\ ~taskMutex /\ tasks # <<>> /\ taskMutex'
        /\ task' = Head(tasks) /\ tasks' = Tail(tasks)
        /\ UNCHANGED <<handled, buffer, read, recv>>
        /\ main' \in Handling
      BY <1>7 DEF MainTask, NoTask, PopTask, Handling
  <2>2. /\ Head(tasks) = tasks[1] /\ Len(tasks) >= 1 /\ tasks[1] \in Nat
        /\ Tail(tasks) \in Seq(Nat) /\ Len(Tail(tasks)) = Len(tasks) - 1
        /\ \A i \in 1 .. Len(tasks) - 1 : Tail(tasks)[i] = tasks[i + 1]
      BY <2>1, HeadTailProperties DEF PacksInv, PackTypes
  <2>3. PackTypes' /\ Held'
      BY <2>1, <2>2 DEF PacksInv, PackTypes, Held, Upwards
  <2>4. Upwards'
      BY <2>1, <2>2 DEF PacksInv, PackTypes, Upwards
  <2> QED BY <2>3, <2>4 DEF PacksInv
<1>8. CASE MainHandled
  <2>1. /\ main \in Handling /\ main' \notin Handling
        /\ handled' = task /\ task' = NoPack /\ ~taskMutex'
        /\ UNCHANGED <<tasks, buffer, read, recv>>
      BY <1>8 DEF MainHandled, TaskDone, Handling
  <2>2. taskMutex' \in BOOLEAN
      BY <1>8 DEF MainHandled, TaskDone
  <2> QED BY <2>1, <2>2 DEF PacksInv, PackTypes, Held, Upwards, NoPack
<1> QED BY <1>1, <1>2, <1>3, <1>4, <1>5, <1>6, <1>7, <1>8
        DEF Main, MainOpens, MainLoops, MainTask

\* recv puts the next halves into the buffer; AddTask queues the pack made of it, and
\* overwrites what is in hand only if the lock were not held.
LEMMA PacksReceiver == PacksInv /\ RecvThread => PacksInv'
<1> SUFFICES ASSUME PacksInv, RecvThread PROVE PacksInv'
    OBVIOUS
<1> USE DEF receiverVars, recvVars, taskVars
<1>0. main' = main /\ handled' = handled
    BY DEF RecvThread
<1>1. CASE Recv
  <2>1. CASE recv' = "done" /\ UNCHANGED <<read, buffer>>
      BY <1>0, <1>1, <2>1 DEF Recv, PacksInv, PackTypes, Held, Upwards
  <2>2. CASE recv' = "add"
    <3>1. PICK n \in 1 .. MaxHalves - read : read' = read + n
        BY <1>1, <2>2 DEF Recv
    <3>2. buffer' = read + 1 /\ UNCHANGED <<tasks, task, taskMutex>>
        BY <1>1, <2>2 DEF Recv
    <3>3. read \in Nat /\ n \in Nat /\ n >= 1
        BY MaxHalvesAssumption DEF PacksInv, PackTypes
    <3>4. read' \in Nat /\ buffer' \in Nat /\ read < buffer' /\ buffer' <= read'
        BY <3>1, <3>2, <3>3
    <3>5. PackTypes' /\ Held'
        BY <1>0, <3>2, <3>4 DEF PacksInv, PackTypes, Held
    <3>6. \A i \in 1 .. Len(tasks) : tasks[i] \in Nat
        BY DEF PacksInv, PackTypes
    <3>7. Upwards'
        BY <1>0, <3>2, <3>3, <3>4, <3>6 DEF PacksInv, PackTypes, Upwards
    <3> QED BY <3>5, <3>7 DEF PacksInv
  <2> QED BY <1>1, <2>1, <2>2 DEF Recv
<1>2. CASE AddTask
  <2>1. /\ recv = "add" /\ recv' = "more" /\ tasks' = Append(tasks, buffer)
        /\ buffer' = NoPack /\ UNCHANGED <<read, taskMutex>> /\ ~taskMutex
      BY <1>2 DEF AddTask
  <2>2. task = NoPack /\ task' = NoPack
      BY <1>2, <2>1 DEF AddTask, PacksInv, Held
  <2>3. /\ tasks' \in Seq(Nat) /\ Len(tasks') = Len(tasks) + 1
        /\ \A i \in 1 .. Len(tasks) : tasks'[i] = tasks[i]
        /\ tasks'[Len(tasks) + 1] = buffer
      BY <2>1, AppendProperties DEF PacksInv, PackTypes
  <2>4. PackTypes' /\ Held'
      BY <1>0, <2>1, <2>2, <2>3 DEF PacksInv, PackTypes, Held, NoPack
  <2>5. Upwards'
      BY <1>0, <2>1, <2>2, <2>3 DEF PacksInv, PackTypes, Upwards
  <2> QED BY <2>4, <2>5 DEF PacksInv
<1>3. CASE RecvMore(deleted)
  <2>1. recv' # "add" /\ UNCHANGED <<read, buffer, tasks, task, taskMutex>>
      BY <1>3 DEF RecvMore
  <2> QED BY <1>0, <2>1 DEF PacksInv, PackTypes, Held, Upwards
<1> QED BY <1>1, <1>2, <1>3 DEF RecvThread, RecvJob

\* Nobody else touches the packs or the tasks.
LEMMA PacksOthers == PacksInv /\ (Input \/ UiThread \/ User \/ UNCHANGED vars) => PacksInv'
<1> SUFFICES ASSUME PacksInv, Input \/ UiThread \/ User \/ UNCHANGED vars PROVE PacksInv'
    OBVIOUS
<1>1. UNCHANGED <<tasks, task, handled, buffer, read, recv, taskMutex, main>>
    BY DEF Input, InputCheck, Reading, InputRead, InputPrints, InputSend, InputDelete, InputClose,
           UiThread, User, vars, receiverVars, recvVars, taskVars
<1> QED BY <1>1, PacksStay

\* The packs on their way are those not handled yet, oldest first, in every state.
THEOREM PacksAlways == Spec => []PacksInv
<1>1. PacksInv /\ [Next]_vars => PacksInv'
    BY PacksMain, PacksReceiver, PacksOthers DEF Next
<1> QED BY <1>1, PacksInit, PTL DEF Spec

\* What DoOneTask has handled was received after everything handled before it, although
\* the reference it keeps is to an element it has popped (NetPackHandler.cpp:13-23).
THEOREM PacksAreHandledInOrder == Spec => HandledInOrder
<1>1. PacksInv => (main = "handled" /\ main' = "task" => task > handled)
    BY DEF PacksInv, PackTypes, Held, Handling
<1>2. PacksInv /\ [Next]_vars => [main = "handled" /\ main' = "task" => task > handled]_vars
    BY <1>1
<1> QED BY <1>2, PacksAlways, PTL DEF Spec, HandledInOrder

=============================================================================
