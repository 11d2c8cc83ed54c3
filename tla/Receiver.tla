------------------------------ MODULE Receiver ------------------------------
(***************************************************************************)
(* From the socket to the task queue: Player::RecvJob                       *)
(* (src/Player/Player.cpp), the NetPack made of what one recv returned      *)
(* (src/Net/NetPack.cpp) and the queue of NetPackHandler                    *)
(* (src/Net/NetPackHandler.cpp).                                            *)
(*                                                                          *)
(* The stream is counted in half packs: the odd halves begin with the       *)
(* header of a pack of the server's, the even ones do not.  recv returns     *)
(* any number of them, always to the start of the same buffer, and one       *)
(* NetPack is made of the buffer: the first half stands for it.  A pack that *)
(* came with another one is lost, the rest of a pack that came in two makes  *)
(* a NetPack of its own.                                                     *)
(***************************************************************************)
EXTENDS Integers, Sequences

CONSTANT MaxHalves    \* bound: halves of packs the server sends
ASSUME MaxHalvesAssumption == MaxHalves \in Nat

VARIABLES
  socket,         \* m_socket: "open" or "closed"
  read,           \* halves recv has returned
  buffer,         \* recvbuf: the half it begins with
  recv,           \* where the receiving thread is
  tasks,          \* _taskList
  task,           \* the pack DoOneTask refers to: the slot pop() has freed
  taskMutex       \* _mutex is held by DoOneTask

recvVars     == <<read, buffer, recv>>
taskVars     == <<tasks, task, taskMutex>>
receiverVars == <<socket, recvVars, taskVars>>

NoPack == 0

ReceiverInit ==
  /\ socket = "open"
  /\ read = 0 /\ buffer = NoPack /\ recv = "none"
  /\ tasks = <<>> /\ task = NoPack /\ taskMutex = FALSE

-----------------------------------------------------------------------------
(* RecvJob.                                                                 *)

\* recv: some of the stream, or the end of it or an error, at any time.
Recv ==
  /\ recv = "recv"
  /\ \/ /\ socket = "open"
        /\ \E n \in 1 .. MaxHalves - read : read' = read + n
        /\ buffer' = read + 1
        /\ recv' = "add"
     \/ recv' = "done" /\ UNCHANGED <<read, buffer>>
  /\ UNCHANGED <<socket, taskVars>>

\* AddTask.  The element pushed may take the slot that was freed: what DoOneTask
\* still refers to would be overwritten, were it not for the lock.
AddTask ==
  /\ recv = "add"
  /\ ~taskMutex
  /\ tasks' = Append(tasks, buffer)
  /\ task' \in {task, IF task = NoPack THEN NoPack ELSE buffer}
  /\ buffer' = NoPack
  /\ recv' = "more"
  /\ UNCHANGED <<socket, read, taskMutex>>

\* The loop of RecvJob goes on until the player is deleted.
RecvMore(deleted) ==
  /\ recv = "more"
  /\ recv' = IF deleted THEN "done" ELSE "recv"
  /\ UNCHANGED <<socket, read, buffer, taskVars>>

RecvJob(deleted) == Recv \/ AddTask \/ RecvMore(deleted)

-----------------------------------------------------------------------------
(* DoOneTask, up to the pop and from the return.                            *)

\* Mutant: the lock covers the queue only.
PopTaskMutant ==
  /\ ~taskMutex /\ tasks # <<>>
  /\ task' = Head(tasks) /\ tasks' = Tail(tasks)
  /\ UNCHANGED <<socket, recvVars, taskMutex>>

PopTask ==
  /\ ~taskMutex /\ tasks # <<>>
  /\ task' = Head(tasks) /\ tasks' = Tail(tasks)
  /\ taskMutex' = TRUE
  /\ UNCHANGED <<socket, recvVars>>

\* Mutant: a handler returns without releasing the lock.
TaskDoneMutant ==
  /\ task' = NoPack
  /\ UNCHANGED <<socket, recvVars, tasks, taskMutex>>

TaskDone ==
  /\ taskMutex' = FALSE
  /\ task' = NoPack
  /\ UNCHANGED <<socket, recvVars, tasks>>

NoTask ==
  /\ ~taskMutex /\ tasks = <<>>
  /\ UNCHANGED receiverVars

=============================================================================
