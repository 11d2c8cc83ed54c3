------------------------------- MODULE Voice -------------------------------
(***************************************************************************)
(* The voice of the client (src/Audio/AudioCenter.cpp): a queue of messages, *)
(* filled by the main thread and emptied by a thread of its own, which looks  *)
(* whether the queue is empty without the lock and takes the front with it,   *)
(* and a mute flag set by the input thread.  Messages are numbered.           *)
(***************************************************************************)
EXTENDS Integers, Sequences

VARIABLES
  voice,       \* m_voiceMsgQueue
  mute,        \* m_mute
  speaker,     \* where PlayVoiceMsg is
  vMsg         \* vMsg: the message it has taken last

voiceVars == <<voice, mute, speaker, vMsg>>

VoiceInit ==
  /\ voice = <<>> /\ mute = FALSE
  /\ speaker = "sleep" /\ vMsg = 0

AddVoiceMsg(msg) ==
  /\ voice' = Append(voice, msg)
  /\ UNCHANGED <<mute, speaker, vMsg>>

SetMute(to) == mute' = to /\ UNCHANGED <<voice, speaker, vMsg>>

-----------------------------------------------------------------------------
(* PlayVoiceMsg: 200 ms of sleep, then messages until none is left.          *)

\* Mutant: the message is taken without looking for one.
WakesMutant ==
  /\ speaker = "sleep"
  /\ speaker' = "take"
  /\ UNCHANGED <<voice, mute, vMsg>>

Wakes ==
  /\ speaker = "sleep"
  /\ speaker' = "empty?"
  /\ UNCHANGED <<voice, mute, vMsg>>

\* empty() reads the size while push may write it: the old one or the new.
LooksForOne ==
  /\ speaker = "empty?"
  /\ speaker' = IF voice = <<>> THEN "sleep" ELSE "take"
  /\ UNCHANGED <<voice, mute, vMsg>>

\* Mutant: what is taken stays in the queue.
TakesMutant ==
  /\ speaker = "take"
  /\ voice # <<>>
  /\ vMsg' = Head(voice)
  /\ speaker' = "mute?"
  /\ UNCHANGED <<voice, mute>>

\* front and pop of an empty queue have no defined result.
Takes ==
  /\ speaker = "take"
  /\ voice # <<>>
  /\ vMsg' = Head(voice) /\ voice' = Tail(voice)
  /\ speaker' = "mute?"
  /\ UNCHANGED mute

\* A muted message is dropped.
LooksAtMute ==
  /\ speaker = "mute?"
  /\ speaker' = IF mute THEN "empty?" ELSE "say"
  /\ UNCHANGED <<voice, mute, vMsg>>

\* Mutant: the thread does not come back for more.
SaidMutant ==
  /\ speaker = "say"
  /\ speaker' = "done"
  /\ UNCHANGED <<voice, mute, vMsg>>

\* say_by_engine returns when the message has been said.
Said ==
  /\ speaker = "say"
  /\ speaker' = "empty?"
  /\ UNCHANGED <<voice, mute, vMsg>>

PlayVoiceMsg == Wakes \/ LooksForOne \/ Takes \/ LooksAtMute \/ Said

=============================================================================
