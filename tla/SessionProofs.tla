--------------------------- MODULE SessionProofs ---------------------------
(***************************************************************************)
(* Proofs about Session.tla, for any lines, bounds and behaviour of the       *)
(* server: the speaking thread never takes from an empty queue, and takes     *)
(* the texts in the order they were told, none twice; a text is never for a   *)
(* room that the server has not been asked for, as far as the user can know    *)
(* it; and every line is taken as the help says.                              *)
(***************************************************************************)
EXTENDS Session, VectorTheorems, TLAPS

\* The texts on their way are numbered upwards, from the one taken last to the one
\* told last, in each queue and from each to the next.  Other packs are in between.
Rising(s) ==
  \A i, j \in 1 .. Len(s) : i < j /\ s[i] # Other /\ s[j] # Other => s[i] < s[j]

Before(s, t) ==
  \A i \in 1 .. Len(s), j \in 1 .. Len(t) : s[i] # Other /\ t[j] # Other => s[i] < t[j]

After(s, n) == \A i \in 1 .. Len(s) : s[i] # Other => n < s[i]
UpTo(s, n)  == \A i \in 1 .. Len(s) : s[i] <= n

SessionTypes ==
  /\ voice \in Seq(Nat) /\ tasks \in Seq(Nat) /\ stream \in Seq(Nat)
  /\ vMsg \in Nat /\ told \in Nat

InOrder ==
  /\ Rising(voice) /\ Rising(tasks) /\ Rising(stream)
  /\ Before(voice, tasks) /\ Before(voice, stream) /\ Before(tasks, stream)
  /\ After(voice, vMsg) /\ After(tasks, vMsg) /\ After(stream, vMsg)
  /\ UpTo(voice, told) /\ UpTo(tasks, told) /\ UpTo(stream, told)
  /\ vMsg <= told
  /\ \A i \in 1 .. Len(voice) : voice[i] # Other

SessionInv == SessionTypes /\ InOrder /\ NeverTakesNothing

-----------------------------------------------------------------------------
(* Queues.                                                                  *)

\* What Append does to a queue, element by element.
LEMMA Appended ==
  ASSUME NEW s \in Seq(Nat), NEW e \in Nat
  PROVE  /\ Append(s, e) \in Seq(Nat)
         /\ Len(Append(s, e)) = Len(s) + 1
         /\ \A i \in 1 .. Len(s) : Append(s, e)[i] = s[i]
         /\ Append(s, e)[Len(s) + 1] = e
  OBVIOUS

\* What is left of a queue without its first n elements.
LEMMA Rest ==
  ASSUME NEW s \in Seq(Nat), NEW n \in 0 .. Len(s)
  PROVE  /\ SubSeq(s, n + 1, Len(s)) \in Seq(Nat)
         /\ Len(SubSeq(s, n + 1, Len(s))) = Len(s) - n
         /\ \A i \in 1 .. Len(s) - n : SubSeq(s, n + 1, Len(s))[i] = s[n + i]
  OBVIOUS

\* Taking the head is leaving out the first element.
LEMMA Tailed ==
  ASSUME NEW s \in Seq(Nat), s # <<>>
  PROVE  /\ Len(s) >= 1 /\ Head(s) = s[1] /\ Head(s) \in Nat
         /\ Tail(s) \in Seq(Nat)
         /\ Len(Tail(s)) = Len(s) - 1
         /\ \A i \in 1 .. Len(s) - 1 : Tail(s)[i] = s[i + 1]
  OBVIOUS

\* A pack joins the end of a queue that is in order.
LEMMA JoinsQueue ==
  ASSUME NEW s \in Seq(Nat), NEW e \in Nat, Rising(s),
         \A i \in 1 .. Len(s) : s[i] # Other /\ e # Other => s[i] < e
  PROVE  Rising(Append(s, e))
  BY Appended DEF Rising

\* What holds between two queues, or of a queue and a number, when a pack joins.
LEMMA JoinsBetween ==
  ASSUME NEW s \in Seq(Nat), NEW e \in Nat, NEW t \in Seq(Nat)
  PROVE  /\ /\ Before(s, t)
            /\ \A j \in 1 .. Len(t) : e # Other /\ t[j] # Other => e < t[j]
            => Before(Append(s, e), t)
         /\ /\ Before(t, s)
            /\ \A j \in 1 .. Len(t) : e # Other /\ t[j] # Other => t[j] < e
            => Before(t, Append(s, e))
<1>1. /\ Len(Append(s, e)) = Len(s) + 1
      /\ \A i \in 1 .. Len(s) + 1 : i \in 1 .. Len(s) \/ i = Len(s) + 1
    BY Appended
<1>2. \A i \in 1 .. Len(Append(s, e)) :
        (i \in 1 .. Len(s) /\ Append(s, e)[i] = s[i]) \/ Append(s, e)[i] = e
    BY <1>1, Appended
<1> QED BY <1>2 DEF Before

\* Bounds on a queue hold of what is appended when it keeps them.
LEMMA JoinsWithin ==
  ASSUME NEW s \in Seq(Nat), NEW e \in Nat, NEW n \in Nat
  PROVE  /\ After(s, n) /\ (e # Other => n < e) => After(Append(s, e), n)
         /\ UpTo(s, n) /\ e <= n => UpTo(Append(s, e), n)
<1>1. /\ Len(Append(s, e)) = Len(s) + 1
      /\ \A i \in 1 .. Len(s) + 1 : i \in 1 .. Len(s) \/ i = Len(s) + 1
    BY Appended
<1>2. \A i \in 1 .. Len(Append(s, e)) :
        (i \in 1 .. Len(s) /\ Append(s, e)[i] = s[i]) \/ Append(s, e)[i] = e
    BY <1>1, Appended
<1> QED BY <1>2 DEF After, UpTo

\* What is left of a queue in order is in order.
LEMMA RestRises ==
  ASSUME NEW s \in Seq(Nat), NEW n \in 0 .. Len(s), NEW t \in Seq(Nat),
         Len(t) = Len(s) - n, \A i \in 1 .. Len(t) : t[i] = s[n + i], Rising(s)
  PROVE  Rising(t)
<1> SUFFICES ASSUME NEW i \in 1 .. Len(t), NEW j \in 1 .. Len(t), i < j,
                    t[i] # Other, t[j] # Other
             PROVE  t[i] < t[j]
    BY DEF Rising
<1>1. n + i \in 1 .. Len(s) /\ n + j \in 1 .. Len(s) /\ n + i < n + j OBVIOUS
<1>2. t[i] = s[n + i] /\ t[j] = s[n + j] OBVIOUS
<1> QED BY <1>1, <1>2 DEF Rising

-----------------------------------------------------------------------------
(* The steps.                                                               *)

\* With empty queues everything is in order.
THEOREM SessionInvInit == Init => SessionInv
  BY DEF Init, VoiceInit, SessionInv, SessionTypes, InOrder, NeverTakesNothing,
         Rising, Before, After, UpTo

\* A line changes neither queue.
LEMMA LineKeepsInv ==
  ASSUME SessionInv, NEW line \in Lines, HandleLine(line)
  PROVE  SessionInv'
<1>1. UNCHANGED <<stream, told, tasks, voice, speaker, vMsg>>
    BY DEF HandleLine, SetMute, streamVars, voiceVars
<1> QED BY <1>1 DEF SessionInv, SessionTypes, InOrder, NeverTakesNothing,
                    Rising, Before, After, UpTo

\* The server tells a pack: the next text, or one of the others.
LEMMA TellKeepsInv ==
  ASSUME SessionInv, NEW pack \in Nat, stream' = Append(stream, pack),
         \/ pack = Other /\ told' = told
         \/ pack = told + 1 /\ told' = told + 1,
         UNCHANGED <<tasks, voice, speaker, vMsg>>
  PROVE  SessionInv'
<1> USE DEF SessionInv, SessionTypes
<1>1. /\ stream' \in Seq(Nat) /\ Len(stream') = Len(stream) + 1
      /\ \A i \in 1 .. Len(stream) : stream'[i] = stream[i]
      /\ stream'[Len(stream) + 1] = pack
    BY Appended
<1>2. told' \in Nat /\ told <= told' /\ pack <= told' BY DEF Other
<1>3. Rising(stream')
  <2>1. \A i \in 1 .. Len(stream) : stream[i] # Other /\ pack # Other => stream[i] < pack
      BY DEF InOrder, UpTo
  <2> QED BY <2>1, JoinsQueue DEF InOrder
<1>4. Before(voice', stream') /\ Before(tasks', stream')
  <2>1. \A j \in 1 .. Len(voice) : pack # Other /\ voice[j] # Other => voice[j] < pack
      BY DEF InOrder, UpTo
  <2>2. \A j \in 1 .. Len(tasks) : pack # Other /\ tasks[j] # Other => tasks[j] < pack
      BY DEF InOrder, UpTo
  <2> QED BY <2>1, <2>2, JoinsBetween DEF InOrder
<1>5. After(stream', vMsg') BY <1>1 DEF InOrder, After
<1>6. UpTo(voice', told') /\ UpTo(tasks', told') /\ UpTo(stream', told') /\ vMsg' <= told'
  <2>1. voice' = voice /\ tasks' = tasks /\ vMsg' = vMsg OBVIOUS
  <2>2. ASSUME NEW s \in Seq(Nat), UpTo(s, told) PROVE UpTo(s, told')
    <3>1. \A i \in 1 .. Len(s) : s[i] \in Nat /\ s[i] <= told BY <2>2 DEF UpTo
    <3> QED BY <1>2, <3>1 DEF UpTo
  <2>3. UpTo(stream', told')
    <3> SUFFICES ASSUME NEW i \in 1 .. Len(stream') PROVE stream'[i] <= told' BY DEF UpTo
    <3>1. CASE i \in 1 .. Len(stream)
      <4>1. stream[i] \in Nat /\ stream[i] <= told BY <3>1 DEF InOrder, UpTo
      <4> QED BY <1>1, <1>2, <3>1, <4>1
    <3>2. CASE i = Len(stream) + 1 BY <1>1, <1>2, <3>2
    <3> QED BY <1>1, <3>1, <3>2
  <2>4. UpTo(voice, told') /\ UpTo(tasks, told') BY <2>2 DEF InOrder
  <2>5. vMsg \in Nat /\ vMsg <= told BY DEF InOrder
  <2> QED BY <1>2, <2>1, <2>3, <2>4, <2>5
<1>7. SessionTypes' BY <1>1, <1>2
<1>8. InOrder'
    BY <1>3, <1>4, <1>5, <1>6 DEF InOrder, Rising, Before, After
<1>9. NeverTakesNothing' BY DEF NeverTakesNothing
<1> QED BY <1>7, <1>8, <1>9

LEMMA ServerTakesKeepsInv == ASSUME SessionInv, ServerTakes PROVE SessionInv'
<1>1. UNCHANGED <<told, tasks, voice, speaker, vMsg>> BY DEF ServerTakes, voiceVars
<1>2. CASE Tell(Other)
    BY <1>1, <1>2, TellKeepsInv DEF Tell, Other
<1>3. CASE UNCHANGED stream
    BY <1>1, <1>3 DEF SessionInv, SessionTypes, InOrder, NeverTakesNothing,
                      Rising, Before, After, UpTo
<1> QED BY <1>2, <1>3 DEF ServerTakes

LEMMA ServerTellsKeepsInv == ASSUME SessionInv, ServerTells PROVE SessionInv'
<1>1. UNCHANGED <<tasks, voice, speaker, vMsg>> BY DEF ServerTells, voiceVars
<1>2. told + 1 \in Nat /\ told' = told + 1 /\ stream' = Append(stream, told + 1)
    BY DEF ServerTells, Tell, SessionInv, SessionTypes
<1> QED BY <1>1, <1>2, TellKeepsInv

\* The first of the packs that came together is queued, the others are lost.
LEMMA RecvKeepsInv == ASSUME SessionInv, Recv PROVE SessionInv'
<1> USE DEF SessionInv, SessionTypes
<1>1. PICK n \in 1 .. Len(stream) : /\ tasks' = Append(tasks, Head(stream))
                                    /\ stream' = SubSeq(stream, n + 1, Len(stream))
    BY DEF Recv
<1>2. UNCHANGED <<told, voice, speaker, vMsg>> BY DEF Recv, voiceVars
<1>3. stream # <<>> /\ n \in 0 .. Len(stream) BY <1>1
<1>4. Head(stream) = stream[1] /\ Head(stream) \in Nat BY <1>3, Tailed
<1>5. /\ stream' \in Seq(Nat) /\ Len(stream') = Len(stream) - n
      /\ \A i \in 1 .. Len(stream') : stream'[i] = stream[n + i]
    BY <1>1, <1>3, Rest
<1>6. /\ tasks' \in Seq(Nat) /\ Len(tasks') = Len(tasks) + 1
      /\ \A i \in 1 .. Len(tasks) : tasks'[i] = tasks[i]
      /\ tasks'[Len(tasks) + 1] = stream[1]
    BY <1>1, <1>4, Appended
<1>7. 1 \in 1 .. Len(stream) /\ \A i \in 1 .. Len(stream') : n + i \in 1 .. Len(stream) /\ 1 < n + i
  <2>1. Len(stream) \in Nat /\ n >= 1 /\ n <= Len(stream) OBVIOUS
  <2>2. Len(stream') = Len(stream) - n BY <1>5
  <2> QED BY <2>1, <2>2
<1>8. Rising(tasks') BY <1>1, <1>4, <1>7, JoinsQueue DEF InOrder, Before
<1>9. Rising(stream') BY <1>3, <1>5, RestRises DEF InOrder
<1>10. Before(voice', tasks')
  <2>1. \A j \in 1 .. Len(voice) :
          stream[1] # Other /\ voice[j] # Other => voice[j] < stream[1]
      BY <1>7 DEF InOrder, Before
  <2> QED BY <1>1, <1>2, <1>4, <2>1, JoinsBetween DEF InOrder
<1>11. Before(voice', stream') BY <1>2, <1>5, <1>7 DEF InOrder, Before
<1>12. Before(tasks', stream')
  <2> SUFFICES ASSUME NEW i \in 1 .. Len(tasks'), NEW j \in 1 .. Len(stream'),
                      tasks'[i] # Other, stream'[j] # Other
               PROVE  tasks'[i] < stream'[j]
      BY DEF Before
  <2>1. stream'[j] = stream[n + j] /\ n + j \in 1 .. Len(stream) /\ 1 < n + j BY <1>5, <1>7
  <2>2. CASE i = Len(tasks) + 1 BY <1>6, <1>7, <2>1, <2>2 DEF InOrder, Rising
  <2>3. CASE i \in 1 .. Len(tasks) BY <1>6, <2>1, <2>3 DEF InOrder, Before
  <2> QED BY <1>6, <2>2, <2>3
<1>13. After(tasks', vMsg') /\ After(stream', vMsg') /\ UpTo(tasks', told') /\ UpTo(stream', told')
  <2>1. (stream[1] # Other => vMsg < stream[1]) /\ stream[1] <= told
      BY <1>7 DEF InOrder, After, UpTo
  <2>2. After(tasks', vMsg') /\ UpTo(tasks', told')
      BY <1>1, <1>2, <1>4, <2>1, JoinsWithin DEF InOrder
  <2>3. After(stream', vMsg') /\ UpTo(stream', told')
      BY <1>2, <1>5, <1>7 DEF InOrder, After, UpTo
  <2> QED BY <2>2, <2>3
<1>14. SessionTypes' BY <1>2, <1>5, <1>6
<1>15. InOrder'
    BY <1>2, <1>8, <1>9, <1>10, <1>11, <1>12, <1>13 DEF InOrder, Rising, After, UpTo
<1>16. NeverTakesNothing' BY <1>2 DEF NeverTakesNothing
<1> QED BY <1>14, <1>15, <1>16

\* The front of the task queue goes to the voice, if it is a text.
LEMMA TaskKeepsInv == ASSUME SessionInv, DoOneTask PROVE SessionInv'
<1> USE DEF SessionInv, SessionTypes
<1>1. tasks # <<>> /\ tasks' = Tail(tasks) /\ UNCHANGED <<stream, told, speaker, vMsg>>
    BY DEF DoOneTask, AddVoiceMsg, voiceVars
<1>2. /\ Len(tasks) >= 1 /\ Head(tasks) = tasks[1] /\ Head(tasks) \in Nat
      /\ tasks' \in Seq(Nat) /\ Len(tasks') = Len(tasks) - 1
      /\ \A i \in 1 .. Len(tasks') : tasks'[i] = tasks[1 + i]
    BY <1>1, Tailed
<1>3. 1 \in 0 .. Len(tasks) /\ 1 \in 1 .. Len(tasks)
      /\ \A i \in 1 .. Len(tasks') : 1 + i \in 1 .. Len(tasks) /\ 1 < 1 + i
    BY <1>2
<1>4. Rising(tasks') BY <1>2, <1>3, RestRises DEF InOrder
<1>5. Before(tasks', stream') /\ After(tasks', vMsg') /\ UpTo(tasks', told')
    BY <1>1, <1>2, <1>3 DEF InOrder, Before, After, UpTo
<1>6. CASE Head(tasks) = Other
  <2>1. voice' = voice BY <1>6 DEF DoOneTask, voiceVars
  <2>2. Before(voice', tasks') BY <1>2, <1>3, <2>1 DEF InOrder, Before
  <2>3. InOrder'
      BY <1>1, <1>4, <1>5, <2>1, <2>2 DEF InOrder, Rising, Before, After, UpTo
  <2>4. NeverTakesNothing' BY <1>1, <2>1 DEF NeverTakesNothing
  <2> QED BY <1>1, <1>2, <2>1, <2>3, <2>4
<1>7. CASE Head(tasks) # Other
  <2>1. voice' = Append(voice, Head(tasks)) BY <1>7 DEF DoOneTask, AddVoiceMsg
  <2>2. /\ voice' \in Seq(Nat) /\ Len(voice') = Len(voice) + 1
        /\ \A i \in 1 .. Len(voice) : voice'[i] = voice[i]
        /\ voice'[Len(voice) + 1] = tasks[1]
      BY <1>2, <2>1, Appended
  <2>3. Rising(voice') BY <1>2, <1>3, <2>1, JoinsQueue DEF InOrder, Before
  <2>4. Before(voice', tasks')
    <3> SUFFICES ASSUME NEW i \in 1 .. Len(voice'), NEW j \in 1 .. Len(tasks'),
                        voice'[i] # Other, tasks'[j] # Other
                 PROVE  voice'[i] < tasks'[j]
        BY DEF Before
    <3>1. tasks'[j] = tasks[1 + j] /\ 1 + j \in 1 .. Len(tasks) /\ 1 < 1 + j BY <1>2, <1>3
    <3>2. CASE i = Len(voice) + 1 BY <1>3, <2>2, <3>1, <3>2 DEF InOrder, Rising
    <3>3. CASE i \in 1 .. Len(voice) BY <2>2, <3>1, <3>3 DEF InOrder, Before
    <3> QED BY <2>2, <3>2, <3>3
  <2>5. Before(voice', stream')
    <3>1. \A j \in 1 .. Len(stream) :
            Head(tasks) # Other /\ stream[j] # Other => Head(tasks) < stream[j]
        BY <1>2, <1>3, <1>7 DEF InOrder, Before
    <3>2. Before(Append(voice, Head(tasks)), stream)
        BY <1>2, <3>1, JoinsBetween DEF InOrder
    <3> QED BY <1>1, <2>1, <3>2
  <2>6. After(voice', vMsg') /\ UpTo(voice', told')
    <3>1. vMsg < tasks[1] /\ tasks[1] <= told
        BY <1>2, <1>3, <1>7 DEF InOrder, After, UpTo
    <3> QED BY <1>1, <1>2, <2>1, <3>1, JoinsWithin DEF InOrder
  <2>9. \A i \in 1 .. Len(voice') : voice'[i] # Other
    <3>1. Len(voice) \in Nat OBVIOUS
    <3>2. \A i \in 1 .. Len(voice) + 1 : i \in 1 .. Len(voice) \/ i = Len(voice) + 1
        BY <3>1
    <3> QED BY <1>2, <1>7, <2>2, <3>2 DEF InOrder
  <2>7. InOrder'
      BY <1>1, <1>4, <1>5, <2>3, <2>4, <2>5, <2>6, <2>9 DEF InOrder, Rising, Before, After, UpTo
  <2>8. NeverTakesNothing' BY <1>1, <2>2 DEF NeverTakesNothing
  <2> QED BY <1>1, <1>2, <2>2, <2>7, <2>8
<1> QED BY <1>6, <1>7

\* The front of the voice queue is taken.
LEMMA TakesKeepsInv ==
  ASSUME SessionInv, Takes, UNCHANGED streamVars
  PROVE  SessionInv' /\ vMsg' > vMsg
<1> USE DEF SessionInv, SessionTypes
<1>1. /\ voice # <<>> /\ vMsg' = Head(voice) /\ voice' = Tail(voice) /\ speaker' = "mute?"
      /\ UNCHANGED <<stream, told, tasks>>
    BY DEF Takes, streamVars
<1>2. /\ Len(voice) >= 1 /\ vMsg' = voice[1] /\ vMsg' \in Nat
      /\ voice' \in Seq(Nat) /\ Len(voice') = Len(voice) - 1
      /\ \A i \in 1 .. Len(voice') : voice'[i] = voice[1 + i]
    BY <1>1, Tailed
<1>3. 1 \in 0 .. Len(voice) /\ 1 \in 1 .. Len(voice)
      /\ \A i \in 1 .. Len(voice') : 1 + i \in 1 .. Len(voice) /\ 1 < 1 + i
    BY <1>2
<1>4. Rising(voice') BY <1>2, <1>3, RestRises DEF InOrder
<1>5. voice[1] # Other BY <1>3 DEF InOrder
<1>6. Before(voice', tasks') /\ Before(voice', stream') /\ UpTo(voice', told')
    BY <1>1, <1>2, <1>3 DEF InOrder, Before, UpTo
<1>7. After(voice', vMsg') BY <1>2, <1>3, <1>5 DEF InOrder, Rising, After
<1>8. After(tasks', vMsg') /\ After(stream', vMsg')
    BY <1>1, <1>2, <1>3, <1>5 DEF InOrder, Before, After
<1>9. vMsg' <= told' /\ vMsg' > vMsg BY <1>1, <1>2, <1>3, <1>5 DEF InOrder, UpTo, After
<1>10. \A i \in 1 .. Len(voice') : voice'[i] # Other BY <1>2, <1>3 DEF InOrder
<1>11. InOrder'
    BY <1>1, <1>4, <1>6, <1>7, <1>8, <1>9, <1>10 DEF InOrder, Rising, Before, UpTo
<1>12. NeverTakesNothing' BY <1>1 DEF NeverTakesNothing
<1> QED BY <1>1, <1>2, <1>9, <1>11, <1>12

\* The speaking thread decides to take only when it has seen a message.
LEMMA SpeakerKeepsInv == ASSUME SessionInv, Speaker PROVE SessionInv'
<1>1. CASE Takes BY <1>1, TakesKeepsInv DEF Speaker
<1>2. CASE Wakes \/ LooksForOne \/ LooksAtMute \/ Said
  <2>1. UNCHANGED <<stream, told, tasks, voice, vMsg>>
      BY <1>2 DEF Speaker, Wakes, LooksForOne, LooksAtMute, Said, streamVars
  <2>2. speaker' = "take" => voice' # <<>>
      BY <1>2 DEF Wakes, LooksForOne, LooksAtMute, Said
  <2> QED BY <2>1, <2>2 DEF SessionInv, SessionTypes, InOrder, NeverTakesNothing,
                            Rising, Before, After, UpTo
<1> QED BY <1>1, <1>2 DEF Speaker, PlayVoiceMsg

-----------------------------------------------------------------------------
(* The theorems.                                                            *)

\* Whatever happens, the texts on their way stay in order.
THEOREM SessionInvStep == SessionInv /\ [Next]_vars => SessionInv'
<1> SUFFICES ASSUME SessionInv, [Next]_vars PROVE SessionInv' OBVIOUS
<1>1. CASE UNCHANGED vars
    BY <1>1 DEF vars, streamVars, voiceVars, SessionInv, SessionTypes, InOrder,
                NeverTakesNothing, Rising, Before, After, UpTo
<1>2. ASSUME NEW line \in Lines, HandleLine(line) PROVE SessionInv'
    BY <1>2, LineKeepsInv
<1>3. CASE ServerTakes BY <1>3, ServerTakesKeepsInv
<1>4. CASE ServerTells BY <1>4, ServerTellsKeepsInv
<1>5. CASE Recv BY <1>5, RecvKeepsInv
<1>6. CASE DoOneTask BY <1>6, TaskKeepsInv
<1>7. CASE Speaker BY <1>7, SpeakerKeepsInv
<1> QED BY <1>1, <1>2, <1>3, <1>4, <1>5, <1>6, <1>7 DEF Next

\* The queues stay in order in every state.
THEOREM SessionInvAlways == Spec => []SessionInv
  BY SessionInvInit, SessionInvStep, PTL DEF Spec

\* The speaking thread never takes from an empty queue, although it looks without
\* the lock (AudioCenter.cpp:70-78).
THEOREM SpeakerFindsAMessage == Spec => []NeverTakesNothing
<1>1. SessionInv => NeverTakesNothing BY DEF SessionInv
<1> QED BY <1>1, SessionInvAlways, PTL

\* The texts are taken in the order they were told, none twice, however many are
\* lost on the way and whatever the user enters meanwhile (Player.cpp:9-29,
\* NetPackHandler.cpp:11-46, AudioCenter.cpp:23-78).
THEOREM TextsAreTakenInOrder == Spec => TakenInOrder
<1>1. SessionInv /\ [Next]_vars
        => [speaker = "take" /\ speaker' = "mute?" => vMsg' > vMsg]_vars
  <2> SUFFICES ASSUME SessionInv, Next, speaker = "take", speaker' = "mute?"
               PROVE  vMsg' > vMsg
      OBVIOUS
  <2>1. ~\E line \in Lines : HandleLine(line)
      BY DEF HandleLine, SetMute, voiceVars
  <2>2. ~ServerTakes /\ ~ServerTells /\ ~Recv /\ ~DoOneTask
      BY DEF ServerTakes, ServerTells, Recv, DoOneTask, AddVoiceMsg, voiceVars
  <2>3. Speaker BY <2>1, <2>2 DEF Next
  <2>4. Takes
      BY <2>3 DEF Speaker, PlayVoiceMsg, Wakes, LooksForOne, LooksAtMute, Said
  <2> QED BY <2>3, <2>4, TakesKeepsInv DEF Speaker
<1> QED BY <1>1, SessionInvAlways, PTL DEF Spec, TakenInOrder

-----------------------------------------------------------------------------
(* What a line sends.                                                       *)

\* The room a pack is for.
RoomOf(pack) == Read(pack[2], 4).value

\* A prefix names a room only by a token of its kind that is a number.
FromToken(tokens, room) ==
  \E k \in DOMAIN tokens : tokens[k][1] = "room" /\ Parses(tokens[k][2]) /\ room = tokens[k][2]

\* What the prefixes may be at any point.
Prefixes(tokens) ==
  LET S == {tokens[k][2] : k \in 1..Len(tokens)} \cup {"default", "", "none"}
  IN  [valid: BOOLEAN, mode: S, lang: S, room: S]

\* One token after the other.
PrefixStep(p, token) == IF ~p.valid THEN p ELSE Take(p, token)

\* f is what the prefixes are after each token.
ParsesBy(f, tokens) ==
  /\ f[0] = NoPrefix /\ ParsePrefixes(tokens) = f[Len(tokens)]
  /\ \A n \in 0..Len(tokens) : f[n] \in Prefixes(tokens)
  /\ \A n \in 1..Len(tokens) : f[n] = PrefixStep(f[n - 1], tokens[n])

\* Token by token, the prefixes are read.
LEMMA PrefixSteps ==
  ASSUME NEW A, NEW B, NEW tokens \in Seq(A \X B)
  PROVE  \E f : ParsesBy(f, tokens)
<1> DEFINE N == Len(tokens)
           S == {tokens[k][2] : k \in 1..N} \cup {"default", "", "none"}
           T == Prefixes(tokens)
           next(p, k) == PrefixStep(p, tokens[k])
           Loop(f) == f = [k \in 0..N |->
                             IF k = 0 THEN NoPrefix
                             ELSE IF ~f[k - 1].valid THEN f[k - 1] ELSE Take(f[k - 1], tokens[k])]
           upTo == CHOOSE f : Loop(f)
           step == [k \in 1..N |-> [p \in T |-> next(p, k)]]
<1>0. N \in Nat
    OBVIOUS
<1>1. DOMAIN tokens = 1..N /\ T = [valid: BOOLEAN, mode: S, lang: S, room: S]
    BY DEF Prefixes
<1>2. NoPrefix \in T
  <2> DEFINE a == TRUE  b == "default"  c == ""  d == "none"
  <2>1. a \in BOOLEAN
      BY Zenon
  <2>2. b \in S /\ c \in S /\ d \in S
      OBVIOUS
  <2>3. NoPrefix = [valid |-> a, mode |-> b, lang |-> c, room |-> d]
      BY DEF NoPrefix, NoRoom
  <2> HIDE DEF a, b, c, d, S, T
  <2> QED BY <1>1, <2>1, <2>2, <2>3
<1>3. \A k \in 1..N : \A p \in T : next(p, k) \in T
  <2> SUFFICES ASSUME NEW k \in 1..N, NEW p \in T PROVE next(p, k) \in T
      OBVIOUS
  <2>1. CASE ~p.valid
      BY <2>1 DEF PrefixStep
  <2>2. CASE p.valid
    <3> DEFINE text == tokens[k][2]
    <3>1. text \in S
        BY <1>1
    <3>2. next(p, k) = Take(p, tokens[k])
        BY <2>2 DEF PrefixStep
    <3>3. p \in [valid: BOOLEAN, mode: S, lang: S, room: S]
        BY <1>1
    <3>4. \/ Take(p, tokens[k]) = [p EXCEPT !.lang = text]
          \/ Take(p, tokens[k]) = [p EXCEPT !.mode = text]
          \/ Take(p, tokens[k]) = [p EXCEPT !.room = text]
          \/ Take(p, tokens[k]) = [p EXCEPT !.valid = FALSE]
        BY DEF Take
    <3> HIDE DEF text, next, S, T
    <3>5. CASE Take(p, tokens[k]) = [p EXCEPT !.lang = text]
        BY <1>1, <3>1, <3>2, <3>3, <3>5
    <3>6. CASE Take(p, tokens[k]) = [p EXCEPT !.mode = text]
        BY <1>1, <3>1, <3>2, <3>3, <3>6
    <3>7. CASE Take(p, tokens[k]) = [p EXCEPT !.room = text]
        BY <1>1, <3>1, <3>2, <3>3, <3>7
    <3>8. CASE Take(p, tokens[k]) = [p EXCEPT !.valid = FALSE]
        BY <1>1, <3>1, <3>2, <3>3, <3>8
    <3> QED BY <3>4, <3>5, <3>6, <3>7, <3>8
  <2> QED BY <2>1, <2>2
<1>4. step \in [1..N -> [T -> T]]
  <2> HIDE DEF T, S, N, next
  <2> QED BY <1>3
<1>5. PICK g \in [0..N -> T] : IsRecursion(g, N, NoPrefix, step)
  <2> HIDE DEF step, N, T, S
  <2> QED BY <1>0, <1>2, <1>4, RecursionExists
<1>6. Loop(g)
  <2>1. \A n \in 0..N : g[n] = IF n = 0 THEN NoPrefix ELSE step[n][g[n - 1]]
    <3> HIDE DEF step, N, T, S
    <3> QED BY <1>5 DEF IsRecursion
  <2>2. \A n \in 0..N : n # 0 => n \in 1..N /\ g[n - 1] \in T
    <3>1. \A n \in 0..N : n # 0 => n \in 1..N /\ n - 1 \in 0..N
      <4> HIDE DEF N, S, T
      <4> QED BY <1>0
    <3> HIDE DEF N, T, step
    <3> QED BY <1>5, <3>1
  <2>3. \A n \in 0..N : n # 0 => g[n] = next(g[n - 1], n)
    <3> HIDE DEF N, T, next
    <3> QED BY <2>1, <2>2
  <2> HIDE DEF N, T, step
  <2> QED BY <1>5, <2>1, <2>3 DEF PrefixStep
<1>7. Loop(upTo)
  <2> HIDE DEF Loop
  <2> QED BY <1>6
<1>8. ParsePrefixes(tokens) = upTo[N]
    BY DEF ParsePrefixes
<1> HIDE DEF upTo
<1>9. \A n \in 0..N : upTo[n] = IF n = 0 THEN NoPrefix ELSE next(upTo[n - 1], n)
  <2> HIDE DEF N
  <2> QED BY <1>7 DEF PrefixStep
<1> HIDE DEF Loop, step, next, T, S, N
<1>10. 0 \in 0..N /\ \A n \in 1..N : n \in 0..N /\ n # 0
    BY <1>0
<1> DEFINE P == {n \in 0..N : upTo[n] \in T}
<1>11. 0 \in P
    BY <1>2, <1>9, <1>10
<1>12. \A n \in 1..N : n - 1 \in P => n \in P
    BY <1>3, <1>9, <1>10
<1>13. \A n \in 0..N : n \in P
  <2> HIDE DEF P
  <2> QED BY <1>0, <1>11, <1>12, IntervalInduction
<1>14. /\ upTo[0] = NoPrefix
       /\ \A n \in 0..N : upTo[n] \in T
       /\ \A n \in 1..N : upTo[n] = next(upTo[n - 1], n)
    BY <1>9, <1>10, <1>13
<1> QED BY <1>8, <1>14 DEF ParsesBy, N, T, next

\* See FromToken.
LEMMA PrefixRoom ==
  ASSUME NEW tokens \in Seq(STRING \X STRING)
  PROVE  ParsePrefixes(tokens).room = NoRoom \/ FromToken(tokens, ParsePrefixes(tokens).room)
<1> DEFINE N == Len(tokens)
<1>1. N \in Nat /\ DOMAIN tokens = 1..N
    OBVIOUS
<1>2. PICK f : ParsesBy(f, tokens)
    BY PrefixSteps
<1> DEFINE P == {n \in 0..N : f[n].room = NoRoom \/ FromToken(tokens, f[n].room)}
<1>3. 0 \in P
  <2>1. f[0] = NoPrefix
      BY <1>2 DEF ParsesBy
  <2>2. NoPrefix.room = NoRoom
      BY DEF NoPrefix
  <2>3. f[0].room = NoRoom
      BY <2>1, <2>2
  <2>4. 0 \in 0..N
    <3> HIDE DEF N
    <3> QED BY <1>1
  <2> HIDE DEF N
  <2> QED BY <2>3, <2>4
<1>4. ASSUME NEW n \in 1..N, n - 1 \in P PROVE n \in P
  <2> DEFINE p == f[n - 1]  token == tokens[n]  q == f[n]
  <2>1. n \in 0..N /\ n - 1 \in 0..N /\ n \in DOMAIN tokens
      BY <1>1
  <2>2. q = PrefixStep(p, token) /\ p \in Prefixes(tokens)
      BY <1>2, <2>1 DEF ParsesBy
  <2>3. token[1] = "room" /\ Parses(token[2]) => FromToken(tokens, token[2])
      BY <2>1 DEF FromToken
  <2>4. p.room = NoRoom \/ FromToken(tokens, p.room)
      BY <1>4
  <2>5. \/ q = p
        \/ q = [p EXCEPT !.lang = token[2]]
        \/ q = [p EXCEPT !.mode = token[2]]
        \/ q = [p EXCEPT !.room = token[2]] /\ token[1] = "room" /\ Parses(token[2])
        \/ q = [p EXCEPT !.valid = FALSE]
    <3> HIDE DEF q, p, token
    <3> QED BY <2>2 DEF PrefixStep, Take
  <2> HIDE DEF q, p, token
  <2>6. q.room = p.room \/ (q.room = token[2] /\ token[1] = "room" /\ Parses(token[2]))
      BY <2>2, <2>5 DEF Prefixes
  <2> QED BY <2>1, <2>3, <2>4, <2>6 DEF q
<1>5. N \in P
  <2> HIDE DEF P, N
  <2>1. \A n \in 0..N : n \in P
      BY <1>1, <1>3, <1>4, IntervalInduction
  <2> QED BY <1>1, <2>1
<1> QED BY <1>2, <1>5 DEF ParsesBy

\* What is written goes behind what is there.
LEMMA WriteKeeps ==
  ASSUME NEW s, NEW S, s \in Seq(S), s # <<>>, NEW w, NEW x
  PROVE  /\ Write(s, w, x) # <<>> /\ Head(Write(s, w, x)) = Head(s)
         /\ \E R : Write(s, w, x) \in Seq(R)
<1> DEFINE e == [width |-> w, value |-> x]
<1>1. CASE Fits(s, w)
  <2>1. Write(s, w, x) = Append(s, e)
      BY <1>1 DEF Write
  <2> HIDE DEF e
  <2>2. s \in Seq(S \cup {e})
      BY SeqMonotonic
  <2>3. /\ Append(s, e) \in Seq(S \cup {e}) /\ Append(s, e) # <<>>
        /\ Append(s, e)[1] = s[1]
      BY <2>2
  <2> QED BY <2>1, <2>3
<1>2. CASE ~Fits(s, w)
  <2>1. Write(s, w, x) = s
      BY <1>2 DEF Write
  <2> QED BY <2>1
<1> QED BY <1>1, <1>2

\* A room written first is the room read.
LEMMA ReadsWritten ==
  ASSUME NEW room, NEW f, f = Write(<<>>, 4, room), NEW text, NEW length
  PROVE  /\ Read(f, 4).value = room
         /\ Read(WriteString(f, text, length), 4).value = room
<1> DEFINE one == [width |-> 4, value |-> room]
<1>1. Bytes(<<>>) = 0
  <2>1. <<>> \in Seq(Nat) /\ Len(<<>>) = 0
      OBVIOUS
  <2>2. SumSeq(<<>>) = 0
      BY <2>1, SumSeqSteps
  <2>3. [k \in DOMAIN <<>> |-> <<>>[k].width] = <<>>
      OBVIOUS
  <2> QED BY <2>2, <2>3 DEF Bytes
<1>2. Fits(<<>>, 4)
    BY <1>1 DEF Fits, NET_PACK_MAX_LEN
<1>3. f = <<one>>
    BY <1>2 DEF Write
<1>4. \A s : s # <<>> /\ Head(s) = one => Read(s, 4).value = room
  <2> SUFFICES ASSUME NEW s, s # <<>>, Head(s) = one PROVE Read(s, 4).value = room
      OBVIOUS
  <2>1. Head(s).width = 4 /\ Head(s).value = room
      OBVIOUS
  <2>2. Read(s, 4) = [value |-> Head(s).value, rest |-> Tail(s)]
      BY <2>1 DEF Read
  <2> QED BY <2>1, <2>2
<1>5. f # <<>> /\ Head(f) = one
    BY <1>3
<1> DEFINE bytes == length + 1
           g == Write(f, 2, bytes)  h == Write(g, bytes, Terminated(text))
<1> HIDE DEF one
<1>6. \E S : f \in Seq(S)
  <2>1. one \in {one}
      OBVIOUS
  <2>2. <<one>> \in Seq({one})
      BY <2>1
  <2> QED BY <1>3, <2>2
<1>7. g # <<>> /\ Head(g) = one /\ \E R : g \in Seq(R)
    BY <1>5, <1>6, WriteKeeps
<1>8. h # <<>> /\ Head(h) = one
  <2> HIDE DEF g
  <2> QED BY <1>7, WriteKeeps
<1>9. WriteString(f, text, length) = f \/ WriteString(f, text, length) = h
    BY DEF WriteString
<1> QED BY <1>4, <1>5, <1>8, <1>9

\* Also with a text behind it.
LEMMA RoomBack ==
  ASSUME NEW room, NEW text, NEW length
  PROVE  Read(WriteString(Write(<<>>, 4, room), text, length), 4).value = room
<1> DEFINE f == Write(<<>>, 4, room)
<1>1. f = Write(<<>>, 4, room)
    OBVIOUS
<1> HIDE DEF f
<1>2. Read(WriteString(f, text, length), 4).value = room
    BY <1>1, ReadsWritten
<1> QED BY <1>1, <1>2

\* A pack of a line that is a text is for the room active before it, which is none
\* when it is negative, or for one the line names.
TextFor(line, current, pack) ==
  pack[1] = "send_text" =>
    RoomOf(pack) \in Named(line) \/ (RoomOf(pack) = current /\ ~(current < 0))

\* The packs of a line, and the room active after it.
EffectOk(line, current, effect) ==
  /\ \E S : effect.packs \in Seq(S)
  /\ \A k \in DOMAIN effect.packs : TextFor(line, current, effect.packs[k])
  /\ \/ effect.room = current
     \/ effect.room \in Named(line)
     \/ Len(effect.packs) = 1 /\ effect.packs[1][1] = "goto_room"
        /\ RoomOf(effect.packs[1]) = effect.room

\* An effect without packs that keeps the room, or takes one the line names.
LEMMA NothingOk ==
  ASSUME NEW line, NEW current, NEW effect, effect.packs = <<>>,
         effect.room = current \/ effect.room \in Named(line)
  PROVE  EffectOk(line, current, effect)
<1>1. <<>> \in Seq({}) /\ DOMAIN <<>> = {}
    OBVIOUS
<1> QED BY <1>1 DEF EffectOk

\* An effect of one pack.
LEMMA SingleOk ==
  ASSUME NEW line, NEW current, NEW effect, NEW pack, effect.packs = <<pack>>,
         TextFor(line, current, pack),
         \/ effect.room = current
         \/ pack[1] = "goto_room" /\ RoomOf(pack) = effect.room
  PROVE  EffectOk(line, current, effect)
<1>1. <<pack>> \in Seq({pack}) /\ Len(<<pack>>) = 1 /\ DOMAIN <<pack>> = {1} /\ <<pack>>[1] = pack
    OBVIOUS
<1> QED BY <1>1 DEF EffectOk

\* A pack put behind none, or behind one.
LEMMA PackBehind ==
  ASSUME NEW a, NEW b
  PROVE  Append(<<>>, b) = <<b>> /\ Append(<<a>>, b) = <<a, b>>
<1> DEFINE S == {a, b}  one == <<a>>  two == <<a, b>>  put == Append(one, b)
<1>1. Append(<<>>, b) = <<b>>
    OBVIOUS
<1>2. one \in Seq(S) /\ two \in Seq(S) /\ b \in S
    OBVIOUS
<1>3. Len(one) = 1 /\ one[1] = a /\ Len(two) = 2 /\ two[1] = a /\ two[2] = b
    OBVIOUS
<1> HIDE DEF S, one, two
<1>4. /\ put \in Seq(S) /\ Len(put) = Len(one) + 1
      /\ \A i \in 1..Len(one) : put[i] = one[i]
      /\ put[Len(one) + 1] = b
    BY <1>2, AppendProperties
<1> HIDE DEF put
<1>5. Len(put) = 2 /\ put[1] = a /\ put[2] = b
    BY <1>3, <1>4
<1>6. \A i \in 1..2 : put[i] = two[i]
    BY <1>3, <1>5
<1>7. put = two
    BY <1>2, <1>3, <1>4, <1>5, <1>6, SeqEqual
<1> QED BY <1>1, <1>7 DEF put, one, two

\* The text of a line is for the room it is given.
LEMMA SendsOk ==
  ASSUME NEW line, NEW current, NEW words, NEW prefix, NEW room,
         room = current \/ room \in Named(line)
  PROVE  EffectOk(line, current, SendTextMessage(current, words, prefix, room))
<1> DEFINE e == SendTextMessage(current, words, prefix, room)
           text == <<"send_text", WriteString(Write(<<>>, 4, room), words, Length(words))>>
           langPack == <<"set_language", WriteString(<<>>, prefix.lang, 2)>>
<1> SUFFICES EffectOk(line, current, e)
    OBVIOUS
<1>1. CASE room < 0
  <2>1. e = Nothing(current)
      BY <1>1 DEF SendTextMessage
  <2>2. e.packs = <<>> /\ e.room = current
      BY <2>1 DEF Nothing
  <2> HIDE DEF e
  <2> QED BY <2>2, NothingOk
<1>2. CASE ~(room < 0)
  <2>1. /\ text[1] = "send_text"
        /\ RoomOf(text) = room
    <3>1. text[2] = WriteString(Write(<<>>, 4, room), words, Length(words))
        OBVIOUS
    <3>2. text[1] = "send_text"
        OBVIOUS
    <3> HIDE DEF text
    <3> QED BY <3>1, <3>2, ReadsWritten DEF RoomOf
  <2>2. langPack[1] = "set_language"
      OBVIOUS
  <2>3. /\ e.room = current
        /\ prefix.lang = "" => e.packs = Append(<<>>, text)
        /\ prefix.lang # "" => e.packs = Append(<<langPack>>, text)
      BY <1>2 DEF SendTextMessage, Sends, Nothing
  <2> HIDE DEF e, text, langPack
  <2>4. TextFor(line, current, text) /\ TextFor(line, current, langPack)
      BY <1>2, <2>1, <2>2 DEF TextFor
  <2>5. CASE prefix.lang = ""
    <3>1. e.packs = <<text>>
        BY <2>3, <2>5, PackBehind
    <3> QED BY <2>3, <2>4, <3>1, SingleOk
  <2>6. CASE prefix.lang # ""
    <3>1. e.packs = <<langPack, text>>
        BY <2>3, <2>6, PackBehind
    <3>2. /\ <<langPack, text>> \in Seq({langPack, text})
          /\ DOMAIN <<langPack, text>> = {1, 2}
          /\ <<langPack, text>>[1] = langPack /\ <<langPack, text>>[2] = text
        OBVIOUS
    <3> QED BY <2>3, <2>4, <3>1, <3>2 DEF EffectOk
  <2> QED BY <2>5, <2>6
<1> QED BY <1>1, <1>2

\* No command sends a text.
LEMMA CallsAreNoTexts == \A name \in DOMAIN Calls : Calls[name].type # "send_text"
<1>1. \A type, writes : Call(type, writes).type = type
    BY DEF Call
<1>2. \A code, writes : Action(code, writes).type = "poker_action"
    BY <1>1 DEF Action
<1>3. \A name \in DOMAIN Calls :
        \/ \E type, writes : type # "send_text" /\ Calls[name] = Call(type, writes)
        \/ \E code, writes : Calls[name] = Action(code, writes)
    BY DEF Calls
<1> QED BY <1>1, <1>2, <1>3

\* TOROOM writes one number, the word behind it.
LEMMA GotoWord ==
  ASSUME NEW words
  PROVE  LET call == Calls["TOROOM"]
         IN  /\ Len(call.writes) = 1 /\ DOMAIN call.writes = {1} /\ call.writes[1] = "number"
             /\ WordFor(call, 1, words) = words[2]
<1> DEFINE call == Calls["TOROOM"]
<1>1. call = Call("goto_room", <<"number">>)
    BY DEF Calls
<1>2. call.writes = <<"number">>
    BY <1>1 DEF Call
<1>3. /\ <<"number">> \in Seq({"number"}) /\ Len(<<"number">>) = 1
      /\ DOMAIN <<"number">> = {1} /\ <<"number">>[1] = "number"
    OBVIOUS
<1> HIDE DEF call
<1>4. Len(call.writes) = 1 /\ DOMAIN call.writes = {1} /\ call.writes[1] = "number"
    BY <1>2, <1>3
<1>5. WordFor(call, 1, words) = words[2]
  <2>1. {i \in 1..1 : call.writes[i] \in FromLine} = {1}
      BY <1>4 DEF FromLine
  <2>2. Cardinality({1}) = 1
      BY FS_Singleton
  <2> QED BY <2>1, <2>2 DEF WordFor
<1> QED BY <1>4, <1>5 DEF call

\* TOROOM asks for the room its word gives.
LEMMA GotoRoom ==
  ASSUME NEW words, NEW room
  PROVE  \E fields : /\ WriteCall(Calls["TOROOM"], words, room) = <<<<"goto_room", fields>>>>
                     /\ Read(fields, 4).value = Stoi[words[2]]
<1> DEFINE call == Calls["TOROOM"]
           one(pack, k) ==
             LET what == call.writes[k]
                 word == WordFor(call, k, words)
             IN  CASE what = "room"   -> Write(pack, 4, room)
                   [] what = "number" -> Write(pack, 4, Stoi[word])
                   [] what = "short"  -> Write(pack, 2, Stoi[word] % 65536)
                   [] what = "text"   -> WriteString(pack, word, 1)
                   [] what = "zero"   -> Write(pack, 4, 0)
                   [] what = "now"    -> Write(pack, 8, 0)
                   [] OTHER           -> Write(pack, 1, what)
           Loop(f) == f = [k \in 0..Len(call.writes) |-> IF k = 0 THEN <<>> ELSE one(f[k - 1], k)]
           upTo == CHOOSE f : Loop(f)
           w == [k \in 0..1 |-> IF k = 0 THEN <<>> ELSE one(<<>>, 1)]
<1>1. call.type = "goto_room"
    BY DEF Calls, Call
<1>2. Len(call.writes) = 1 /\ call.writes[1] = "number"
    BY GotoWord
<1>3. WriteCall(call, words, room) = <<<<"goto_room", upTo[1]>>>>
    BY <1>1, <1>2 DEF WriteCall
<1>4. one(<<>>, 1) = Write(<<>>, 4, Stoi[words[2]])
  <2>1. WordFor(call, 1, words) = words[2]
      BY GotoWord
  <2> HIDE DEF call
  <2> QED BY <1>2, <2>1
<1>5. Loop(w)
  <2>1. \A k \in 0..1 : k = 0 \/ (k = 1 /\ w[k - 1] = <<>>)
      OBVIOUS
  <2> HIDE DEF one, call
  <2>2. w = [k \in 0..1 |-> IF k = 0 THEN <<>> ELSE one(w[k - 1], k)]
      BY <2>1
  <2>3. 0..Len(call.writes) = 0..1
      BY <1>2
  <2> HIDE DEF w
  <2> QED BY <2>2, <2>3
<1>6. Loop(upTo)
  <2> HIDE DEF Loop
  <2> QED BY <1>5
<1> HIDE DEF upTo
<1>7. upTo[1] = one(upTo[0], 1) /\ upTo[0] = <<>>
  <2> HIDE DEF one
  <2> QED BY <1>2, <1>6
<1> HIDE DEF one, Loop, call
<1>8. upTo[1] = Write(<<>>, 4, Stoi[words[2]])
    BY <1>4, <1>7
<1> QED BY <1>3, <1>8, ReadsWritten DEF call

\* A command sends one pack, of its type.
LEMMA OneOfItsType ==
  ASSUME NEW call, NEW words, NEW room
  PROVE  \E fields : WriteCall(call, words, room) = <<<<call.type, fields>>>>
<1> DEFINE sends == WriteCall(call, words, room)
<1>1. sends = <<<<call.type, sends[1][2]>>>>
    BY DEF WriteCall
<1> HIDE DEF sends
<1>2. \E fields : sends = <<<<call.type, fields>>>>
    BY <1>1
<1> QED BY <1>2 DEF sends

\* What a command does to the packs and the room.
LEMMA HandlerOk ==
  ASSUME NEW line, line.words \in Seq(STRING), line.words # <<>>,
         Head(line.words) \in DOMAIN RegisterCommands, SizeOk(line.words),
         NEW current, NEW room
  PROVE  EffectOk(line, current, Handler(current, line.words, room))
<1> DEFINE words == line.words
           name == Head(words)
           call == Calls[name]
           e == Handler(current, words, room)
<1> SUFFICES EffectOk(line, current, e)
    OBVIOUS
<1>1. name = words[1] /\ Len(words) \in Nat
    OBVIOUS
<1>2. name \in DOMAIN Calls \cup {"QUIT", "MUTE", "UNMUTE", "USEROOM", "HELP"}
    BY DEF RegisterCommands
<1>3. "USEROOM" \notin DOMAIN Calls /\ name = "TOROOM" => name \in DOMAIN Calls
    BY DEF Calls
<1>4. name \in {"USEROOM", "TOROOM"} => Len(words) = 2
  <2>1. name \in {"USEROOM", "TOROOM"} => RegisterCommands[name] = Counts(2, TRUE, TRUE)
      BY <1>2 DEF RegisterCommands
  <2>2. Counts(2, TRUE, TRUE).exact /\ Counts(2, TRUE, TRUE).min = 2
      BY DEF Counts
  <2> HIDE DEF words
  <2> QED BY <2>1, <2>2 DEF SizeOk, words
<1>5. CASE name \in {"QUIT", "MUTE", "UNMUTE"}
  <2>1. e = Does(current, name)
      BY <1>5 DEF Handler
  <2>2. e.packs = <<>> /\ e.room = current
      BY <2>1 DEF Does, Nothing
  <2> HIDE DEF e
  <2> QED BY <2>2, NothingOk
<1>6. CASE name = "HELP"
  <2>1. e = Nothing(current)
      BY <1>6 DEF Handler
  <2>2. e.packs = <<>> /\ e.room = current
      BY <2>1 DEF Nothing
  <2> HIDE DEF e
  <2> QED BY <2>2, NothingOk
<1>7. CASE name = "USEROOM"
  <2>1. e = Nothing(IF words[2] \in DOMAIN Stoi THEN Stoi[words[2]] ELSE current)
      BY <1>7 DEF Handler
  <2>2. e.packs = <<>> /\ e.room = IF words[2] \in DOMAIN Stoi THEN Stoi[words[2]] ELSE current
      BY <2>1 DEF Nothing
  <2>3. words[2] \in DOMAIN Stoi => Stoi[words[2]] \in Named(line)
      BY <1>1, <1>4, <1>7 DEF Named
  <2> HIDE DEF e
  <2> QED BY <2>2, <2>3, NothingOk
<1>8. CASE name \in DOMAIN Calls \ {"QUIT", "MUTE", "UNMUTE", "USEROOM", "HELP"}
  <2> DEFINE after == IF name = "TOROOM" THEN Stoi[words[2]] ELSE current
             sends == WriteCall(call, words, room)
  <2>1. e = Nothing(current) \/ e = Sends(after, sends)
      BY <1>8 DEF Handler
  <2>2. CASE e = Nothing(current)
    <3>1. e.packs = <<>> /\ e.room = current
        BY <2>2 DEF Nothing
    <3> HIDE DEF e
    <3> QED BY <3>1, NothingOk
  <2>3. CASE e = Sends(after, sends)
    <3>1. e.packs = sends /\ e.room = after
        BY <2>3 DEF Sends, Nothing
    <3>2. \E fields : sends = <<<<call.type, fields>>>>
      <4> HIDE DEF call
      <4> QED BY OneOfItsType
    <3>3. call.type # "send_text"
        BY <1>8, CallsAreNoTexts
    <3>4. CASE name = "TOROOM"
      <4>1. PICK fields : /\ WriteCall(Calls["TOROOM"], words, room) = <<<<"goto_room", fields>>>>
                          /\ Read(fields, 4).value = Stoi[words[2]]
          BY GotoRoom
      <4> DEFINE pack == <<"goto_room", fields>>
      <4>2. e.packs = <<pack>> /\ e.room = Stoi[words[2]]
          BY <3>1, <3>4, <4>1
      <4>3. pack[1] = "goto_room" /\ RoomOf(pack) = Stoi[words[2]]
          BY <4>1 DEF RoomOf
      <4> HIDE DEF e, pack
      <4>4. TextFor(line, current, pack)
          BY <4>3 DEF TextFor
      <4> QED BY <4>2, <4>3, <4>4, SingleOk
    <3>5. CASE name # "TOROOM"
      <4>1. PICK fields : sends = <<<<call.type, fields>>>>
        <5> HIDE DEF sends, call
        <5> QED BY <3>2
      <4> DEFINE pack == <<call.type, fields>>
      <4>2. e.packs = <<pack>> /\ e.room = current
          BY <3>1, <3>5, <4>1
      <4>3. TextFor(line, current, pack)
          BY <3>3 DEF TextFor
      <4> HIDE DEF e, pack
      <4> QED BY <4>2, <4>3, SingleOk
    <3> QED BY <3>4, <3>5
  <2> QED BY <2>1, <2>2, <2>3
<1> QED BY <1>2, <1>5, <1>6, <1>7, <1>8

\* What a line does to the packs and the room.
LEMMA EffectIsOk ==
  ASSUME SessionAssumption, NEW line \in Lines, NEW current
  PROVE  EffectOk(line, current, Effect(line, current))
<1> DEFINE prefix == ParsePrefixes(line.prefixes)
           words == line.words
           room == IF prefix.room = NoRoom THEN current ELSE Stoi[prefix.room]
           known == words # <<>> /\ Head(words) \in DOMAIN RegisterCommands
           command == prefix.mode # "text" /\ known /\ SizeOk(words)
           e == Effect(line, current)
<1> SUFFICES EffectOk(line, current, e)
    OBVIOUS
<1>1. line.prefixes \in Seq(STRING \X STRING) /\ line.words \in Seq(STRING)
    BY DEF SessionAssumption
<1>2. room = current \/ room \in Named(line)
  <2>1. prefix.room = NoRoom \/ FromToken(line.prefixes, prefix.room)
      BY <1>1, PrefixRoom
  <2>2. FromToken(line.prefixes, prefix.room) => Stoi[prefix.room] \in Named(line)
    <3> HIDE DEF prefix
    <3> QED BY DEF FromToken, Named
  <2> HIDE DEF prefix
  <2> QED BY <2>1, <2>2
<1>3. \/ e = Nothing(current)
      \/ command /\ e = Handler(current, words, room)
      \/ e = SendTextMessage(current, words, prefix, room)
    BY DEF Effect
<1>4. CASE e = Nothing(current)
  <2>1. e.packs = <<>> /\ e.room = current
      BY <1>4 DEF Nothing
  <2> HIDE DEF e
  <2> QED BY <2>1, NothingOk
<1>5. CASE command /\ e = Handler(current, words, room)
  <2> HIDE DEF e, room, prefix
  <2> QED BY <1>1, <1>5, HandlerOk
<1>6. CASE e = SendTextMessage(current, words, prefix, room)
  <2> HIDE DEF e, room, prefix
  <2> QED BY <1>2, <1>6, SendsOk
<1> QED BY <1>3, <1>4, <1>5, <1>6

-----------------------------------------------------------------------------
(* Where texts go.                                                          *)

\* A room is known: entered, or one the user has reason to know is closed; or one of
\* the first packs of a queue asks for it.
Reached(known, queue, room, last) ==
  \/ room \in known
  \/ \E i \in 1..last : queue[i][1] = "goto_room" /\ RoomOf(queue[i]) = room

\* The same holds of the active room, while there is a player: it is set before the
\* server is asked, and the asking is on its way as long as it is not answered.
RoomInv ==
  /\ \E S : outbox \in Seq(S)
  /\ TextsReachMembers
  /\ ~m_deleted => \/ m_currentRoom < 0
                   \/ Reached(joined \cup warned, outbox, m_currentRoom, Len(outbox))

\* TextsReachMembers, in these words.
LEMMA TextsReached ==
  TextsReachMembers <=>
    \A k \in DOMAIN outbox :
      outbox[k][1] = "send_text" => Reached(joined \cup warned, outbox, RoomOf(outbox[k]), k - 1)
  BY DEF TextsReachMembers, Reached, RoomOf

\* The same in the next state.
LEMMA TextsReachedNext ==
  TextsReachMembers' <=>
    \A k \in DOMAIN outbox' :
      outbox'[k][1] = "send_text" => Reached((joined \cup warned)', outbox', RoomOf(outbox'[k]), k - 1)
  BY DEF TextsReachMembers, Reached, RoomOf

\* A line: the room of a text is one it names, or the active one.
LEMMA LineKeepsRooms ==
  ASSUME SessionAssumption, RoomInv, NEW line \in Lines, HandleLine(line)
  PROVE  RoomInv'
<1> DEFINE effect == Effect(line, m_currentRoom)
           packs  == effect.packs
           L      == Len(outbox)
           known  == joined \cup warned
           Now(room, last) == Reached(known, outbox, room, last)
           Later(room, last) == Reached(known', outbox', room, last)
<1>1. EffectOk(line, m_currentRoom, effect)
    BY EffectIsOk
<1>2. PICK n \in 0..Len(packs) :
        outbox' = outbox \o SubSeq(packs, 1, n) /\ m_deleted' = (n < Len(packs) \/ effect.does = "QUIT")
    BY DEF HandleLine
<1>3. ~m_deleted /\ m_currentRoom' = effect.room /\ warned' = warned \cup Named(line)
      /\ joined' = joined
    BY DEF HandleLine
<1> HIDE DEF effect
<1>4. PICK S : outbox \in Seq(S)
    BY DEF RoomInv
<1>5. PICK T : packs \in Seq(T)
    BY <1>1 DEF EffectOk
<1>6. /\ L \in Nat /\ DOMAIN outbox = 1..L
      /\ Len(packs) \in Nat /\ DOMAIN packs = 1..Len(packs)
    BY <1>4, <1>5
<1>7. n \in Nat /\ n <= Len(packs) /\ \A j \in 1..n : j \in DOMAIN packs
    BY <1>6
<1>8. /\ outbox' \in Seq(S \cup T)
      /\ Len(outbox') = L + n /\ DOMAIN outbox' = 1..(L + n)
      /\ \A k \in 1..L : outbox'[k] = outbox[k]
      /\ \A j \in 1..n : outbox'[L + j] = packs[j]
  <2> DEFINE first == SubSeq(packs, 1, n)  both == outbox \o first
  <2>1. /\ first \in Seq(T) /\ Len(first) = n
        /\ \A j \in 1..n : first[j] = packs[j]
      BY <1>5, <1>6, <1>7
  <2>2. outbox \in Seq(S \cup T) /\ first \in Seq(S \cup T)
    <3> HIDE DEF first
    <3> QED BY <1>4, <2>1, SeqMonotonic
  <2> HIDE DEF first
  <2>3. /\ both \in Seq(S \cup T) /\ Len(both) = L + n
        /\ \A k \in 1..L : both[k] = outbox[k]
        /\ \A j \in 1..n : both[L + j] = first[j]
    <3> DEFINE U == S \cup T
    <3> HIDE DEF U
    <3>1. outbox \in Seq(U) /\ first \in Seq(U) /\ Len(first) = n
        BY <2>1, <2>2 DEF U
    <3>2. both \in Seq(U) /\ Len(both) = L + n
        BY <3>1, ConcatProperties
    <3>3. \A k \in 1..(L + n) : both[k] = IF k <= L THEN outbox[k] ELSE first[k - L]
        BY <3>1, ConcatProperties
    <3>4. /\ \A k \in 1..L : k \in 1..(L + n) /\ k <= L
          /\ \A j \in 1..n : L + j \in 1..(L + n) /\ ~(L + j <= L) /\ L + j - L = j
      <4> HIDE DEF L, both
      <4> QED BY <1>6, <1>7
    <3> HIDE DEF both, L
    <3>5. \A k \in 1..L : both[k] = outbox[k]
        BY <3>3, <3>4
    <3>6. \A j \in 1..n : both[L + j] = first[j]
      <4> SUFFICES ASSUME NEW j \in 1..n PROVE both[L + j] = first[j]
          OBVIOUS
      <4> DEFINE k == L + j
      <4>1. k \in 1..(L + n) /\ ~(k <= L) /\ k - L = j
        <5>1. j \in 1..n /\ k = L + j
            OBVIOUS
        <5> HIDE DEF both, L, first, k
        <5> QED BY <1>6, <1>7, <5>1
      <4> HIDE DEF k
      <4>2. both[k] = first[j]
          BY <3>3, <4>1
      <4> QED BY <4>2 DEF k
    <3> QED BY <3>2, <3>5, <3>6 DEF U
  <2>4. outbox' = both
      BY <1>2 DEF first
  <2> HIDE DEF both
  <2>5. DOMAIN both = 1..(L + n)
      BY <2>3
  <2> QED BY <2>1, <2>3, <2>4, <2>5
<1> HIDE DEF packs, L
<1>9. \A room : \A last \in 0..L : Now(room, last) =>
        \A l \in last..(L + n) : Later(room, l)
  <2> SUFFICES ASSUME NEW room, NEW last \in 0..L, Now(room, last), NEW l \in last..(L + n)
               PROVE  Later(room, l)
      OBVIOUS
  <2>1. \A i \in 1..last : i \in 1..l /\ i \in 1..L
      BY <1>6, <1>7
  <2>2. known \subseteq known'
      BY <1>3
  <2> QED BY <1>8, <2>1, <2>2 DEF Reached
<1>10. \A room \in Named(line) : \A l : Later(room, l)
    BY <1>3 DEF Reached
<1> HIDE DEF known
<1>11. m_currentRoom < 0 \/ \A l \in L..(L + n) : Later(m_currentRoom, l)
  <2>1. L \in 0..L
      BY <1>6
  <2>2. m_currentRoom < 0 \/ Now(m_currentRoom, L)
      BY <1>3 DEF RoomInv, L, known
  <2> HIDE DEF Now, Later
  <2> QED BY <1>9, <2>1, <2>2
<1>12. TextsReachMembers'
  <2>1. SUFFICES ASSUME NEW k \in 1..(L + n), outbox'[k][1] = "send_text"
                 PROVE  Later(RoomOf(outbox'[k]), k - 1)
      BY <1>8, TextsReachedNext DEF known
  <2>2. CASE k \in 1..L
    <3>1. outbox'[k] = outbox[k] /\ k \in DOMAIN outbox
        BY <1>6, <1>8, <2>2
    <3>2. Now(RoomOf(outbox[k]), k - 1)
        BY <2>1, <3>1, TextsReached DEF RoomInv, known
    <3>3. k - 1 \in 0..L /\ k - 1 \in (k - 1)..(L + n)
        BY <1>6, <1>7, <2>2
    <3> HIDE DEF Now, Later
    <3> QED BY <1>9, <3>1, <3>2, <3>3
  <2>3. CASE k \notin 1..L
    <3> DEFINE j == k - L  pack == packs[j]
    <3>1. j \in 1..n /\ k = L + j /\ k - 1 \in L..(L + n)
        BY <1>6, <1>7, <2>3
    <3> HIDE DEF j
    <3>2. outbox'[k] = pack
        BY <1>8, <3>1
    <3>3. TextFor(line, m_currentRoom, pack)
        BY <1>1, <1>7, <3>1 DEF EffectOk, packs
    <3>4. \/ RoomOf(pack) \in Named(line)
          \/ RoomOf(pack) = m_currentRoom /\ ~(m_currentRoom < 0)
        BY <2>1, <3>2, <3>3 DEF TextFor
    <3> HIDE DEF Now, Later, pack
    <3> QED BY <1>10, <1>11, <3>1, <3>2, <3>4
  <2> QED BY <2>2, <2>3
<1>13. ~m_deleted' => m_currentRoom' < 0 \/ Later(m_currentRoom', Len(outbox'))
  <2> SUFFICES ASSUME ~m_deleted', ~(m_currentRoom' < 0)
               PROVE  Later(m_currentRoom', L + n)
      BY <1>8
  <2>1. n = Len(packs)
    <3>1. ~(n < Len(packs))
        BY <1>2
    <3>2. Len(packs) \in Nat /\ n \in Nat /\ n <= Len(packs)
        BY <1>6, <1>7
    <3> DEFINE all == Len(packs)
    <3> HIDE DEF all
    <3>3. n \in Nat /\ all \in Nat /\ n <= all /\ ~(n < all)
        BY <3>1, <3>2 DEF all
    <3>4. n = all
        BY <3>3
    <3> QED BY <3>4 DEF all
  <2>2. L + n \in L..(L + n)
      BY <1>6, <1>7
  <2>3. CASE effect.room = m_currentRoom
    <3> HIDE DEF Later
    <3> QED BY <1>3, <1>11, <2>2, <2>3
  <2>4. CASE effect.room \in Named(line)
    <3> HIDE DEF Later
    <3> QED BY <1>3, <1>10, <2>4
  <2>5. CASE /\ Len(packs) = 1 /\ packs[1][1] = "goto_room"
             /\ RoomOf(packs[1]) = effect.room
    <3>1. n = 1 /\ 1 \in 1..n /\ L + 1 \in 1..(L + n)
        BY <1>6, <2>1, <2>5
    <3>2. outbox'[L + 1] = packs[1]
        BY <1>8, <3>1
    <3>3. outbox'[L + 1][1] = "goto_room" /\ RoomOf(outbox'[L + 1]) = m_currentRoom'
        BY <1>3, <2>5, <3>2
    <3> QED BY <3>1, <3>3 DEF Reached
  <2> QED BY <1>1, <2>3, <2>4, <2>5 DEF EffectOk, packs
<1> QED BY <1>8, <1>12, <1>13 DEF RoomInv, known

\* The server answers what was asked first, and what is known stays known.
LEMMA ServerKeepsRooms ==
  ASSUME RoomInv, ServerTakes
  PROVE  RoomInv'
<1> DEFINE known == joined \cup warned
           Now(room, last) == Reached(known, outbox, room, last)
           Later(room, last) == Reached(known', outbox', room, last)
           L == Len(outbox)
           room1 == RoomOf(Head(outbox))
<1>1. PICK S : outbox \in Seq(S)
    BY DEF RoomInv
<1>2. outbox # <<>> /\ outbox' = Tail(outbox)
      /\ m_currentRoom' = m_currentRoom /\ m_deleted' = m_deleted
    BY SMTT(30) DEF ServerTakes
<1>3. /\ L \in Nat /\ L >= 1 /\ DOMAIN outbox = 1..L /\ Head(outbox) = outbox[1]
      /\ outbox' \in Seq(S) /\ Len(outbox') = L - 1 /\ DOMAIN outbox' = 1..(L - 1)
      /\ \A k \in 1..(L - 1) : outbox'[k] = outbox[k + 1]
  <2> DEFINE rest == Tail(outbox)
  <2>1. /\ L \in Nat /\ L >= 1 /\ DOMAIN outbox = 1..L /\ Head(outbox) = outbox[1]
        /\ rest \in Seq(S) /\ Len(rest) = L - 1
        /\ \A k \in 1..(L - 1) : rest[k] = outbox[k + 1]
      BY <1>1, <1>2
  <2>2. outbox' = rest
      BY <1>2
  <2> HIDE DEF rest
  <2>3. DOMAIN rest = 1..(L - 1)
      BY <2>1
  <2> QED BY <2>1, <2>2, <2>3
<1>4. /\ known \subseteq known'
      /\ outbox[1][1] = "goto_room" => RoomOf(outbox[1]) \in known'
  <2>1. \/ Head(outbox)[1] = "goto_room"
           /\ \/ joined' = joined \cup {room1} /\ UNCHANGED warned
              \/ warned' = warned \cup {room1} /\ UNCHANGED joined
        \/ /\ Head(outbox)[1] # "goto_room"
           /\ \/ joined' = joined \ {room1} /\ warned' = warned \cup {room1}
              \/ UNCHANGED <<joined, warned>>
      BY DEF ServerTakes, RoomOf
  <2> HIDE DEF room1
  <2>2. known \subseteq known' /\ (Head(outbox)[1] = "goto_room" => room1 \in known')
      BY <2>1
  <2> QED BY <1>3, <2>2 DEF room1
<1> HIDE DEF known, L
<1>5. \A room : \A last \in Nat : last <= L /\ Now(room, last) => Later(room, last - 1)
  <2> SUFFICES ASSUME NEW room, NEW last \in Nat, last <= L, Now(room, last)
               PROVE  Later(room, last - 1)
      OBVIOUS
  <2>1. CASE room \in known
      BY <1>4, <2>1 DEF Reached
  <2>2. CASE \E i \in 1..last : outbox[i][1] = "goto_room" /\ RoomOf(outbox[i]) = room
    <3>1. PICK i \in 1..last : outbox[i][1] = "goto_room" /\ RoomOf(outbox[i]) = room
        BY <2>2
    <3>2. CASE i = 1
        BY <1>4, <3>1, <3>2 DEF Reached
    <3>3. CASE i # 1
      <4> DEFINE h == i - 1
      <4>1. h \in 1..(last - 1) /\ h \in 1..(L - 1) /\ h + 1 = i
          BY <1>3, <3>3
      <4> HIDE DEF h
      <4>2. outbox'[h] = outbox[i]
          BY <1>3, <4>1
      <4> QED BY <3>1, <4>1, <4>2 DEF Reached
    <3> QED BY <3>2, <3>3
  <2> QED BY <2>1, <2>2 DEF Reached
<1>6. TextsReachMembers'
  <2>1. SUFFICES ASSUME NEW k \in 1..(L - 1), outbox'[k][1] = "send_text"
                 PROVE  Later(RoomOf(outbox'[k]), k - 1)
      BY <1>3, TextsReachedNext DEF known
  <2> DEFINE h == k + 1
  <2>2. h \in 1..L /\ h - 1 = k /\ k \in Nat /\ k <= L
      BY <1>3
  <2>3. outbox'[k] = outbox[h] /\ h \in DOMAIN outbox
      BY <1>3, <2>2
  <2> HIDE DEF h
  <2>4. Now(RoomOf(outbox[h]), k)
      BY <2>1, <2>2, <2>3, TextsReached DEF RoomInv, known
  <2> HIDE DEF Now, Later
  <2> QED BY <1>5, <2>2, <2>3, <2>4
<1>7. ~m_deleted' => m_currentRoom' < 0 \/ Later(m_currentRoom', Len(outbox'))
  <2>1. ~m_deleted => m_currentRoom < 0 \/ Now(m_currentRoom, L)
      BY DEF RoomInv, known, L
  <2>2. L <= L
      BY <1>3
  <2> HIDE DEF Now, Later
  <2> QED BY <1>2, <1>3, <1>5, <2>1, <2>2
<1> QED BY <1>3, <1>6, <1>7 DEF RoomInv, known

\* Nobody else touches what RoomInv is about.
LEMMA RoomsUntouched ==
  ASSUME RoomInv, UNCHANGED <<m_currentRoom, m_deleted, outbox, joined, warned>>
  PROVE  RoomInv'
<1>1. TextsReachMembers'
    BY DEF RoomInv, TextsReachMembers
<1>2. ~m_deleted' => \/ m_currentRoom' < 0
                     \/ Reached((joined \cup warned)', outbox', m_currentRoom', Len(outbox'))
    BY DEF RoomInv
<1>3. \E S : outbox' \in Seq(S)
    BY DEF RoomInv
<1> QED BY <1>1, <1>2, <1>3 DEF RoomInv

\* The active room is set before the server has let the user in; still, when the
\* server comes to a text, its room has been entered, unless the user was told it is
\* closed, left it, or named it without joining (CommandProcessor.cpp:147-172, 370-391).
THEOREM TextsStayWithMembers == Spec => []TextsReachMembers
<1>1. Init => RoomInv
  <2>1. Init => outbox = <<>> /\ m_currentRoom = -1
      BY DEF Init
  <2>2. -1 < 0 /\ DOMAIN <<>> = {} /\ <<>> \in Seq({})
      OBVIOUS
  <2> QED BY <2>1, <2>2 DEF RoomInv, TextsReachMembers
<1>2. RoomInv /\ [Next]_vars => RoomInv'
  <2> SUFFICES ASSUME RoomInv, [Next]_vars PROVE RoomInv'
      OBVIOUS
  <2>1. ASSUME NEW line \in Lines, HandleLine(line) PROVE RoomInv'
      BY <2>1, SessionAssumption, LineKeepsRooms
  <2>2. CASE ServerTakes
      BY <2>2, ServerKeepsRooms
  <2>3. CASE ServerTells
      BY <2>3, RoomsUntouched DEF ServerTells, lineVars
  <2>4. CASE Recv
      BY <2>4, RoomsUntouched DEF Recv, lineVars
  <2>5. CASE DoOneTask
      BY <2>5, RoomsUntouched DEF DoOneTask, lineVars
  <2>6. CASE Speaker
      BY <2>6, RoomsUntouched DEF Speaker, lineVars
  <2>7. CASE UNCHANGED vars
      BY <2>7, RoomsUntouched DEF vars, lineVars
  <2> QED BY <2>1, <2>2, <2>3, <2>4, <2>5, <2>6, <2>7 DEF Next
<1>3. RoomInv => TextsReachMembers
    BY DEF RoomInv
<1> QED BY <1>1, <1>2, <1>3, PTL DEF Spec

-----------------------------------------------------------------------------
(* What a line means.                                                       *)

\* The value is the text of the last token of a kind among the first n, or the
\* default when there is none.
Latest(tokens, kind, n, value, default) ==
  \/ value = default /\ \A k \in 1..n : tokens[k][1] # kind
  \/ \E k \in 1..n : /\ tokens[k][1] = kind /\ value = tokens[k][2]
                     /\ \A j \in 1..n : tokens[j][1] = kind => j <= k

\* A token of another kind changes nothing, and one of the kind is the last.
LEMMA LatestStep ==
  ASSUME NEW tokens, NEW kind, NEW default, NEW n \in Nat, n >= 1
  PROVE  /\ tokens[n][1] # kind =>
              \A value : Latest(tokens, kind, n - 1, value, default)
                          => Latest(tokens, kind, n, value, default)
         /\ tokens[n][1] = kind => Latest(tokens, kind, n, tokens[n][2], default)
<1>1. \A k \in 1..n : k \in 1..(n - 1) \/ k = n
    OBVIOUS
<1>2. \A k \in 1..(n - 1) : k \in 1..n
    OBVIOUS
<1>3. n \in 1..n /\ \A k \in 1..n : k <= n
    OBVIOUS
<1>4. ASSUME tokens[n][1] # kind, NEW value, Latest(tokens, kind, n - 1, value, default)
      PROVE  Latest(tokens, kind, n, value, default)
  <2>1. CASE value = default /\ \A k \in 1..(n - 1) : tokens[k][1] # kind
    <3>1. \A k \in 1..n : tokens[k][1] # kind
        BY <1>1, <1>4, <2>1
    <3> QED BY <2>1, <3>1 DEF Latest
  <2>2. CASE \E k \in 1..(n - 1) : /\ tokens[k][1] = kind /\ value = tokens[k][2]
                                   /\ \A j \in 1..(n - 1) : tokens[j][1] = kind => j <= k
    <3>1. PICK k \in 1..(n - 1) : /\ tokens[k][1] = kind /\ value = tokens[k][2]
                                  /\ \A j \in 1..(n - 1) : tokens[j][1] = kind => j <= k
        BY <2>2
    <3>2. \A j \in 1..n : tokens[j][1] = kind => j <= k
        BY <1>1, <1>4, <3>1
    <3> QED BY <1>2, <3>1, <3>2 DEF Latest
  <2> QED BY <1>4, <2>1, <2>2 DEF Latest
<1>5. tokens[n][1] = kind => Latest(tokens, kind, n, tokens[n][2], default)
    BY <1>3 DEF Latest
<1> QED BY <1>4, <1>5

\* The same, of all the tokens of a line.
LEMMA LatestIsLast ==
  ASSUME NEW line, NEW S, line.prefixes \in Seq(S), NEW kind, NEW value, NEW default,
         Latest(line.prefixes, kind, Len(line.prefixes), value, default)
  PROVE  value = IF Of(line, kind) = {} THEN default ELSE LastOf(line, kind)
<1> DEFINE tokens == line.prefixes  N == Len(tokens)  T == Of(line, kind)
<1>1. N \in Nat /\ DOMAIN tokens = 1..N
    OBVIOUS
<1>2. T = {k \in 1..N : tokens[k][1] = kind}
    BY <1>1 DEF Of
<1>3. LastOf(line, kind) = tokens[Max(T)][2]
    BY DEF LastOf
<1>4. \/ value = default /\ \A k \in 1..N : tokens[k][1] # kind
      \/ \E k \in 1..N : /\ tokens[k][1] = kind /\ value = tokens[k][2]
                         /\ \A j \in 1..N : tokens[j][1] = kind => j <= k
    BY DEF Latest
<1> HIDE DEF T, N, tokens
<1>5. CASE value = default /\ \A k \in 1..N : tokens[k][1] # kind
  <2>1. T = {}
      BY <1>2, <1>5
  <2> QED BY <1>5, <2>1 DEF T
<1>6. CASE \E k \in 1..N : /\ tokens[k][1] = kind /\ value = tokens[k][2]
                           /\ \A j \in 1..N : tokens[j][1] = kind => j <= k
  <2>1. PICK k \in 1..N : /\ tokens[k][1] = kind /\ value = tokens[k][2]
                          /\ \A j \in 1..N : tokens[j][1] = kind => j <= k
      BY <1>6
  <2>2. k \in T /\ T # {} /\ T \in SUBSET Nat /\ \A j \in T : j <= k
      BY <1>2, <2>1
  <2>3. Max(T) \in T /\ k <= Max(T)
      BY <1>1, <2>1, <2>2, MaxOfBounded
  <2> DEFINE m == Max(T)
  <2> HIDE DEF m
  <2>4. m = k
    <3>1. m \in Nat /\ m <= k /\ k <= m /\ k \in Nat
        BY <2>2, <2>3 DEF m
    <3> QED BY <3>1
  <2> QED BY <1>3, <2>1, <2>2, <2>4 DEF m, T
<1> QED BY <1>4, <1>5, <1>6

\* What ParsePrefixes has after n tokens: nothing valid after a wrong one, and the
\* last of each kind.
Heard(tokens, n, p) ==
  /\ p.valid <=> \A k \in 1..n : /\ tokens[k][1] # "other"
                                 /\ tokens[k][1] = "room" => Parses(tokens[k][2])
  /\ p.valid => /\ Latest(tokens, "lang", n, p.lang, "")
                /\ Latest(tokens, "mode", n, p.mode, "default")
                /\ Latest(tokens, "room", n, p.room, NoRoom)

Kinds == {"lang", "mode", "room", "other"}

\* One more token is heard.
LEMMA HeardStep ==
  ASSUME NEW tokens, NEW n \in Nat, n >= 1, tokens[n][1] \in Kinds,
         NEW M, NEW p \in [valid: BOOLEAN, mode: M, lang: M, room: M],
         Heard(tokens, n - 1, p)
  PROVE  Heard(tokens, n, PrefixStep(p, tokens[n]))
<1> DEFINE token == tokens[n]  q == PrefixStep(p, token)
           Fine(k) == /\ tokens[k][1] # "other"
                      /\ tokens[k][1] = "room" => Parses(tokens[k][2])
<1> SUFFICES Heard(tokens, n, q)
    OBVIOUS
<1>1. token[1] \in Kinds
    OBVIOUS
<1>2. (\A k \in 1..n : Fine(k)) <=> (\A k \in 1..(n - 1) : Fine(k)) /\ Fine(n)
  <2>1. \A k : k \in 1..n <=> k \in 1..(n - 1) \/ k = n
      OBVIOUS
  <2> HIDE DEF Fine
  <2> QED BY <2>1
<1>3. p.valid <=> \A k \in 1..(n - 1) : Fine(k)
    BY DEF Heard
<1>4. p.valid => /\ Latest(tokens, "lang", n - 1, p.lang, "")
                 /\ Latest(tokens, "mode", n - 1, p.mode, "default")
                 /\ Latest(tokens, "room", n - 1, p.room, NoRoom)
    BY DEF Heard
<1>5. \A kind, value, default :
        /\ token[1] # kind /\ Latest(tokens, kind, n - 1, value, default)
              => Latest(tokens, kind, n, value, default)
        /\ token[1] = kind => Latest(tokens, kind, n, token[2], default)
    BY LatestStep
<1>6. Fine(n) <=> token[1] # "other" /\ (token[1] = "room" => Parses(token[2]))
    OBVIOUS
<1> HIDE DEF Fine
<1>7. ASSUME q.valid <=> p.valid /\ Fine(n),
             q.valid => /\ Latest(tokens, "lang", n, q.lang, "")
                        /\ Latest(tokens, "mode", n, q.mode, "default")
                        /\ Latest(tokens, "room", n, q.room, NoRoom)
      PROVE  Heard(tokens, n, q)
  <2>1. q.valid <=> \A k \in 1..n : Fine(k)
      BY <1>2, <1>3, <1>7
  <2> HIDE DEF q
  <2> QED BY <1>7, <2>1 DEF Heard, Fine
<1>8. CASE ~p.valid
  <2>1. q = p
      BY <1>8 DEF PrefixStep
  <2> QED BY <1>7, <1>8, <2>1
<1>9. CASE p.valid
  <2>1. q = Take(p, token)
      BY <1>9 DEF PrefixStep
  <2>2. CASE token[1] = "lang"
    <3>1. q = [p EXCEPT !.lang = token[2]]
        BY <2>1, <2>2 DEF Take
    <3>2. q.valid = p.valid /\ q.lang = token[2] /\ q.mode = p.mode /\ q.room = p.room
      <4> HIDE DEF q, token
      <4> QED BY <3>1
    <3>3. /\ token[1] = "lang" /\ token[1] # "mode" /\ token[1] # "room"
          /\ token[1] # "other"
        BY <2>2
    <3> HIDE DEF q, token
    <3>4. /\ Latest(tokens, "lang", n, q.lang, "")
          /\ Latest(tokens, "mode", n, q.mode, "default")
          /\ Latest(tokens, "room", n, q.room, NoRoom)
        BY <1>4, <1>5, <1>9, <3>2, <3>3
    <3> QED BY <1>6, <1>7, <1>9, <3>2, <3>3, <3>4
  <2>3. CASE token[1] = "mode"
    <3>1. q = [p EXCEPT !.mode = token[2]]
        BY <2>1, <2>3 DEF Take
    <3>2. q.valid = p.valid /\ q.mode = token[2] /\ q.lang = p.lang /\ q.room = p.room
      <4> HIDE DEF q, token
      <4> QED BY <3>1
    <3>3. /\ token[1] = "mode" /\ token[1] # "lang" /\ token[1] # "room"
          /\ token[1] # "other"
        BY <2>3
    <3> HIDE DEF q, token
    <3>4. /\ Latest(tokens, "lang", n, q.lang, "")
          /\ Latest(tokens, "mode", n, q.mode, "default")
          /\ Latest(tokens, "room", n, q.room, NoRoom)
        BY <1>4, <1>5, <1>9, <3>2, <3>3
    <3> QED BY <1>6, <1>7, <1>9, <3>2, <3>3, <3>4
  <2>4. CASE token[1] = "room" /\ Parses(token[2])
    <3>1. q = [p EXCEPT !.room = token[2]]
        BY <2>1, <2>4 DEF Take
    <3>2. q.valid = p.valid /\ q.room = token[2] /\ q.lang = p.lang /\ q.mode = p.mode
      <4> HIDE DEF q, token
      <4> QED BY <3>1
    <3>3. /\ token[1] = "room" /\ token[1] # "lang" /\ token[1] # "mode"
          /\ token[1] # "other"
        BY <2>4
    <3> HIDE DEF q, token
    <3>4. /\ Latest(tokens, "lang", n, q.lang, "")
          /\ Latest(tokens, "mode", n, q.mode, "default")
          /\ Latest(tokens, "room", n, q.room, NoRoom)
        BY <1>4, <1>5, <1>9, <3>2, <3>3
    <3> QED BY <1>6, <1>7, <1>9, <2>4, <3>2, <3>3, <3>4
  <2>5. CASE \/ token[1] = "other"
             \/ token[1] = "room" /\ ~Parses(token[2])
    <3>1. q = [p EXCEPT !.valid = FALSE]
        BY <2>1, <2>5 DEF Take
    <3>2. q.valid = FALSE
      <4> HIDE DEF q, token
      <4> QED BY <3>1
    <3> HIDE DEF q, token
    <3>3. ~Fine(n)
        BY <1>6, <2>5
    <3> QED BY <1>7, <3>2, <3>3
  <2> HIDE DEF q, token
  <2> QED BY <1>1, <2>2, <2>3, <2>4, <2>5 DEF Kinds
<1> HIDE DEF q
<1> QED BY <1>8, <1>9

\* The texts of tokens.  The provers do not know that a literal is in STRING.
Texts == STRING \cup {"en", "cn", "text", "cmd"}

\* The kinds of tokens, and the texts of two of them.
LEMMA Tokens ==
  /\ Token \subseteq Kinds \X Texts
  /\ \A token \in Token : /\ token[1] = "lang" => token[2] \in {"en", "cn"}
                          /\ token[1] = "mode" => token[2] \in {"text", "cmd"}
<1>1. \A token \in Token : \/ token \in {"lang"} \X {"en", "cn"}
                            \/ token \in {"mode"} \X {"text", "cmd"}
                            \/ token \in {"room", "other"} \X STRING
    BY DEF Token
<1>2. ASSUME NEW token \in {"lang"} \X {"en", "cn"}
      PROVE  token \in Kinds \X Texts /\ token[1] = "lang" /\ token[2] \in {"en", "cn"}
  <2>1. token[1] = "lang" /\ token[2] \in {"en", "cn"} /\ token = <<token[1], token[2]>>
      OBVIOUS
  <2>2. "lang" \in Kinds /\ "en" \in Texts /\ "cn" \in Texts
      BY DEF Kinds, Texts
  <2> QED BY <2>1, <2>2
<1>3. ASSUME NEW token \in {"mode"} \X {"text", "cmd"}
      PROVE  token \in Kinds \X Texts /\ token[1] = "mode" /\ token[2] \in {"text", "cmd"}
  <2>1. token[1] = "mode" /\ token[2] \in {"text", "cmd"} /\ token = <<token[1], token[2]>>
      OBVIOUS
  <2>2. "mode" \in Kinds /\ "text" \in Texts /\ "cmd" \in Texts
      BY DEF Kinds, Texts
  <2> QED BY <2>1, <2>2
<1>4. \A token \in {"room", "other"} \X STRING :
        token \in Kinds \X Texts /\ token[1] \in {"room", "other"}
    BY DEF Kinds, Texts
<1> QED BY <1>1, <1>2, <1>3, <1>4

\* The last of a kind is one of its tokens.
LEMMA LastIsOne ==
  ASSUME NEW line, line.prefixes \in Seq(Token), NEW kind, Of(line, kind) # {}
  PROVE  \E k \in Of(line, kind) : LastOf(line, kind) = line.prefixes[k][2]
                                   /\ line.prefixes[k] \in Token /\ line.prefixes[k][1] = kind
<1> DEFINE T == Of(line, kind)
<1>1. DOMAIN line.prefixes = 1..Len(line.prefixes) /\ Len(line.prefixes) \in Nat
    OBVIOUS
<1>2. T \in SUBSET Nat /\ \A k \in T : k <= Len(line.prefixes)
    BY <1>1 DEF Of
<1>3. Max(T) \in T
  <2> HIDE DEF T
  <2>1. T # {}
      BY DEF T
  <2> QED BY <1>1, <1>2, <2>1, MaxOfBounded
<1>4. \A k \in T : line.prefixes[k] \in Token /\ line.prefixes[k][1] = kind
  <2>1. \A k \in 1..Len(line.prefixes) : line.prefixes[k] \in Token
      OBVIOUS
  <2> QED BY <1>1, <2>1 DEF Of
<1>5. LastOf(line, kind) = line.prefixes[Max(T)][2]
    BY DEF LastOf
<1> QED BY <1>3, <1>4, <1>5

\* The prefixes of a line are those the line names last, unless one is wrong.
PrefixSays(line, p) ==
  /\ p.valid <=> ~Invalid(line)
  /\ p.valid =>
       /\ p.lang = IF Of(line, "lang") = {} THEN "" ELSE LastOf(line, "lang")
       /\ p.mode = IF Of(line, "mode") = {} THEN "default" ELSE LastOf(line, "mode")
       /\ p.room = IF Of(line, "room") = {} THEN NoRoom ELSE LastOf(line, "room")

\* ParsePrefixes hears all of the line.
LEMMA PrefixMeans ==
  ASSUME NEW line, line.prefixes \in Seq(Token)
  PROVE  PrefixSays(line, ParsePrefixes(line.prefixes))
<1> DEFINE tokens == line.prefixes  N == Len(tokens)  p == ParsePrefixes(tokens)
<1>1. N \in Nat /\ DOMAIN tokens = 1..N
    OBVIOUS
<1>2. tokens \in Seq(Kinds \X Texts)
    BY Tokens, SeqMonotonic
<1>3. PICK f : ParsesBy(f, tokens)
    BY <1>2, PrefixSteps
<1> DEFINE P == {n \in 0..N : Heard(tokens, n, f[n])}
<1>4. 0 \in P
  <2>1. f[0] = NoPrefix
      BY <1>3 DEF ParsesBy
  <2> DEFINE none == NoPrefix
  <2>2. /\ none.valid = TRUE /\ none.lang = "" /\ none.mode = "default"
        /\ none.room = NoRoom
      BY DEF NoPrefix
  <2>3. 1..0 = {} /\ 0 \in 0..N
    <3> HIDE DEF N
    <3> QED BY <1>1
  <2>4. \A kind, default : Latest(tokens, kind, 0, default, default)
      BY <2>3 DEF Latest
  <2> HIDE DEF none
  <2>5. Heard(tokens, 0, none)
      BY <2>2, <2>3, <2>4 DEF Heard
  <2> HIDE DEF N
  <2> QED BY <2>1, <2>3, <2>5 DEF none
<1>5. ASSUME NEW n \in 1..N, n - 1 \in P PROVE n \in P
  <2>1. n \in 0..N /\ n - 1 \in 0..N /\ n \in Nat /\ n >= 1
      BY <1>1
  <2>2. f[n] = PrefixStep(f[n - 1], tokens[n]) /\ f[n - 1] \in Prefixes(tokens)
      BY <1>3, <2>1 DEF ParsesBy
  <2>3. tokens[n][1] \in Kinds
      BY <1>1, <1>2
  <2>4. Heard(tokens, n - 1, f[n - 1])
      BY <1>5
  <2>5. PICK M : f[n - 1] \in [valid: BOOLEAN, mode: M, lang: M, room: M]
      BY <2>2 DEF Prefixes
  <2> HIDE DEF N, tokens
  <2> QED BY <2>1, <2>2, <2>3, <2>4, <2>5, HeardStep
<1>6. Heard(tokens, N, p)
  <2> HIDE DEF P, N
  <2>1. \A n \in 0..N : n \in P
      BY <1>1, <1>4, <1>5, IntervalInduction
  <2>2. N \in P
      BY <1>1, <2>1
  <2> QED BY <1>3, <2>2 DEF P, ParsesBy, N
<1>7. p.valid <=> ~Invalid(line)
  <2>1. Invalid(line) <=> \/ \E k \in 1..N : tokens[k][1] = "other"
                          \/ \E k \in 1..N : tokens[k][1] = "room" /\ ~Parses(tokens[k][2])
      BY <1>1 DEF Invalid, Of
  <2> HIDE DEF p, tokens, N
  <2> QED BY <1>6, <2>1 DEF Heard
<1>8. ASSUME p.valid
      PROVE /\ Latest(tokens, "lang", N, p.lang, "")
            /\ Latest(tokens, "mode", N, p.mode, "default")
            /\ Latest(tokens, "room", N, p.room, NoRoom)
    BY <1>6, <1>8 DEF Heard
<1>9. \A kind, value, default : Latest(tokens, kind, N, value, default) =>
        value = IF Of(line, kind) = {} THEN default ELSE LastOf(line, kind)
    BY LatestIsLast
<1> HIDE DEF p, N, tokens
<1>10. p.valid =>
         /\ p.lang = IF Of(line, "lang") = {} THEN "" ELSE LastOf(line, "lang")
         /\ p.mode = IF Of(line, "mode") = {} THEN "default" ELSE LastOf(line, "mode")
         /\ p.room = IF Of(line, "room") = {} THEN NoRoom ELSE LastOf(line, "room")
    BY <1>8, <1>9
<1> QED BY <1>7, <1>10 DEF PrefixSays, p, tokens

\* The bytes of up to three fields.
LEMMA BytesOfFew ==
  ASSUME NEW a, NEW b, NEW c, a.width \in Nat, b.width \in Nat, c.width \in Nat
  PROVE  /\ Bytes(<<>>) = 0 /\ Bytes(<<a>>) = a.width
         /\ Bytes(<<a, b>>) = a.width + b.width
         /\ Bytes(<<a, b, c>>) = a.width + b.width + c.width
<1> DEFINE A == a.width  B == b.width  C == c.width
<1>1. SumSeq(<<>>) = 0
  <2>1. <<>> \in Seq(Nat) /\ Len(<<>>) = 0
      OBVIOUS
  <2> QED BY <2>1, SumSeqSteps
<1>2. \A x \in Nat : SumSeq(<<x>>) = x
  <2> SUFFICES ASSUME NEW x \in Nat PROVE SumSeq(<<x>>) = x
      OBVIOUS
  <2> DEFINE s == <<x>>
  <2>1. s \in Seq(Nat) /\ Len(s) = 1 /\ s[1] = x
      OBVIOUS
  <2> HIDE DEF s
  <2>2. PICK u \in [0..1 -> Nat] : /\ u[0] = 0 /\ SumSeq(s) = u[1]
                                   /\ \A n \in 1..1 : u[n] = u[n - 1] + s[n]
      BY <2>1, SumSeqSteps
  <2>3. u[1] = u[0] + s[1]
      BY <2>2
  <2>4. SumSeq(s) = x
      BY <2>1, <2>2, <2>3
  <2> QED BY <2>4 DEF s
<1>3. \A x, y \in Nat : SumSeq(<<x, y>>) = x + y
  <2> SUFFICES ASSUME NEW x \in Nat, NEW y \in Nat PROVE SumSeq(<<x, y>>) = x + y
      OBVIOUS
  <2> DEFINE s == <<x, y>>
  <2>1. s \in Seq(Nat) /\ Len(s) = 2 /\ s[1] = x /\ s[2] = y
      OBVIOUS
  <2> HIDE DEF s
  <2>2. PICK u \in [0..2 -> Nat] : /\ u[0] = 0 /\ SumSeq(s) = u[2]
                                   /\ \A n \in 1..2 : u[n] = u[n - 1] + s[n]
      BY <2>1, SumSeqSteps
  <2>3. u[1] = u[0] + s[1] /\ u[2] = u[1] + s[2]
      BY <2>2
  <2>4. SumSeq(s) = x + y
      BY <2>1, <2>2, <2>3
  <2> QED BY <2>4 DEF s
<1>4. \A x, y, z \in Nat : SumSeq(<<x, y, z>>) = x + y + z
  <2> SUFFICES ASSUME NEW x \in Nat, NEW y \in Nat, NEW z \in Nat
               PROVE  SumSeq(<<x, y, z>>) = x + y + z
      OBVIOUS
  <2> DEFINE s == <<x, y, z>>
  <2>1. s \in Seq(Nat) /\ Len(s) = 3 /\ s[1] = x /\ s[2] = y /\ s[3] = z
      OBVIOUS
  <2> HIDE DEF s
  <2>2. PICK u \in [0..3 -> Nat] : /\ u[0] = 0 /\ SumSeq(s) = u[3]
                                   /\ \A n \in 1..3 : u[n] = u[n - 1] + s[n]
      BY <2>1, SumSeqSteps
  <2>3. u[1] = u[0] + s[1] /\ u[2] = u[1] + s[2] /\ u[3] = u[2] + s[3]
      BY <2>2
  <2>4. SumSeq(s) = x + y + z
      BY <2>1, <2>2, <2>3
  <2> QED BY <2>4 DEF s
<1>5. /\ [k \in DOMAIN <<>> |-> <<>>[k].width] = <<>>
      /\ [k \in DOMAIN <<a>> |-> <<a>>[k].width] = <<A>>
      /\ [k \in DOMAIN <<a, b>> |-> <<a, b>>[k].width] = <<A, B>>
      /\ [k \in DOMAIN <<a, b, c>> |-> <<a, b, c>>[k].width] = <<A, B, C>>
    OBVIOUS
<1>6. A \in Nat /\ B \in Nat /\ C \in Nat
    OBVIOUS
<1> HIDE DEF A, B, C
<1>7. /\ Bytes(<<>>) = 0 /\ Bytes(<<a>>) = A /\ Bytes(<<a, b>>) = A + B
      /\ Bytes(<<a, b, c>>) = A + B + C
    BY <1>1, <1>2, <1>3, <1>4, <1>5, <1>6 DEF Bytes
<1> QED BY <1>7 DEF A, B, C

Field(w, v) == [width |-> w, value |-> v]

\* A string is read back from its length and its bytes.
LEMMA StringBack ==
  ASSUME NEW bytes \in Nat, bytes >= 1, NEW text
  PROVE  ReadString(<<Field(2, bytes), Field(bytes, text)>>).value = text
<1> DEFINE a == Field(2, bytes)  b == Field(bytes, text)
           count == Read(<<a, b>>, 2)
<1>1. a.width = 2 /\ a.value = bytes /\ b.width = bytes /\ b.value = text
    BY DEF Field
<1> HIDE DEF a, b
<1>2. Head(<<a, b>>) = a /\ Tail(<<a, b>>) = <<b>> /\ <<a, b>> # <<>>
    OBVIOUS
<1>3. count = [value |-> bytes, rest |-> <<b>>]
    BY <1>1, <1>2 DEF Read
<1>4. count.value = bytes /\ count.rest = <<b>>
    BY <1>3
<1>5. Bytes(<<b>>) = bytes
    BY <1>1, BytesOfFew
<1>6. Head(<<b>>) = b /\ <<b>> # <<>>
    OBVIOUS
<1>7. Read(<<b>>, bytes) = [value |-> text, rest |-> Tail(<<b>>)]
    BY <1>1, <1>6 DEF Read
<1>8. ~(bytes <= 0 \/ bytes < bytes)
    OBVIOUS
<1> HIDE DEF count
<1>9. ReadString(<<a, b>>) = Read(<<b>>, bytes)
  <2>1. ReadString(<<a, b>>) =
          IF count.value <= 0 \/ Bytes(count.rest) < count.value
          THEN [value |-> "", rest |-> count.rest] ELSE Read(count.rest, count.value)
      BY DEF ReadString, count
  <2> QED BY <1>4, <1>5, <1>8, <2>1
<1>10. ReadString(<<a, b>>).value = text
    BY <1>7, <1>9
<1> QED BY <1>10 DEF a, b

\* Nothing is read from nothing.
LEMMA NothingBack == ReadString(<<>>).value = ""
<1> DEFINE count == Read(<<>>, 2)
<1>1. Bytes(<<>>) = 0
  <2> DEFINE a == Field(0, 0)
  <2>1. a.width \in Nat
      BY DEF Field
  <2> HIDE DEF a
  <2> QED BY <2>1, BytesOfFew
<1>2. count = [value |-> 0, rest |-> <<>>]
    BY <1>1 DEF Read
<1>3. count.value = 0 /\ count.rest = <<>>
    BY <1>2
<1> HIDE DEF count
<1>4. ReadString(<<>>) =
        IF count.value <= 0 \/ Bytes(count.rest) < count.value
        THEN [value |-> "", rest |-> count.rest] ELSE Read(count.rest, count.value)
    BY DEF ReadString, count
<1>5. count.value <= 0
    BY <1>3
<1> DEFINE read == ReadString(<<>>)
<1> HIDE DEF read
<1>6. read = [value |-> "", rest |-> count.rest]
    BY <1>4, <1>5 DEF read
<1>7. read.value = ""
    BY <1>6
<1> QED BY <1>7 DEF read

\* The language is read back as it was written.
LEMMA LanguageBack ==
  ASSUME NEW text
  PROVE  ReadString(WriteString(<<>>, text, 2)).value = Terminated(text)
<1> DEFINE full == Terminated(text)  a == Field(2, 3)  b == Field(3, full)
<1>1. a.width = 2 /\ a.width \in Nat
    BY DEF Field
<1> HIDE DEF a, b
<1>2. Bytes(<<>>) = 0 /\ Bytes(<<a>>) = 2
  <2>1. Bytes(<<>>) = 0 /\ Bytes(<<a>>) = a.width
      BY <1>1, BytesOfFew
  <2> QED BY <1>1, <2>1
<1>3. Fits(<<>>, 2) /\ Fits(<<>>, 5) /\ Fits(<<a>>, 3)
    BY <1>2 DEF Fits, NET_PACK_MAX_LEN
<1>4. Write(<<>>, 2, 3) = <<a>>
    BY <1>3 DEF Write, a, Field
<1>5. Write(<<a>>, 3, full) = <<a, b>>
  <2>1. Write(<<a>>, 3, full) = Append(<<a>>, b)
      BY <1>3 DEF Write, b, Field
  <2> QED BY <2>1, PackBehind
<1>6. WriteString(<<>>, text, 2) = Write(Write(<<>>, 2, 3), 3, full)
  <2>1. 2 + 1 = 3 /\ 2 + 3 = 5 /\ 3 <= 65535
      OBVIOUS
  <2> QED BY <1>3, <2>1 DEF WriteString
<1>7. WriteString(<<>>, text, 2) = <<a, b>>
    BY <1>4, <1>5, <1>6
<1>8. ReadString(<<a, b>>).value = full
  <2> HIDE DEF full
  <2> QED BY StringBack DEF a, b
<1> QED BY <1>7, <1>8

\* A field put behind two.
LEMMA ThirdBehind ==
  ASSUME NEW a, NEW b, NEW c
  PROVE  LET three == Append(<<a, b>>, c)
         IN  three # <<>> /\ Head(three) = a /\ Tail(three) = <<b, c>>
<1> DEFINE S == {a, b, c}  two == <<a, b>>  rest == <<b, c>>  three == Append(two, c)
<1>1. two \in Seq(S) /\ rest \in Seq(S) /\ c \in S
    OBVIOUS
<1>2. /\ Len(two) = 2 /\ two[1] = a /\ two[2] = b
      /\ Len(rest) = 2 /\ rest[1] = b /\ rest[2] = c
    OBVIOUS
<1> HIDE DEF S, two, rest
<1>3. /\ three \in Seq(S) /\ Len(three) = Len(two) + 1
      /\ \A i \in 1..Len(two) : three[i] = two[i]
      /\ three[Len(two) + 1] = c
    BY <1>1, AppendProperties
<1> HIDE DEF three
<1>4. Len(three) = 3 /\ three[1] = a /\ three[2] = b /\ three[3] = c
    BY <1>2, <1>3
<1>5. three # <<>> /\ Head(three) = three[1]
    BY <1>3, <1>4
<1> DEFINE tail == Tail(three)
<1>6. tail \in Seq(S) /\ Len(tail) = 2 /\ tail[1] = three[2] /\ tail[2] = three[3]
  <2>1. tail \in Seq(S) /\ Len(tail) = Len(three) - 1
      BY <1>3, <1>5
  <2>2. \A i \in 1..(Len(three) - 1) : tail[i] = three[i + 1]
      BY <1>3, <1>5
  <2> HIDE DEF tail
  <2>3. Len(tail) = 2 /\ \A i \in 1..2 : tail[i] = three[i + 1]
      BY <1>4, <2>1, <2>2
  <2>4. 1 \in 1..2 /\ 2 \in 1..2 /\ 1 + 1 = 2 /\ 2 + 1 = 3
      OBVIOUS
  <2>5. tail[1] = three[2] /\ tail[2] = three[3]
    <3> HIDE DEF three
    <3> QED BY <2>3, <2>4
  <2> QED BY <2>1, <2>3, <2>5
<1> HIDE DEF tail
<1>7. \A i \in 1..2 : tail[i] = rest[i]
    BY <1>2, <1>4, <1>6
<1>8. tail = rest
    BY <1>1, <1>2, <1>6, <1>7, SeqEqual
<1>9. three # <<>> /\ Head(three) = a /\ Tail(three) = rest
    BY <1>4, <1>5, <1>8 DEF tail
<1> QED BY <1>9 DEF three, two, rest

\* The words of a text that fits are read back; of one too long, nothing.
LEMMA TextBack ==
  ASSUME NEW room, NEW words, NEW length \in Nat
  PROVE  LET left == Read(WriteString(Write(<<>>, 4, room), words, length), 4).rest
         IN  /\ length + 11 <= NET_PACK_MAX_LEN => ReadString(left).value = Terminated(words)
             /\ length = NET_PACK_MAX_LEN => ReadString(left).value = ""
<1> DEFINE bytes == length + 1  full == Terminated(words)
           a == Field(4, room)  b == Field(2, bytes)  c == Field(bytes, full)
           fields == WriteString(Write(<<>>, 4, room), words, length)
<1>1. /\ a.width = 4 /\ b.width = 2 /\ c.width = bytes
      /\ a.width \in Nat /\ b.width \in Nat /\ c.width \in Nat /\ bytes \in Nat /\ bytes >= 1
    BY DEF Field
<1> HIDE DEF a, b, c
<1>2. Bytes(<<>>) = 0 /\ Bytes(<<a>>) = 4 /\ Bytes(<<a, b>>) = 6
  <2>1. Bytes(<<>>) = 0 /\ Bytes(<<a>>) = a.width /\ Bytes(<<a, b>>) = a.width + b.width
      BY <1>1, BytesOfFew
  <2> QED BY <1>1, <2>1
<1>3. Write(<<>>, 4, room) = <<a>>
  <2>1. Fits(<<>>, 4)
      BY <1>2 DEF Fits, NET_PACK_MAX_LEN
  <2> QED BY <2>1 DEF Write, a, Field
<1>4. fields = IF bytes <= 65535 /\ Fits(<<a>>, 2 + bytes)
               THEN Write(Write(<<a>>, 2, bytes), bytes, full) ELSE <<a>>
    BY <1>3 DEF WriteString
<1>5. \A s : s # <<>> /\ Head(s) = a => Read(s, 4).rest = Tail(s)
  <2> SUFFICES ASSUME NEW s, s # <<>>, Head(s) = a PROVE Read(s, 4).rest = Tail(s)
      OBVIOUS
  <2>1. Read(s, 4) = [value |-> Head(s).value, rest |-> Tail(s)]
      BY <1>1 DEF Read
  <2> QED BY <2>1
<1>6. ASSUME length + 11 <= NET_PACK_MAX_LEN
      PROVE  ReadString(Read(fields, 4).rest).value = full
  <2>1. bytes <= 65535 /\ Fits(<<a>>, 2 + bytes)
      BY <1>2, <1>6 DEF Fits, NET_PACK_MAX_LEN
  <2>2. Fits(<<a>>, 2) /\ Fits(<<a, b>>, bytes)
      BY <1>2, <1>6 DEF Fits, NET_PACK_MAX_LEN
  <2>3. Write(<<a>>, 2, bytes) = <<a, b>>
    <3>1. Write(<<a>>, 2, bytes) = Append(<<a>>, b)
        BY <2>2 DEF Write, b, Field
    <3> QED BY <3>1, PackBehind
  <2>4. Write(<<a, b>>, bytes, full) = Append(<<a, b>>, c)
      BY <2>2 DEF Write, c, Field
  <2> DEFINE three == Append(<<a, b>>, c)
  <2>5. fields = three
      BY <1>4, <2>1, <2>3, <2>4
  <2>6. three # <<>> /\ Head(three) = a /\ Tail(three) = <<b, c>>
      BY ThirdBehind
  <2> HIDE DEF three, fields
  <2>7. Read(fields, 4).rest = <<b, c>>
      BY <1>5, <2>5, <2>6
  <2>8. ReadString(<<b, c>>).value = full
    <3> HIDE DEF bytes, full
    <3> QED BY <1>1, StringBack DEF b, c
  <2> QED BY <2>7, <2>8
<1>7. ASSUME length = NET_PACK_MAX_LEN
      PROVE  ReadString(Read(fields, 4).rest).value = ""
  <2>1. ~Fits(<<a>>, 2 + bytes)
      BY <1>2, <1>7 DEF Fits, NET_PACK_MAX_LEN
  <2>2. fields = <<a>>
      BY <1>4, <2>1
  <2>3. <<a>> # <<>> /\ Head(<<a>>) = a /\ Tail(<<a>>) = <<>>
      OBVIOUS
  <2> HIDE DEF fields
  <2>4. Read(fields, 4).rest = <<>>
      BY <1>5, <2>2, <2>3
  <2> QED BY <2>4, NothingBack
<1> HIDE DEF fields
<1>8. /\ length + 11 <= NET_PACK_MAX_LEN => ReadString(Read(fields, 4).rest).value = full
      /\ length = NET_PACK_MAX_LEN => ReadString(Read(fields, 4).rest).value = ""
    BY <1>6, <1>7
<1> QED BY <1>8 DEF fields

\* Nothing is sent, and the room is kept.
LEMMA NothingIs ==
  ASSUME NEW room
  PROVE  Nothing(room).room = room /\ Nothing(room).packs = <<>> /\ DOMAIN Nothing(room).packs = {}
<1>1. <<>> \in Seq({}) /\ DOMAIN <<>> = {}
    OBVIOUS
<1>2. Nothing(room).room = room /\ Nothing(room).packs = <<>>
    BY DEF Nothing
<1> QED BY <1>1, <1>2

\* One pack, or two.
LEMMA OneOrTwo ==
  ASSUME NEW a, NEW b
  PROVE  /\ DOMAIN <<a>> = {1} /\ Len(<<a>>) = 1 /\ <<a>>[1] = a
         /\ DOMAIN <<a, b>> = {1, 2} /\ Len(<<a, b>>) = 2 /\ <<a, b>>[1] = a /\ <<a, b>>[2] = b
<1>1. <<a>> \in Seq({a}) /\ Len(<<a>>) = 1 /\ DOMAIN <<a>> = {1} /\ <<a>>[1] = a
    OBVIOUS
<1>2. /\ <<a, b>> \in Seq({a, b}) /\ Len(<<a, b>>) = 2 /\ DOMAIN <<a, b>> = {1, 2}
      /\ <<a, b>>[1] = a /\ <<a, b>>[2] = b
    OBVIOUS
<1> QED BY <1>1, <1>2

\* The number of bytes of the words: the most when one of them is too long.
LEMMA Lengths ==
  ASSUME NEW words \in Seq(STRING), Len(words) + 11 <= NET_PACK_MAX_LEN
  PROVE  /\ Length(words) \in Nat
         /\ Length(words) + 11 <= NET_PACK_MAX_LEN \/ Length(words) = NET_PACK_MAX_LEN
<1>1. Length(words) = NET_PACK_MAX_LEN \/ Length(words) = Len(words)
    BY DEF Length
<1>2. Len(words) \in Nat /\ NET_PACK_MAX_LEN \in Nat
    BY DEF NET_PACK_MAX_LEN
<1> QED BY <1>1, <1>2

\* A text is sent as the help says.
LEMMA TextIsText ==
  ASSUME NEW line, line.prefixes \in Seq(Token), line.words \in Seq(STRING),
         Len(line.words) + 11 <= NET_PACK_MAX_LEN,
         NEW prefix,
         prefix.lang = IF Of(line, "lang") = {} THEN "" ELSE LastOf(line, "lang"),
         NEW current
  PROVE  LET effect == SendTextMessage(current, line.words, prefix, Target(line, current))
         IN  /\ IsText(line, current, effect)
             /\ effect.room = current
             /\ \A k \in DOMAIN effect.packs : effect.packs[k][1] \notin TableCalls
<1> DEFINE room == Target(line, current)
           words == line.words
           e == SendTextMessage(current, words, prefix, room)
           fields == WriteString(Write(<<>>, 4, room), words, Length(words))
           text == <<"send_text", fields>>
           language == WriteString(<<>>, prefix.lang, 2)
           langPack == <<"set_language", language>>
           left == Read(fields, 4).rest
<1>1. \A kind : Of(line, kind) # {} =>
        \E k \in Of(line, kind) : LastOf(line, kind) = line.prefixes[k][2]
                                  /\ line.prefixes[k] \in Token /\ line.prefixes[k][1] = kind
    BY LastIsOne
<1>2. \A a, b :
        /\ DOMAIN <<a>> = {1} /\ Len(<<a>>) = 1 /\ <<a>>[1] = a
        /\ DOMAIN <<a, b>> = {1, 2} /\ Len(<<a, b>>) = 2 /\ <<a, b>>[1] = a /\ <<a, b>>[2] = b
    BY OneOrTwo
<1>3. CASE room < 0
  <2>1. e = Nothing(current)
      BY <1>3 DEF SendTextMessage
  <2>2. e.room = current /\ DOMAIN e.packs = {}
      BY <2>1, NothingIs
  <2> HIDE DEF e
  <2>3. IsText(line, current, e)
      BY <1>3, <2>1 DEF IsText
  <2>4. \A k \in DOMAIN e.packs : e.packs[k][1] \notin TableCalls
      BY <2>2
  <2> QED BY <2>2, <2>3, <2>4 DEF e
<1>4. CASE ~(room < 0)
  <2>1. Read(fields, 4).value = room
    <3> HIDE DEF room, words
    <3> QED BY RoomBack
  <2>2. IF Length(words) = NET_PACK_MAX_LEN THEN ReadString(left).value = ""
                                            ELSE ReadString(left).value = Terminated(words)
    <3>1. /\ Length(words) \in Nat
          /\ Length(words) + 11 <= NET_PACK_MAX_LEN \/ Length(words) = NET_PACK_MAX_LEN
        BY Lengths
    <3>2. /\ Length(words) + 11 <= NET_PACK_MAX_LEN => ReadString(left).value = Terminated(words)
          /\ Length(words) = NET_PACK_MAX_LEN => ReadString(left).value = ""
        BY <3>1, TextBack
    <3> HIDE DEF left, words
    <3> QED BY <3>1, <3>2
  <2>3. ReadString(language).value = Terminated(prefix.lang)
      BY LanguageBack
  <2>4. text[1] = "send_text" /\ text[2] = fields
      OBVIOUS
  <2>5. langPack[1] = "set_language" /\ langPack[2] = language
      OBVIOUS
  <2>6. "send_text" \notin TableCalls /\ "set_language" \notin TableCalls
      BY DEF TableCalls
  <2>7. /\ e.room = current /\ e.does = "nothing"
        /\ prefix.lang = "" => e.packs = Append(<<>>, text)
        /\ prefix.lang # "" => e.packs = Append(<<langPack>>, text)
      BY <1>4 DEF SendTextMessage, Sends, Nothing
  <2>8. Of(line, "lang") = {} <=> prefix.lang = ""
    <3>1. ASSUME Of(line, "lang") # {} PROVE LastOf(line, "lang") # ""
      <4>1. PICK k \in Of(line, "lang") :
              LastOf(line, "lang") = line.prefixes[k][2]
              /\ line.prefixes[k] \in Token /\ line.prefixes[k][1] = "lang"
          BY <1>1, <3>1
      <4>2. line.prefixes[k][2] \in {"en", "cn"}
          BY <4>1, Tokens
      <4> QED BY <4>1, <4>2
    <3> QED BY <3>1
  <2> HIDE DEF e, text, langPack, fields, language, left, words, room
  <2>9. CASE Of(line, "lang") = {}
    <3>1. e.packs = <<text>>
        BY <2>7, <2>8, <2>9, PackBehind
    <3>2. DOMAIN e.packs = {1} /\ Len(e.packs) = 1 /\ e.packs[1] = text
        BY <1>2, <3>1
    <3>3. e.packs[Len(e.packs)] = text
        BY <3>2
    <3>4. IsText(line, current, e)
        BY <1>4, <2>1, <2>2, <2>4, <2>7, <2>9, <3>2, <3>3 DEF IsText, room, left, words
    <3>5. \A k \in DOMAIN e.packs : e.packs[k][1] \notin TableCalls
        BY <2>4, <2>6, <3>2
    <3> QED BY <2>7, <3>4, <3>5 DEF e, room, words
  <2>10. CASE Of(line, "lang") # {}
    <3> DEFINE two == <<langPack, text>>
    <3>1. e.packs = two
        BY <2>7, <2>8, <2>10, PackBehind
    <3>2. /\ DOMAIN e.packs = {1, 2} /\ Len(e.packs) = 2
          /\ e.packs[1] = langPack /\ e.packs[2] = text
      <4>1. DOMAIN two = {1, 2} /\ Len(two) = 2 /\ two[1] = langPack /\ two[2] = text
          BY <1>2
      <4> HIDE DEF two
      <4> QED BY <3>1, <4>1
    <3>3. e.packs[Len(e.packs)] = text
        BY <3>2
    <3>4. IsText(line, current, e)
        BY <1>4, <2>1, <2>2, <2>3, <2>4, <2>5, <2>7, <2>10, <3>2, <3>3
        DEF IsText, room, left, words
    <3>5. \A k \in DOMAIN e.packs : e.packs[k][1] \notin TableCalls
        BY <2>4, <2>5, <2>6, <3>2
    <3> QED BY <2>7, <3>4, <3>5 DEF e, room, words
  <2> QED BY <2>9, <2>10
<1> QED BY <1>3, <1>4

\* Every call for a table writes the room first, and three values at most.
LEMMA TableCallsRoom ==
  \A name \in DOMAIN Calls :
    Calls[name].type \in TableCalls =>
      /\ Len(Calls[name].writes) \in 1..3 /\ 1 \in DOMAIN Calls[name].writes
      /\ Calls[name].writes[1] = "room"
<1> DEFINE Fine(w) == Len(w) \in 1..3 /\ 1 \in DOMAIN w /\ w[1] = "room"
<1>1. \A type, writes : Call(type, writes).type = type /\ Call(type, writes).writes = writes
    BY DEF Call
<1>2. Fine(<<"room">>) /\ Fine(<<"room", "number">>) /\ Fine(<<"room", "number", "number">>)
    OBVIOUS
<1>3. \A code, x : Fine(Action(code, <<x>>).writes)
  <2> SUFFICES ASSUME NEW code, NEW x PROVE Fine(Action(code, <<x>>).writes)
      OBVIOUS
  <2> DEFINE S == {"room", code, x}  a == <<"room", code>>  b == <<x>>  w == a \o b
  <2>1. a \in Seq(S) /\ b \in Seq(S) /\ Len(a) = 2 /\ Len(b) = 1 /\ a[1] = "room"
      OBVIOUS
  <2>2. Action(code, <<x>>).writes = w
      BY <1>1 DEF Action
  <2> HIDE DEF S, a, b
  <2>3. w \in Seq(S) /\ Len(w) = Len(a) + Len(b) /\ \A k \in 1..(Len(a) + Len(b)) :
          w[k] = IF k <= Len(a) THEN a[k] ELSE b[k - Len(a)]
      BY <2>1, ConcatProperties
  <2> HIDE DEF w
  <2>4. Len(w) = 3 /\ \A k \in 1..3 : w[k] = IF k <= 2 THEN a[k] ELSE b[k - 2]
      BY <2>1, <2>3
  <2>5. Len(w) \in 1..3 /\ 1 \in DOMAIN w /\ w[1] = "room"
      BY <2>1, <2>3, <2>4
  <2> QED BY <2>2, <2>5
<1> DEFINE Plain == {"ping", "log_in", "register", "set_name", "set_language", "create_room",
                     "goto_room", "leave_room", "get_my_rooms", "print_room", "print_user"}
<1>4. \A type \in Plain : type \notin TableCalls
    BY DEF TableCalls
<1> HIDE DEF Fine
<1>5. \A name \in {"PING", "LOGIN", "REGISTER", "SETNAME", "SETLANG", "MAKEROOM", "TOROOM",
                  "LEAVEROOM", "MYROOMS", "ROOMLIST", "USERLIST"} :
        \E type \in Plain : \E w : Calls[name] = Call(type, w)
    BY DEF Calls
<1>6. \A name \in {"CHECK", "CALL", "BET", "RAISE", "ALLIN", "FOLD"} :
        \E code, x : Calls[name] = Action(code, <<x>>)
  <2>1. /\ Calls["CHECK"] = Action("CheckCall", <<"zero">>)
        /\ Calls["CALL"] = Action("CheckCall", <<"zero">>)
        /\ Calls["BET"] = Action("Bet", <<"number">>)
        /\ Calls["RAISE"] = Action("Raise", <<"number">>)
        /\ Calls["ALLIN"] = Action("AllIn", <<"zero">>)
        /\ Calls["FOLD"] = Action("Fold", <<"zero">>)
      BY DEF Calls
  <2> QED BY <2>1
<1>7. \A name \in {"TABLEINFO", "SIT", "STANDUP", "ADDHOLDEMBOT", "BUYIN", "RMHOLDEMBOT",
                  "SETBLINDS"} :
        \E type : \/ Calls[name] = Call(type, <<"room">>)
                 \/ Calls[name] = Call(type, <<"room", "number">>)
                 \/ Calls[name] = Call(type, <<"room", "number", "number">>)
    BY DEF Calls
<1> HIDE DEF Plain
<1>8. DOMAIN Calls =
        {"PING", "LOGIN", "REGISTER", "SETNAME", "SETLANG", "MAKEROOM", "TOROOM",
         "LEAVEROOM", "MYROOMS", "ROOMLIST", "USERLIST"}
        \cup {"CHECK", "CALL", "BET", "RAISE", "ALLIN", "FOLD"}
        \cup {"TABLEINFO", "SIT", "STANDUP", "ADDHOLDEMBOT", "BUYIN", "RMHOLDEMBOT", "SETBLINDS"}
    BY DEF Calls
<1>9. ASSUME NEW name \in DOMAIN Calls, Calls[name].type \in TableCalls
      PROVE  Fine(Calls[name].writes)
  <2>1. CASE \E type \in Plain : \E w : Calls[name] = Call(type, w)
      BY <1>1, <1>4, <1>9, <2>1
  <2>2. CASE \E code, x : Calls[name] = Action(code, <<x>>)
      BY <1>3, <2>2
  <2>3. CASE \E type : \/ Calls[name] = Call(type, <<"room">>)
                      \/ Calls[name] = Call(type, <<"room", "number">>)
                      \/ Calls[name] = Call(type, <<"room", "number", "number">>)
      BY <1>1, <1>2, <2>3
  <2> QED BY <1>5, <1>6, <1>7, <1>8, <2>1, <2>2, <2>3
<1> QED BY <1>9 DEF Fine

\* A field that is there stays first.
Leads(first, pack) == pack # <<>> /\ Head(pack) = first /\ \E S : pack \in Seq(S)

\* See Leads.
LEMMA StaysFirst ==
  ASSUME NEW first, NEW pack, Leads(first, pack), NEW w, NEW x, NEW text, NEW length
  PROVE  Leads(first, Write(pack, w, x)) /\ Leads(first, WriteString(pack, text, length))
<1> DEFINE bytes == length + 1
           g == Write(pack, 2, bytes)  h == Write(g, bytes, Terminated(text))
<1>1. \A s, v, y : Leads(first, s) => Leads(first, Write(s, v, y))
    BY WriteKeeps DEF Leads
<1>2. Leads(first, g)
    BY <1>1
<1>3. Leads(first, h)
  <2> HIDE DEF g
  <2> QED BY <1>1, <1>2
<1>4. WriteString(pack, text, length) = pack \/ WriteString(pack, text, length) = h
    BY DEF WriteString
<1> HIDE DEF h
<1> QED BY <1>1, <1>3, <1>4

\* A call that writes the room first is for the room.
LEMMA RoomFirst ==
  ASSUME NEW call, Len(call.writes) \in 1..3, call.writes[1] = "room", NEW words, NEW room
  PROVE  \E fields : /\ WriteCall(call, words, room) = <<<<call.type, fields>>>>
                     /\ Read(fields, 4).value = room
<1> DEFINE one(pack, k) ==
             LET what == call.writes[k]
                 word == WordFor(call, k, words)
             IN  CASE what = "room"   -> Write(pack, 4, room)
                   [] what = "number" -> Write(pack, 4, Stoi[word])
                   [] what = "short"  -> Write(pack, 2, Stoi[word] % 65536)
                   [] what = "text"   -> WriteString(pack, word, 1)
                   [] what = "zero"   -> Write(pack, 4, 0)
                   [] what = "now"    -> Write(pack, 8, 0)
                   [] OTHER           -> Write(pack, 1, what)
           N == Len(call.writes)
           Loop(f) == f = [k \in 0..N |-> IF k = 0 THEN <<>> ELSE one(f[k - 1], k)]
           upTo == CHOOSE f : Loop(f)
           first == Field(4, room)
           w1 == one(<<>>, 1)  w2 == one(w1, 2)  w3 == one(w2, 3)
           at(k) == IF k = 0 THEN <<>> ELSE IF k = 1 THEN w1 ELSE IF k = 2 THEN w2 ELSE w3
           w == [k \in 0..N |-> at(k)]
<1>1. N \in 1..3
    OBVIOUS
<1>2. WriteCall(call, words, room) = <<<<call.type, upTo[N]>>>>
    BY DEF WriteCall
<1>3. one(<<>>, 1) = Write(<<>>, 4, room)
    OBVIOUS
<1>4. \A pack, k : Leads(first, pack) => Leads(first, one(pack, k))
  <2> SUFFICES ASSUME NEW pack, NEW k, Leads(first, pack) PROVE Leads(first, one(pack, k))
      OBVIOUS
  <2> DEFINE what == call.writes[k]  word == WordFor(call, k, words)
  <2>1. \/ one(pack, k) = WriteString(pack, word, 1)
        \/ \E v, x : one(pack, k) = Write(pack, v, x)
    <3> HIDE DEF word, what
    <3>1. one(pack, k) =
            CASE what = "room"   -> Write(pack, 4, room)
              [] what = "number" -> Write(pack, 4, Stoi[word])
              [] what = "short"  -> Write(pack, 2, Stoi[word] % 65536)
              [] what = "text"   -> WriteString(pack, word, 1)
              [] what = "zero"   -> Write(pack, 4, 0)
              [] what = "now"    -> Write(pack, 8, 0)
              [] OTHER           -> Write(pack, 1, what)
        BY DEF what, word
    <3> HIDE DEF one
    <3> QED BY <3>1
  <2> HIDE DEF one, word, first
  <2> QED BY <2>1, StaysFirst
<1>5. Leads(first, <<first>>)
  <2> HIDE DEF first
  <2>1. <<first>> # <<>> /\ Head(<<first>>) = first /\ <<first>> \in Seq({first})
      OBVIOUS
  <2> QED BY <2>1 DEF Leads
<1>6. Write(<<>>, 4, room) = <<first>>
  <2>1. Bytes(<<>>) = 0
    <3>1. first.width \in Nat
        BY DEF Field
    <3> HIDE DEF first
    <3> QED BY <3>1, BytesOfFew
  <2>2. Fits(<<>>, 4)
      BY <2>1 DEF Fits, NET_PACK_MAX_LEN
  <2> QED BY <2>2 DEF Write, Field
<1>7. Leads(first, w1) /\ Leads(first, w2) /\ Leads(first, w3)
  <2>1. Leads(first, w1)
    <3> HIDE DEF first, one
    <3> QED BY <1>3, <1>5, <1>6
  <2>2. Leads(first, w2)
    <3> HIDE DEF first, one, w1
    <3> QED BY <1>4, <2>1
  <2> HIDE DEF first, one, w2
  <2> QED BY <1>4, <2>1, <2>2
<1>8. Loop(w)
  <2>1. \A k \in 0..N : IF k = 0 THEN TRUE ELSE IF k = 1 THEN w[k - 1] = <<>>
                        ELSE IF k = 2 THEN w[k - 1] = w1 ELSE k = 3 /\ w[k - 1] = w2
    <3> HIDE DEF w1, w2, w3, N
    <3> QED BY <1>1
  <2>2. ASSUME NEW k \in 0..N PROVE w[k] = IF k = 0 THEN <<>> ELSE one(w[k - 1], k)
    <3>1. CASE k = 0
      <4>1. w[k] = <<>>
        <5> HIDE DEF one, w1, w2, w3, N
        <5> QED BY <3>1
      <4> HIDE DEF w, one
      <4> QED BY <3>1, <4>1
    <3>2. CASE k = 1
      <4>1. w[k] = w1 /\ w[k - 1] = <<>>
        <5> HIDE DEF one, w1, w2, w3, N
        <5> QED BY <2>1, <3>2
      <4> HIDE DEF w, one
      <4> QED BY <3>2, <4>1
    <3>3. CASE k = 2
      <4>1. w[k] = w2 /\ w[k - 1] = w1
        <5> HIDE DEF one, w1, w2, w3, N
        <5> QED BY <2>1, <3>3
      <4> HIDE DEF w, one, w1
      <4> QED BY <3>3, <4>1
    <3>4. CASE k = 3
      <4>1. w[k] = w3 /\ w[k - 1] = w2
        <5> HIDE DEF one, w1, w2, w3, N
        <5> QED BY <2>1, <3>4
      <4> HIDE DEF w, one, w2
      <4> QED BY <3>4, <4>1
    <3>5. k \in {0, 1, 2, 3}
      <4> HIDE DEF N
      <4> QED BY <1>1
    <3> HIDE DEF w, one, N
    <3> QED BY <3>1, <3>2, <3>3, <3>4, <3>5
  <2> HIDE DEF one, N, at
  <2>3. w = [k \in 0..N |-> w[k]]
      OBVIOUS
  <2> HIDE DEF w
  <2> QED BY <2>2, <2>3
<1>9. Loop(upTo)
  <2> HIDE DEF Loop, w
  <2> QED BY <1>8
<1> HIDE DEF upTo
<1>10. \A k \in 0..N : upTo[k] = IF k = 0 THEN <<>> ELSE one(upTo[k - 1], k)
  <2> HIDE DEF one, N
  <2> QED BY <1>9
<1> HIDE DEF one, Loop
<1>11. upTo[0] = <<>>
  <2> HIDE DEF N
  <2> QED BY <1>1, <1>10
<1>12. upTo[1] = w1
  <2>1. 1 \in 0..N /\ 1 - 1 = 0
    <3> HIDE DEF N
    <3> QED BY <1>1
  <2> HIDE DEF N
  <2> QED BY <1>10, <1>11, <2>1
<1>13. N >= 2 => upTo[2] = w2
  <2>1. N >= 2 => 2 \in 0..N /\ 2 - 1 = 1
    <3> HIDE DEF N
    <3> QED BY <1>1
  <2> HIDE DEF N, w1
  <2> QED BY <1>10, <1>12, <2>1
<1>14. N >= 3 => upTo[3] = w3
  <2>1. N >= 3 => 3 \in 0..N /\ 3 - 1 = 2 /\ N >= 2
    <3> HIDE DEF N
    <3> QED BY <1>1
  <2> HIDE DEF N, w2
  <2> QED BY <1>10, <1>13, <2>1
<1>15. Leads(first, upTo[N])
  <2>1. \/ N = 1 \/ N = 2 \/ N = 3
    <3> HIDE DEF N
    <3> QED BY <1>1
  <2> HIDE DEF N, w1, w2, w3, first
  <2> QED BY <1>7, <1>12, <1>13, <1>14, <2>1
<1>16. \A s : Leads(first, s) => Read(s, 4).value = room
  <2> SUFFICES ASSUME NEW s, Leads(first, s) PROVE Read(s, 4).value = room
      OBVIOUS
  <2>1. Head(s).width = 4 /\ Head(s).value = room /\ s # <<>>
      BY DEF Leads, Field
  <2>2. Read(s, 4) = [value |-> Head(s).value, rest |-> Tail(s)]
      BY <2>1 DEF Read
  <2> QED BY <2>1, <2>2
<1> HIDE DEF first, N
<1> QED BY <1>2, <1>15, <1>16

\* What the handler of a command does: it sends no text, changes the active room only
\* to the number it is given, and sends calls for a table only for the line's room.
HandlerSays(words, current, room, effect) ==
  /\ \A k \in DOMAIN effect.packs : effect.packs[k][1] # "send_text"
  /\ \/ effect.room = current
     \/ /\ Head(words) \in {"TOROOM", "USEROOM"}
        /\ words[2] \in DOMAIN Stoi /\ effect.room = Stoi[words[2]]
  /\ \A k \in DOMAIN effect.packs : effect.packs[k][1] \in TableCalls =>
       ~(room < 0) /\ Read(effect.packs[k][2], 4).value = room

\* See HandlerSays.
LEMMA HandlerMeans ==
  ASSUME NEW words, Head(words) \in DOMAIN RegisterCommands, NEW current, NEW room
  PROVE  HandlerSays(words, current, room, Handler(current, words, room))
<1> DEFINE name == Head(words)
           call == Calls[name]
           needsRoom == \E k \in DOMAIN call.writes : call.writes[k] = "room"
           e == Handler(current, words, room)
<1> SUFFICES HandlerSays(words, current, room, e)
    OBVIOUS
<1>1. name \in DOMAIN Calls \cup {"QUIT", "MUTE", "UNMUTE", "USEROOM", "HELP"}
    BY DEF RegisterCommands
<1>2. ASSUME NEW after, e = Nothing(after),
             \/ after = current
             \/ name = "USEROOM" /\ words[2] \in DOMAIN Stoi /\ after = Stoi[words[2]]
      PROVE  HandlerSays(words, current, room, e)
  <2>1. e.room = after /\ DOMAIN e.packs = {}
      BY <1>2, NothingIs
  <2> HIDE DEF e
  <2> QED BY <1>2, <2>1 DEF HandlerSays
<1>3. CASE name \in {"QUIT", "MUTE", "UNMUTE"}
  <2>1. e = Does(current, name)
      BY <1>3 DEF Handler
  <2>2. e.packs = <<>> /\ e.room = current
      BY <2>1 DEF Does, Nothing
  <2>3. <<>> \in Seq({}) /\ DOMAIN <<>> = {}
      OBVIOUS
  <2> HIDE DEF e
  <2> QED BY <2>2, <2>3 DEF HandlerSays
<1>4. CASE name = "HELP"
  <2>1. e = Nothing(current)
      BY <1>4 DEF Handler
  <2> HIDE DEF e
  <2> QED BY <1>2, <2>1
<1>5. CASE name = "USEROOM"
  <2> DEFINE after == IF words[2] \in DOMAIN Stoi THEN Stoi[words[2]] ELSE current
  <2>1. e = Nothing(after)
      BY <1>5 DEF Handler
  <2>2. \/ after = current
        \/ words[2] \in DOMAIN Stoi /\ after = Stoi[words[2]]
      OBVIOUS
  <2> HIDE DEF e, after
  <2> QED BY <1>2, <1>5, <2>1, <2>2
<1>6. CASE name \in DOMAIN Calls \ {"QUIT", "MUTE", "UNMUTE", "USEROOM", "HELP"}
  <2> DEFINE after == IF name = "TOROOM" THEN Stoi[words[2]] ELSE current
             sends == WriteCall(call, words, room)
  <2>1. e = IF (needsRoom /\ room < 0) \/ ~NumbersOk(call, words) THEN Nothing(current)
            ELSE Sends(after, sends)
      BY <1>6 DEF Handler
  <2>2. CASE (needsRoom /\ room < 0) \/ ~NumbersOk(call, words)
    <3>1. e = Nothing(current)
        BY <2>1, <2>2
    <3> HIDE DEF e
    <3> QED BY <1>2, <3>1
  <2>3. CASE ~(needsRoom /\ room < 0) /\ NumbersOk(call, words)
    <3>1. e = Sends(after, sends)
        BY <2>1, <2>3
    <3>2. e.packs = sends /\ e.room = after
        BY <3>1 DEF Sends, Nothing
    <3>3. \/ after = current
          \/ name = "TOROOM" /\ words[2] \in DOMAIN Stoi /\ after = Stoi[words[2]]
      <4>1. name = "TOROOM" => words[2] \in DOMAIN Stoi
        <5> SUFFICES ASSUME name = "TOROOM" PROVE words[2] \in DOMAIN Stoi
            OBVIOUS
        <5>1. /\ 1 \in DOMAIN Calls["TOROOM"].writes
              /\ Calls["TOROOM"].writes[1] = "number"
              /\ WordFor(Calls["TOROOM"], 1, words) = words[2]
            BY GotoWord
        <5>2. NumbersOk(Calls["TOROOM"], words)
            BY <2>3
        <5> QED BY <5>1, <5>2 DEF NumbersOk
      <4> QED BY <4>1
    <3>4. call.type # "send_text"
        BY <1>6, CallsAreNoTexts
    <3>5. ASSUME NEW fields, sends = <<<<call.type, fields>>>>,
                 call.type \in TableCalls => ~(room < 0) /\ Read(fields, 4).value = room
          PROVE  HandlerSays(words, current, room, e)
      <4> DEFINE pack == <<call.type, fields>>
      <4>1. pack[1] = call.type /\ pack[2] = fields
          OBVIOUS
      <4>2. sends = <<pack>>
          BY <3>5
      <4> HIDE DEF pack, sends, call, e, after
      <4>3. DOMAIN e.packs = {1} /\ e.packs[1] = pack
          BY <3>2, <4>2, OneOrTwo
      <4> QED BY <3>2, <3>3, <3>4, <3>5, <4>1, <4>3 DEF HandlerSays
    <3>6. CASE call.type \in TableCalls
      <4>1. Len(call.writes) \in 1..3 /\ call.writes[1] = "room"
          BY <1>6, <3>6, TableCallsRoom
      <4>2. PICK fields : sends = <<<<call.type, fields>>>> /\ Read(fields, 4).value = room
        <5> HIDE DEF call
        <5> QED BY <4>1, RoomFirst
      <4>3. 1 \in DOMAIN call.writes
          BY <1>6, <3>6, TableCallsRoom
      <4>4. ~(room < 0)
        <5> HIDE DEF call
        <5> QED BY <2>3, <4>1, <4>3
      <4> HIDE DEF sends, call, e
      <4> QED BY <3>5, <4>2, <4>4
    <3>7. CASE call.type \notin TableCalls
      <4>1. PICK fields : sends = <<<<call.type, fields>>>>
        <5> HIDE DEF call
        <5> QED BY OneOfItsType
      <4> HIDE DEF sends, call, e
      <4> QED BY <3>5, <3>7, <4>1
    <3> QED BY <3>6, <3>7
  <2> QED BY <2>2, <2>3
<1> QED BY <1>1, <1>3, <1>4, <1>5, <1>6

\* A line means what the help says of it, whatever room is active.
LEMMA LineMeans ==
  ASSUME NEW line, line.prefixes \in Seq(Token), line.words \in Seq(STRING),
         Len(line.words) + 11 <= NET_PACK_MAX_LEN, NEW current \in Int
  PROVE  Means(line, current)
<1> DEFINE words == line.words
           p == ParsePrefixes(line.prefixes)
           target == Target(line, current)
           room == IF p.room = NoRoom THEN current ELSE Stoi[p.room]
           known == words # <<>> /\ Head(words) \in DOMAIN RegisterCommands
           command == p.mode # "text" /\ known /\ SizeOk(words)
           error == \/ p.mode = "cmd"
                    \/ p.mode = "default" /\ known
                       /\ RegisterCommands[Head(words)].missingIsError
           e == Effect(line, current)
           types == {e.packs[k][1] : k \in DOMAIN e.packs}
           asText == IF Of(line, "mode") # {} THEN LastOf(line, "mode") = "text"
                     ELSE /\ line # EmptyLine
                          /\ words = <<>> \/ Head(words) \notin DOMAIN RegisterCommands
           asCommand == Of(line, "mode") # {} /\ LastOf(line, "mode") # "text"
           Rooms == e.room # current =>
                      /\ "send_text" \notin types /\ Head(words) \in {"TOROOM", "USEROOM"}
                      /\ e.room = Stoi[words[2]]
           Tables == \A k \in DOMAIN e.packs : e.packs[k][1] \in TableCalls =>
                       target >= 0 /\ Read(e.packs[k][2], 4).value = target
<1>1. PrefixSays(line, p)
    BY PrefixMeans
<1>2. \A kind : Of(line, kind) # {} =>
        \E k \in Of(line, kind) : LastOf(line, kind) = line.prefixes[k][2]
                                  /\ line.prefixes[k] \in Token /\ line.prefixes[k][1] = kind
    BY LastIsOne
<1>3. CASE Invalid(line)
  <2>1. e = Nothing(current)
      BY <1>1, <1>3 DEF Effect, PrefixSays
  <2> QED BY <1>3, <2>1 DEF Means
<1>4. CASE ~Invalid(line)
  <2>1. p.valid
      BY <1>1, <1>4 DEF PrefixSays
  <2>2. /\ p.lang = IF Of(line, "lang") = {} THEN "" ELSE LastOf(line, "lang")
        /\ p.mode = IF Of(line, "mode") = {} THEN "default" ELSE LastOf(line, "mode")
        /\ p.room = IF Of(line, "room") = {} THEN NoRoom ELSE LastOf(line, "room")
      BY <1>1, <2>1 DEF PrefixSays
  <2>3. Of(line, "mode") # {} => LastOf(line, "mode") \in {"text", "cmd"}
    <3> SUFFICES ASSUME Of(line, "mode") # {} PROVE LastOf(line, "mode") \in {"text", "cmd"}
        OBVIOUS
    <3>1. PICK k \in Of(line, "mode") : LastOf(line, "mode") = line.prefixes[k][2]
            /\ line.prefixes[k] \in Token /\ line.prefixes[k][1] = "mode"
        BY <1>2
    <3> QED BY <3>1, Tokens
  <2>4. room = target /\ target \in Int
    <3>1. CASE Of(line, "room") = {}
        BY <2>2, <3>1 DEF Target
    <3>2. CASE Of(line, "room") # {}
      <4> DEFINE last == LastOf(line, "room")
      <4>1. Parses(last)
        <5>1. PICK k \in Of(line, "room") : last = line.prefixes[k][2]
            BY <1>2, <3>2
        <5> HIDE DEF last
        <5> QED BY <1>4, <5>1 DEF Invalid
      <4>2. last # NoRoom /\ Stoi[last] \in Int
          BY <4>1 DEF Parses, Stoi, NoRoom
      <4> QED BY <2>2, <3>2, <4>2 DEF Target
    <3> QED BY <3>1, <3>2
  <2>5. /\ command => e = Handler(current, words, room)
        /\ ~command /\ (error \/ line = EmptyLine) => e = Nothing(current)
        /\ ~command /\ ~error /\ line # EmptyLine => e = SendTextMessage(current, words, p, room)
      BY <2>1 DEF Effect
  <2>6. SUFFICES /\ asText => IsText(line, current, e)
                 /\ asCommand => "send_text" \notin types
                 /\ Rooms /\ Tables
      BY <1>4 DEF Means
  <2>7. CASE command
    <3>1. HandlerSays(words, current, room, e)
        BY <2>5, <2>7, HandlerMeans
    <3> HIDE DEF e, p, room, target, words
    <3>2. ~asText
        BY <2>2, <2>3, <2>7
    <3>3. "send_text" \notin types
        BY <3>1 DEF HandlerSays
    <3> HIDE DEF types
    <3>4. Rooms
        BY <3>1, <3>3 DEF HandlerSays
    <3>5. Tables
      <4>1. ~(target < 0) => target >= 0
          BY <2>4
      <4> QED BY <2>4, <3>1, <4>1 DEF HandlerSays
    <3> QED BY <3>2, <3>3, <3>4, <3>5
  <2>8. CASE ~command /\ (error \/ line = EmptyLine)
    <3>1. e = Nothing(current)
        BY <2>5, <2>8
    <3>2. e.room = current /\ DOMAIN e.packs = {}
        BY <3>1, NothingIs
    <3>3. ~asText
      <4>1. line = EmptyLine => Of(line, "mode") = {}
        <5>1. EmptyLine.prefixes = <<>> /\ <<>> \in Seq({}) /\ DOMAIN <<>> = {}
            BY DEF EmptyLine
        <5> QED BY <5>1 DEF Of
      <4> HIDE DEF e, p, room, target, words
      <4> QED BY <2>2, <2>3, <2>8, <4>1
    <3> HIDE DEF e, p, room, target, words
    <3>4. "send_text" \notin types /\ Rooms /\ Tables
        BY <3>2
    <3> QED BY <3>3, <3>4
  <2>9. CASE ~command /\ ~error /\ line # EmptyLine
    <3>1. e = SendTextMessage(current, words, p, target)
        BY <2>4, <2>5, <2>9
    <3>2. /\ IsText(line, current, e) /\ e.room = current
          /\ \A k \in DOMAIN e.packs : e.packs[k][1] \notin TableCalls
      <4>1. p.lang = IF Of(line, "lang") = {} THEN "" ELSE LastOf(line, "lang")
          BY <2>2
      <4> HIDE DEF p, e
      <4> QED BY <3>1, <4>1, TextIsText
    <3> HIDE DEF e, p, room, target, words
    <3>3. ~asCommand
        BY <2>2, <2>3, <2>9
    <3>4. Rooms /\ Tables
        BY <3>2
    <3> QED BY <3>2, <3>3, <3>4
  <2> QED BY <2>7, <2>8, <2>9
<1> QED BY <1>3, <1>4

\* The active room is none, or a number a line can give.
RoomKnown == m_currentRoom \in RoomIds

\* A line keeps it so.
LEMMA EffectRoom ==
  ASSUME NEW line, NEW current \in RoomIds
  PROVE  Effect(line, current).room \in RoomIds
<1> DEFINE words == line.words
           p == ParsePrefixes(line.prefixes)
           room == IF p.room = NoRoom THEN current ELSE Stoi[p.room]
           e == Effect(line, current)
<1> SUFFICES e.room \in RoomIds
    OBVIOUS
<1>1. \/ e = Nothing(current)
      \/ Head(words) \in DOMAIN RegisterCommands /\ e = Handler(current, words, room)
      \/ e = SendTextMessage(current, words, p, room)
    BY DEF Effect
<1>2. CASE e = Nothing(current)
    BY <1>2, NothingIs
<1>3. CASE Head(words) \in DOMAIN RegisterCommands /\ e = Handler(current, words, room)
  <2>1. HandlerSays(words, current, room, e)
      BY <1>3, HandlerMeans
  <2> HIDE DEF e, room, words
  <2> QED BY <2>1 DEF HandlerSays, RoomIds
<1>4. CASE e = SendTextMessage(current, words, p, room)
  <2>1. e = Nothing(current) \/ \E packs : e = Sends(current, packs)
    <3> HIDE DEF e, p, room, words
    <3> QED BY <1>4 DEF SendTextMessage
  <2>2. \A packs : Sends(current, packs).room = current
      BY DEF Sends, Nothing
  <2> HIDE DEF e
  <2> QED BY <2>1, <2>2, NothingIs
<1> QED BY <1>1, <1>2, <1>3, <1>4

\* Whatever the user has entered before, every line is taken as the help says: an
\* invalid prefix anywhere undoes the line, the last [text] or [cmd] and the last room
\* win, the language goes before the text, and a command for a table names the room
\* meant (CommandProcessor.cpp:28-88, 311-391).
THEOREM LinesMeanWhatIsSaid == Spec => []LinesMean
<1>1. Init => RoomKnown
  <2>1. "-1" \in DOMAIN Stoi /\ Stoi["-1"] = -1
      BY DEF Stoi
  <2> QED BY <2>1 DEF Init, RoomIds, RoomKnown
<1>2. RoomKnown /\ [Next]_vars => RoomKnown'
  <2> SUFFICES ASSUME m_currentRoom \in RoomIds, [Next]_vars PROVE m_currentRoom' \in RoomIds
      BY DEF RoomKnown
  <2>1. ASSUME NEW line \in Lines, HandleLine(line) PROVE m_currentRoom' \in RoomIds
    <3>1. m_currentRoom' = Effect(line, m_currentRoom).room
        BY <2>1 DEF HandleLine
    <3> QED BY <3>1, EffectRoom
  <2>2. CASE ServerTakes
      BY <2>2, SMTT(30) DEF ServerTakes
  <2>3. CASE ServerTells
      BY <2>3 DEF ServerTells, lineVars
  <2>4. CASE Recv
      BY <2>4 DEF Recv, lineVars
  <2>5. CASE DoOneTask
      BY <2>5 DEF DoOneTask, lineVars
  <2>6. CASE Speaker
      BY <2>6 DEF Speaker, lineVars
  <2>7. CASE UNCHANGED vars
      BY <2>7 DEF vars, lineVars
  <2> QED BY <2>1, <2>2, <2>3, <2>4, <2>5, <2>6, <2>7 DEF Next
<1>3. RoomKnown => LinesMean
  <2> SUFFICES ASSUME m_currentRoom \in RoomIds
               PROVE  \A line \in Probes : Means(line, m_currentRoom)
      BY DEF LinesMean, Meaning, RoomKnown
  <2>1. m_currentRoom \in Int
    <3>1. \A word \in DOMAIN Stoi : Stoi[word] \in Int
        BY DEF Stoi
    <3> QED BY <3>1 DEF RoomIds
  <2>2. \A line \in Probes : /\ line.prefixes \in Seq(Token) /\ line.words \in Seq(STRING)
                             /\ Len(line.words) + 11 <= NET_PACK_MAX_LEN
      BY ProbeAssumption
  <2> QED BY <2>1, <2>2, LineMeans
<1> QED BY <1>1, <1>2, <1>3, PTL DEF Spec

=============================================================================
