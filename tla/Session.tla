------------------------------ MODULE Session ------------------------------
(***************************************************************************)
(* A user at the command line, the server and the rooms: a line read is       *)
(* handled at once (src/Utils/CommandProcessor.cpp), its packs travel to the   *)
(* server in order, the server answers and tells the texts of the rooms the     *)
(* user is in, and what arrives is queued, handled (src/Net/NetPackHandler.cpp) *)
(* and said (src/Audio/AudioCenter.cpp).  The server is not part of the         *)
(* repository: it takes packs in the order they come, refuses what it likes,     *)
(* and a text can be told at any time.                                          *)
(***************************************************************************)
EXTENDS Commands, Voice, FiniteSetsExt

CONSTANTS
  Lines,       \* the lines the user may enter
  Probes,      \* lines whose meaning is looked at in every state
  MaxOutbox,   \* bound: packs on their way to the server
  MaxStream,   \* bound: packs on their way to the client, or queued there
  MaxTexts     \* bound: texts told

ASSUME SessionAssumption ==
  /\ \A line \in Lines : line.prefixes \in Seq(STRING \X STRING) /\ line.words \in Seq(STRING)
  /\ MaxOutbox \in Nat /\ MaxStream \in Nat /\ MaxTexts \in Nat

\* The prefixes ParsePrefixes tells apart.
Token == ({"lang"} \X {"en", "cn"}) \cup ({"mode"} \X {"text", "cmd"})
         \cup ({"room", "other"} \X STRING)

\* A line looked at has words that fit into a pack, or one that is marked TooLong.
ASSUME ProbeAssumption ==
  \A line \in Probes :
    /\ line.prefixes \in Seq(Token) /\ line.words \in Seq(STRING)
    /\ Len(line.words) + 11 <= NET_PACK_MAX_LEN

VARIABLES
  m_currentRoom, m_deleted,
  outbox,      \* packs sent and not yet taken by the server
  joined,      \* the rooms the server has let the user into
  warned,      \* history: rooms refused, left, or named by the user without joining
  stream,      \* packs told and not yet received: the number of a text, or Other
  told,        \* texts told so far
  tasks        \* _taskList

lineVars   == <<m_currentRoom, m_deleted, outbox, warned>>
streamVars == <<stream, told, tasks>>
vars == <<lineVars, joined, streamVars, voiceVars>>

Other == 0     \* a pack that is only printed

Init ==
  /\ m_currentRoom = -1 /\ m_deleted = FALSE
  /\ outbox = <<>> /\ joined = {} /\ warned = {}
  /\ stream = <<>> /\ told = 0 /\ tasks = <<>>
  /\ VoiceInit

-----------------------------------------------------------------------------
(* The user.                                                                *)

\* The rooms a line names without asking to join them.
Named(line) ==
  {Stoi[line.prefixes[k][2]] : k \in {i \in DOMAIN line.prefixes :
      line.prefixes[i][1] = "room" /\ Parses(line.prefixes[i][2])}}
  \cup {Stoi[line.words[2]] : k \in {i \in {1} :
      Len(line.words) = 2 /\ line.words[1] = "USEROOM" /\ line.words[2] \in DOMAIN Stoi}}

\* HandleLine.  A send that fails deletes the player, and what follows it is not
\* sent.
HandleLine(line) ==
  LET effect == Effect(line, m_currentRoom)
  IN  /\ ~m_deleted
      /\ Len(outbox) + Len(effect.packs) <= MaxOutbox
      /\ m_currentRoom' = effect.room
      /\ \E n \in 0 .. Len(effect.packs) :
           /\ outbox' = outbox \o SubSeq(effect.packs, 1, n)
           /\ m_deleted' = (n < Len(effect.packs) \/ effect.does = "QUIT")
      /\ warned' = warned \cup Named(line)
      /\ IF effect.does \in {"MUTE", "UNMUTE"} THEN SetMute(effect.does = "MUTE")
         ELSE UNCHANGED voiceVars
      /\ UNCHANGED <<joined, streamVars>>

-----------------------------------------------------------------------------
(* The server, outside the repository.                                      *)

\* Nothing is told on a connection the client has closed.
Tell(pack) ==
  /\ ~m_deleted
  /\ Len(stream) + Len(tasks) < MaxStream
  /\ stream' = Append(stream, pack)

\* The next pack: a room is entered or refused, or left; the rest changes nothing
\* here.  Most packs are answered.
ServerTakes ==
  /\ outbox # <<>>
  /\ LET type   == Head(outbox)[1]
         fields == Head(outbox)[2]
         room   == Read(fields, 4).value
     IN  CASE type = "goto_room" ->
                \/ joined' = joined \cup {room} /\ UNCHANGED warned
                \/ warned' = warned \cup {room} /\ UNCHANGED joined
           [] type = "leave_room" ->
                joined' = joined \ {room} /\ warned' = warned \cup {room}
           [] OTHER -> UNCHANGED <<joined, warned>>
  /\ outbox' = Tail(outbox)
  /\ Tell(Other) \/ UNCHANGED stream
  /\ UNCHANGED <<m_currentRoom, m_deleted, told, tasks, voiceVars>>

ServerTells ==
  /\ joined # {} /\ told < MaxTexts
  /\ told' = told + 1
  /\ Tell(told + 1)
  /\ UNCHANGED <<lineVars, joined, tasks, voiceVars>>

-----------------------------------------------------------------------------
(* The receiving thread and the main loop.                                   *)

\* One recv: of the packs that came together the first is kept (Receiver.tla).
Recv ==
  /\ ~m_deleted
  /\ \E n \in 1 .. Len(stream) :
       /\ tasks' = Append(tasks, Head(stream))
       /\ stream' = SubSeq(stream, n + 1, Len(stream))
  /\ UNCHANGED <<lineVars, joined, told, voiceVars>>

\* DoOneTask: rpc_client_send_text is printed and queued for the voice, any other
\* pack is printed.
DoOneTask ==
  /\ ~m_deleted
  /\ tasks # <<>>
  /\ tasks' = Tail(tasks)
  /\ IF Head(tasks) = Other THEN UNCHANGED voiceVars ELSE AddVoiceMsg(Head(tasks))
  /\ UNCHANGED <<lineVars, joined, stream, told>>

Speaker == PlayVoiceMsg /\ UNCHANGED <<lineVars, joined, streamVars>>

Next ==
  \/ \E line \in Lines : HandleLine(line)
  \/ ServerTakes \/ ServerTells
  \/ Recv \/ DoOneTask \/ Speaker

\* The main loop and the speaking thread go on; nothing is asked of the user, the
\* network or the server.
Spec ==
  /\ Init /\ [][Next]_vars
  /\ WF_vars(DoOneTask) /\ WF_vars(Speaker)

-----------------------------------------------------------------------------
(* Properties.                                                              *)

\* The prefixes of a kind, by their places, and the text of the last of them.
Of(line, kind) == {k \in DOMAIN line.prefixes : line.prefixes[k][1] = kind}
LastOf(line, kind) == line.prefixes[Max(Of(line, kind))][2]

Invalid(line) ==
  Of(line, "other") # {} \/ \E k \in Of(line, "room") : ~Parses(line.prefixes[k][2])

\* The room a line is for.
Target(line, current) ==
  IF Of(line, "room") = {} THEN current ELSE Stoi[LastOf(line, "room")]

\* The words are sent to the room, after the language when the line names one, each
\* with its NUL; words too long for a pack are left out of it.
IsText(line, current, effect) ==
  LET target == Target(line, current)
      text   == effect.packs[Len(effect.packs)]
      body   == ReadString(Read(text[2], 4).rest).value
  IN  IF target < 0 THEN effect = Nothing(current)
      ELSE /\ effect.room = current /\ effect.does = "nothing"
           /\ Len(effect.packs) = IF Of(line, "lang") = {} THEN 1 ELSE 2
           /\ Of(line, "lang") # {} =>
                /\ effect.packs[1][1] = "set_language"
                /\ ReadString(effect.packs[1][2]).value = Terminated(LastOf(line, "lang"))
           /\ text[1] = "send_text" /\ Read(text[2], 4).value = target
           /\ IF Length(line.words) = NET_PACK_MAX_LEN THEN body = ""
                                                       ELSE body = Terminated(line.words)

TableCalls ==
  {"poker_action", "poker_buyin", "poker_standup", "poker_set_blinds", "poker_add_bot",
   "poker_kick_bot", "sit_down", "get_poker_table_info"}

\* What the help says of a line (src/Helper/HelpString.h:41-65), against what
\* HandleLine does with it.
Means(line, current) ==
  LET effect == Effect(line, current)
      words  == line.words
      types  == {effect.packs[k][1] : k \in DOMAIN effect.packs}
  IN  IF Invalid(line) THEN effect = Nothing(current)
      ELSE /\ IF Of(line, "mode") # {}
              THEN IF LastOf(line, "mode") = "text" THEN IsText(line, current, effect)
                                                    ELSE "send_text" \notin types
              ELSE (/\ line # EmptyLine
                    /\ words = <<>> \/ Head(words) \notin DOMAIN RegisterCommands)
                     => IsText(line, current, effect)
           /\ effect.room # current =>
                /\ "send_text" \notin types /\ Head(words) \in {"TOROOM", "USEROOM"}
                /\ effect.room = Stoi[words[2]]
           /\ \A k \in DOMAIN effect.packs :
                effect.packs[k][1] \in TableCalls =>
                  /\ Target(line, current) >= 0
                  /\ Read(effect.packs[k][2], 4).value = Target(line, current)

\* None, and the rooms a line can name.
RoomIds == {Stoi[word] : word \in DOMAIN Stoi}

Meaning == [room \in RoomIds |-> \A line \in Probes : Means(line, room)]

\* What prefixes and the active room do to a line, whatever was entered before: an
\* invalid prefix anywhere undoes the line, the last [text] or [cmd] and the last room
\* win, a room prefix is for its line only, the language goes before the text, a pack
\* for a table begins with the room meant.  Which pack a command sends, and what it
\* holds besides, is not said here (CommandProcessor.cpp:28-88, 311-391).
LinesMean == Meaning[m_currentRoom]

\* m_currentRoom is set before the server has let the user in, and LEAVEROOM keeps
\* it.  Still, when the server comes to a text its room has been entered, unless the
\* user was told it is closed, left it, or named it without joining
\* (CommandProcessor.cpp:147-172, 370-391).
TextsReachMembers ==
  \A k \in DOMAIN outbox : outbox[k][1] = "send_text" =>
    LET room == Read(outbox[k][2], 4).value
    IN  \/ room \in joined \cup warned
        \/ \E i \in 1 .. k - 1 :
             outbox[i][1] = "goto_room" /\ Read(outbox[i][2], 4).value = room

\* The speaking thread, which looks without the lock and takes with it, never takes
\* from an empty queue (AudioCenter.cpp:70-78).
NeverTakesNothing == speaker = "take" => voice # <<>>

\* Messages are taken in the order they were told, none twice, through the buffer of
\* recv and both queues (Player.cpp:9-29, NetPackHandler.cpp:11-46,
\* AudioCenter.cpp:23-78).
TakenInOrder == [][speaker = "take" /\ speaker' = "mute?" => vMsg' > vMsg]_vars

Pending(text) ==
  \/ \E k \in DOMAIN tasks : tasks[k] = text
  \/ \E k \in DOMAIN voice : voice[k] = text
  \/ vMsg = text /\ speaker \in {"mute?", "say"}

\* A text received is said, or dropped by MUTE, unless the client quits first.
TextsAreSaid ==
  \A text \in 1 .. MaxTexts : Pending(text) ~> ~Pending(text) \/ m_deleted

=============================================================================
