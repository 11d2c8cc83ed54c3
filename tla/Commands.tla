------------------------------ MODULE Commands ------------------------------
(***************************************************************************)
(* What a line means (src/Utils/CommandProcessor.cpp): the effect           *)
(* HandleLine has on m_currentRoom, on the packs sent, on the player and on  *)
(* the voice.  A line is                                                    *)
(*   prefixes  the bracketed tokens it begins with, as pairs of kind and     *)
(*             text: <<"lang", "en">>, <<"mode", "cmd">>, <<"room", "2">>    *)
(*             for [r2], <<"other", "">>;                                    *)
(*   words     what Split makes of the rest: two spaces in a row have an      *)
(*             empty word between them.                                     *)
(* A pack is a pair of its type and its fields.                             *)
(***************************************************************************)
EXTENDS NetPack, FiniteSets

NoRoom == "none"

\* A line of spaces alone is not empty: it is a text without words, which needs a
\* prefix here.
EmptyLine == [prefixes |-> <<>>, words |-> <<>>]

\* std::stoi, for the words that begin with a number; TryParseInt takes the words
\* that are a number from end to end.
Stoi == [word \in {"-1", "0", "1", "2", "2x", "65538"} |->
           CASE word = "-1" -> -1 [] word = "0" -> 0 [] word = "1" -> 1
             [] word = "65538" -> 65538 [] OTHER -> 2]
Parses(word) == word \in DOMAIN Stoi \ {"2x"}

\* The length of a text: only one longer than a pack matters.
TooLong == "too long"
Length(words) ==
  IF \E k \in DOMAIN words : words[k] = TooLong THEN NET_PACK_MAX_LEN ELSE Len(words)

-----------------------------------------------------------------------------
(* ParsePrefixes.                                                           *)

NoPrefix == [valid |-> TRUE, mode |-> "default", lang |-> "", room |-> NoRoom]

\* Mutant: a second [text] or [cmd] does not replace the first.
TakeMutant(prefix, token) ==
  CASE token[1] = "lang" -> [prefix EXCEPT !.lang = token[2]]
    [] token[1] = "mode" ->
         IF prefix.mode = "default" THEN [prefix EXCEPT !.mode = token[2]] ELSE prefix
    [] token[1] = "room" /\ Parses(token[2]) -> [prefix EXCEPT !.room = token[2]]
    [] OTHER -> [prefix EXCEPT !.valid = FALSE]

Take(prefix, token) ==
  CASE token[1] = "lang" -> [prefix EXCEPT !.lang = token[2]]
    [] token[1] = "mode" -> [prefix EXCEPT !.mode = token[2]]
    [] token[1] = "room" /\ Parses(token[2]) -> [prefix EXCEPT !.room = token[2]]
    [] OTHER -> [prefix EXCEPT !.valid = FALSE]

ParsePrefixes(tokens) ==
  LET upTo[k \in 0..Len(tokens)] ==
        IF k = 0 THEN NoPrefix
        ELSE IF ~upTo[k - 1].valid THEN upTo[k - 1] ELSE Take(upTo[k - 1], tokens[k])
  IN  upTo[Len(tokens)]

-----------------------------------------------------------------------------
(* The effect of a line.                                                    *)

Nothing(room) == [room |-> room, packs |-> <<>>, does |-> "nothing"]
Does(room, what) == [Nothing(room) EXCEPT !.does = what]
Sends(room, packs) == [Nothing(room) EXCEPT !.packs = packs]

\* SendTextMessage.  A text that does not fit is left out of its pack.
SendTextMessage(current, words, prefix, room) ==
  LET lang == IF prefix.lang = "" THEN <<>>
              ELSE <<<<"set_language", WriteString(<<>>, prefix.lang, 2)>>>>
      text == <<"send_text", WriteString(Write(<<>>, 4, room), words, Length(words))>>
  IN  IF room < 0 THEN Nothing(current) ELSE Sends(current, Append(lang, text))

\* The commands that send one pack: its type, and what is written to it, in order:
\* the room, a constant, or the next word of the line as a number or a text.
Call(type, writes) == [type |-> type, writes |-> writes]
Action(code, writes) == Call("poker_action", <<"room", code>> \o writes)

Calls ==
  [PING         |-> Call("ping", <<"now">>),
   LOGIN        |-> Call("log_in", <<"number", "text">>),
   REGISTER     |-> Call("register", <<"text", "text">>),
   SETNAME      |-> Call("set_name", <<"text">>),
   SETLANG      |-> Call("set_language", <<"text">>),
   MAKEROOM     |-> Call("create_room", <<"short">>),
   TOROOM       |-> Call("goto_room", <<"number">>),
   LEAVEROOM    |-> Call("leave_room", <<"number">>),
   MYROOMS      |-> Call("get_my_rooms", <<>>),
   ROOMLIST     |-> Call("print_room", <<>>),
   USERLIST     |-> Call("print_user", <<>>),
   TABLEINFO    |-> Call("get_poker_table_info", <<"room">>),
   SIT          |-> Call("sit_down", <<"room">>),
   BUYIN        |-> Call("poker_buyin", <<"room", "number">>),
   STANDUP      |-> Call("poker_standup", <<"room">>),
   SETBLINDS    |-> Call("poker_set_blinds", <<"room", "number", "number">>),
   CHECK        |-> Action("CheckCall", <<"zero">>),
   CALL         |-> Action("CheckCall", <<"zero">>),
   BET          |-> Action("Bet", <<"number">>),
   RAISE        |-> Action("Raise", <<"number">>),
   ALLIN        |-> Action("AllIn", <<"zero">>),
   FOLD         |-> Action("Fold", <<"zero">>),
   ADDHOLDEMBOT |-> Call("poker_add_bot", <<"room">>),
   RMHOLDEMBOT  |-> Call("poker_kick_bot", <<"room", "number">>)]

\* RegisterCommands: how many words a command must have, whether exactly so many,
\* and whether another number of words makes the line an error or a text.
Counts(min, exact, missingIsError) ==
  [min |-> min, exact |-> exact, missingIsError |-> missingIsError]

RegisterCommands ==
  [name \in DOMAIN Calls \cup {"QUIT", "MUTE", "UNMUTE", "USEROOM", "HELP"} |->
     CASE name \in {"LOGIN", "REGISTER"} -> Counts(3, TRUE, TRUE)
       [] name \in {"SETNAME", "SETLANG", "MAKEROOM", "TOROOM", "LEAVEROOM", "USEROOM"}
            -> Counts(2, TRUE, TRUE)
       [] name \in {"QUIT", "MUTE", "UNMUTE", "PING", "MYROOMS", "ROOMLIST", "USERLIST"}
            -> Counts(1, TRUE, FALSE)
       [] name = "RMHOLDEMBOT"            -> Counts(2, TRUE, FALSE)
       [] name = "SETBLINDS"              -> Counts(3, FALSE, FALSE)
       [] name \in {"BUYIN", "BET", "RAISE"} -> Counts(2, FALSE, FALSE)
       [] OTHER                           -> Counts(1, FALSE, FALSE)]

SizeOk(words) ==
  LET spec == RegisterCommands[Head(words)]
  IN  IF spec.exact THEN Len(words) = spec.min ELSE Len(words) >= spec.min

\* The word of the line that is written k-th: each of these takes the next one.
FromLine == {"number", "short", "text"}
WordFor(call, k, words) ==
  words[1 + Cardinality({i \in 1..k : call.writes[i] \in FromLine})]

\* Every word a command reads as a number begins with one, or stoi throws.
NumbersOk(call, words) ==
  \A k \in DOMAIN call.writes :
    call.writes[k] \in {"number", "short"} => WordFor(call, k, words) \in DOMAIN Stoi

\* A number is the bytes it is sent as: of an int the four WriteInt32 and WriteUInt32
\* write are the same.
WriteCall(call, words, room) ==
  LET one(pack, k) ==
        LET what == call.writes[k]
            word == WordFor(call, k, words)
        IN  CASE what = "room"   -> Write(pack, 4, room)
              [] what = "number" -> Write(pack, 4, Stoi[word])
              [] what = "short"  -> Write(pack, 2, Stoi[word] % 65536)
              [] what = "text"   -> WriteString(pack, word, 1)
              [] what = "zero"   -> Write(pack, 4, 0)
              [] what = "now"    -> Write(pack, 8, 0)
              [] OTHER           -> Write(pack, 1, what)
      upTo[k \in 0..Len(call.writes)] == IF k = 0 THEN <<>> ELSE one(upTo[k - 1], k)
  IN  <<<<call.type, upTo[Len(call.writes)]>>>>

\* Mutant: LEAVEROOM was made from a copy of TOROOM.
HandlerMutant(current, words, room) ==
  LET name == Head(words)
      call == Calls[name]
      needsRoom == \E k \in DOMAIN call.writes : call.writes[k] = "room"
  IN  CASE name \in {"QUIT", "MUTE", "UNMUTE"} -> Does(current, name)
        [] name = "HELP" -> Nothing(current)
        [] name = "USEROOM" ->
             Nothing(IF words[2] \in DOMAIN Stoi THEN Stoi[words[2]] ELSE current)
        [] OTHER ->
             IF (needsRoom /\ room < 0) \/ ~NumbersOk(call, words) THEN Nothing(current)
             ELSE Sends(IF name \in {"TOROOM", "LEAVEROOM"} THEN Stoi[words[2]] ELSE current,
                        WriteCall(call, words, room))

\* The handler of a command: m_currentRoom is set before the pack is sent.
Handler(current, words, room) ==
  LET name == Head(words)
      call == Calls[name]
      needsRoom == \E k \in DOMAIN call.writes : call.writes[k] = "room"
  IN  CASE name \in {"QUIT", "MUTE", "UNMUTE"} -> Does(current, name)
        [] name = "HELP" -> Nothing(current)
        [] name = "USEROOM" ->
             Nothing(IF words[2] \in DOMAIN Stoi THEN Stoi[words[2]] ELSE current)
        [] OTHER ->
             IF (needsRoom /\ room < 0) \/ ~NumbersOk(call, words) THEN Nothing(current)
             ELSE Sends(IF name = "TOROOM" THEN Stoi[words[2]] ELSE current,
                        WriteCall(call, words, room))

\* HandleLine.
Effect(line, current) ==
  LET prefix  == ParsePrefixes(line.prefixes)
      words   == line.words
      room    == IF prefix.room = NoRoom THEN current ELSE Stoi[prefix.room]
      known   == words # <<>> /\ Head(words) \in DOMAIN RegisterCommands
      command == prefix.mode # "text" /\ known /\ SizeOk(words)
      error   == \/ prefix.mode = "cmd"
                 \/ prefix.mode = "default" /\ known
                    /\ RegisterCommands[Head(words)].missingIsError
  IN  CASE ~prefix.valid            -> Nothing(current)
        [] prefix.valid /\ command  -> Handler(current, words, room)
        [] prefix.valid /\ ~command /\ (error \/ line = EmptyLine) -> Nothing(current)
        [] OTHER                    -> SendTextMessage(current, words, prefix, room)

=============================================================================
