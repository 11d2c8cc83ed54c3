----------------------------- MODULE MCSession -----------------------------
(***************************************************************************)
(* Two rooms, a few lines that are entered in any order, and many that are    *)
(* looked at.                                                               *)
(***************************************************************************)
EXTENDS Session

Line(prefixes, words) == [prefixes |-> prefixes, words |-> words]

SmallLines ==
  {Line(<<>>, words) : words \in
     {<<"hello">>, <<"TOROOM", "2">>, <<"LEAVEROOM", "2">>,
      <<"USEROOM", "1">>, <<"MUTE">>, <<"UNMUTE">>, <<"QUIT">>}}
  \cup {Line(<<<<"lang", "en">>>>, <<"hello">>)}

Tokens ==
  {<<"lang", "en">>, <<"lang", "cn">>, <<"mode", "text">>, <<"mode", "cmd">>,
   <<"room", "1">>, <<"room", "2x">>, <<"room", "-1">>, <<"other", "">>}

Bodies ==
  {<<>>, <<"hello">>, <<"CALLS", "1">>, <<TooLong>>, <<"LOGIN", "", "1">>}
  \cup {<<name>> : name \in DOMAIN RegisterCommands}
  \cup {<<name, word>> : name \in DOMAIN RegisterCommands, word \in {"1", "2x", "x"}}
  \cup {<<name, "2", "1">> : name \in DOMAIN RegisterCommands}

ManyLines ==
  {Line(prefixes, words) :
     prefixes \in UNION {[1..n -> Tokens] : n \in 0..2}, words \in Bodies}
  \cup {Line(prefixes, words) :
     prefixes \in [1..3 -> Tokens], words \in {<<"hello">>, <<"USEROOM", "2">>, <<"CALL">>}}

=============================================================================
