----------------------------- MODULE InputLine -----------------------------
(***************************************************************************)
(* The line being typed and the commands typed before it, the part of the   *)
(* UI thread's data that Console::HandleKeyEvent works on                    *)
(* (src/Utils/Console.cpp:290-410).  Each key is an operator on the record   *)
(*   line     m_inputLine, a sequence of characters                          *)
(*   caret    m_caretPos, the number of characters before the caret          *)
(*   history  m_cmdHistory, oldest first                                     *)
(*   index    m_cmdHistoryIndex, counted from 0; NoIndex is kHistoryNone     *)
(*   draft    m_cmdDraft, what was typed before history was browsed          *)
(***************************************************************************)
EXTENDS Integers, SequencesExt

CONSTANT MaxCmdHistory     \* m_maxCmdHistory: 200 in the code

ASSUME InputAssumption == MaxCmdHistory \in Nat

NoIndex == -1

EmptyLine == [line |-> <<>>, caret |-> 0, history |-> <<>>, index |-> NoIndex, draft |-> <<>>]

\* line.erase(pos, 1), with positions counted from 0.
Erased(line, pos) == RemoveAt(line, pos + 1)

Back(e) ==
  IF e.caret > 0
  THEN [e EXCEPT !.line = Erased(@, e.caret - 1), !.caret = @ - 1] ELSE e

Delete(e) ==
  IF e.caret < Len(e.line) THEN [e EXCEPT !.line = Erased(@, e.caret)] ELSE e

Left(e)  == [e EXCEPT !.caret = IF @ > 0 THEN @ - 1 ELSE @]
Right(e) == [e EXCEPT !.caret = IF @ < Len(e.line) THEN @ + 1 ELSE @]
Home(e)  == [e EXCEPT !.caret = 0]
End(e)   == [e EXCEPT !.caret = Len(e.line)]

Insert(e, char) ==
  [e EXCEPT !.line = InsertAt(@, e.caret + 1, char), !.caret = @ + 1]

\* The oldest command goes when there are too many.
Limited(history) == IF Len(history) > MaxCmdHistory THEN Tail(history) ELSE history

\* Mutant: the earlier copy of the line stays.
RememberedMutant(history, line) ==
  IF line = <<>> THEN history ELSE Limited(Append(history, line))

\* The line goes to the end of the history, and its earlier copy away.
Remembered(history, line) ==
  IF line = <<>> THEN history ELSE Limited(Append(RemoveFirst(history, line), line))

Return(e) ==
  [EmptyLine EXCEPT !.history = Remembered(e.history, e.line)]

Recalled(e, index) ==
  [e EXCEPT !.index = index, !.line = e.history[index + 1],
            !.caret = Len(e.history[index + 1])]

\* Mutant: every step back keeps the line shown as the draft.
UpMutant(e) ==
  LET d == [e EXCEPT !.draft = e.line]
  IN  IF e.history = <<>> THEN e
      ELSE Recalled(d, CASE e.index = NoIndex -> Len(e.history) - 1
                         [] e.index = 0       -> 0
                         [] OTHER             -> e.index - 1)

Up(e) ==
  IF e.history = <<>> THEN e
  ELSE IF e.index = NoIndex
       THEN Recalled([e EXCEPT !.draft = e.line], Len(e.history) - 1)
       ELSE Recalled(e, IF e.index > 0 THEN e.index - 1 ELSE 0)

Down(e) ==
  IF e.index = NoIndex THEN e
  ELSE IF e.index + 1 < Len(e.history) THEN Recalled(e, e.index + 1)
       ELSE [e EXCEPT !.index = NoIndex, !.line = e.draft, !.caret = Len(e.draft)]

=============================================================================
