------------------------------- MODULE Screen -------------------------------
(***************************************************************************)
(* What the UI thread does with the records it reads and the text it drains  *)
(* (src/Utils/Console.cpp:231-680): keys edit the input line or scroll, the   *)
(* wheel scrolls, a resize wraps the history again, and text of the other     *)
(* threads is added below.  All this data belongs to the UI thread alone; the *)
(* queues and events it shares with others are in Console.tla.                *)
(***************************************************************************)
EXTENDS InputLine, ScrollView

CONSTANTS
  Chars,       \* what can be typed
  Chunks,      \* the pieces of text other threads print
  Sizes,       \* the sizes <<columns, rows>> of the window
  MaxLine      \* bound: characters typed into the line

ASSUME ScreenAssumption ==
  /\ Newline \notin Chars
  /\ \A chunk \in Chunks : chunk \in Seq(Range(chunk))
  /\ Sizes \subseteq (Nat \ {0}) \X (Nat \ {0})
  /\ MaxLine \in Nat

VARIABLES
  edit,        \* the input line, InputLine.tla
  view,        \* the text above it, ScrollView.tla
  echo,        \* the lines entered since the last drain, as they are echoed
  drawn        \* what stands on the console: its rows, the input line, the cursor

vars == <<edit, view, echo, drawn>>

Prompt == <<">", " ">>

-----------------------------------------------------------------------------
(* Drawing.                                                                 *)

\* RenderInputLine: the end of prompt and line, and the column of the cursor.
InputDrawn(e, v) ==
  LET full  == Prompt \o e.line
      start == Max({0, Len(full) - v.cols})
      caret == Max({0, Len(Prompt) + e.caret - start})
  IN  [input  |-> SubSeq(full, start + 1, Len(full)),
       cursor |-> Min({caret, v.cols - 1})]

\* A window of one row has no room for text: what was there is not touched.
Drawing(e, v) ==
  [text   |-> IF v.rows > 1 THEN Shown(v) ELSE <<>>,
   input  |-> InputDrawn(e, v).input,
   cursor |-> InputDrawn(e, v).cursor]

Init ==
  \E size \in Sizes :
    /\ edit = EmptyLine
    /\ view = EmptyView(size)
    /\ echo = <<>>
    /\ drawn = Drawing(edit, view)

-----------------------------------------------------------------------------
(* HandleKeyEvent.  Bound: Enter is the last record of its batch, so that at  *)
(* most one line is echoed by a drain.                                      *)

Edit(e) ==
  /\ echo = <<>>
  /\ edit' = e
  /\ UNCHANGED <<view, echo>>

Draws == drawn' = Drawing(edit', view')

Type == \E char \in Chars :
  Len(edit.line) < MaxLine /\ Edit(Insert(edit, char)) /\ Draws

Move ==
  /\ \E e \in {Back(edit), Delete(edit), Left(edit), Right(edit), Home(edit)} : Edit(e)
  /\ Draws

Browse ==
  /\ \E e \in {Up(edit), Down(edit)} : Edit(e)
  /\ Draws

\* VK_END returns before the line is drawn.
GoEnd == Edit(End(edit)) /\ UNCHANGED drawn

\* QueueCommand echoes the line; that the line is also queued for the input
\* thread is UiQueue of Console.tla.
Enter ==
  /\ echo = <<>>
  /\ edit' = Return(edit)
  /\ echo' = <<Prompt \o edit.line \o <<Newline>>>>
  /\ UNCHANGED view
  /\ Draws

\* PgUp, PgDn, Ctrl with an arrow, and the wheel.
Scroll ==
  /\ echo = <<>>
  /\ \E delta \in {OutputRows(view), -OutputRows(view), 1, -1, 3, -3} :
       view' = AdjustScroll(view, delta)
  /\ UNCHANGED <<edit, echo>>
  /\ IF view.rows > 1 THEN Draws ELSE UNCHANGED drawn

Resize ==
  /\ echo = <<>>
  /\ \E size \in Sizes : view' = Clamped(UpdateWindowInfo(view, size))
  /\ UNCHANGED <<edit, echo>>
  /\ Draws

\* What the queue may hold at the end of a pass.  Bound: at most one piece of text
\* besides the echo.
Queued == ({echo} \cup {<<c>> \o echo : c \in Chunks} \cup {echo \o <<c>> : c \in Chunks})
          \ {<<>>}

Drain(chunks) ==
  /\ view' = DrainOutputQueue(view, chunks)
  /\ echo' = <<>>
  /\ UNCHANGED edit
  /\ Draws

Next ==
  \/ Type \/ Move \/ Browse \/ GoEnd \/ Enter
  \/ Scroll \/ Resize
  \/ \E chunks \in Queued : Drain(chunks)

Spec == Init /\ [][Next]_vars

-----------------------------------------------------------------------------
(* Properties.                                                              *)

\* However keys are mixed, the caret stays within the line and the place in the
\* command history within the history, which Enter reorders and cuts under it: the
\* erasures and look-ups that follow never leave their containers.  The history
\* holds no command twice and not too many (Console.cpp:297-398).
EditorIsSafe ==
  /\ edit.caret \in 0 .. Len(edit.line)
  /\ edit.index = NoIndex \/ edit.index + 1 \in DOMAIN edit.history
  /\ Len(edit.history) <= MaxCmdHistory
  /\ IsInjective(edit.history)

\* Browsing back down past the newest command returns the line that was being typed
\* when browsing began, however far one went and whatever was done to the recalled
\* commands on the way (Console.cpp:354-398).
DraftComesBack ==
  [][/\ edit.index = NoIndex /\ edit'.index # NoIndex => edit'.draft = edit.line
     /\ edit.index # NoIndex /\ edit'.index # NoIndex => edit'.draft = edit.draft
     /\ edit.index # NoIndex /\ edit'.index = NoIndex => edit'.line = edit.draft \/ Enter]_vars

\* The rows are those of the lines, cut at the present width, and the counts kept
\* beside them are right: adding, trimming and wrapping again never diverge
\* (Console.cpp:574-609, 650-679).
WrappedIsCurrent ==
  LET rows == [k \in DOMAIN view.raw |-> Wrap(view.raw[k], view.cols)]
  IN  /\ view.wrapped = FlattenSeq(rows)
      /\ view.counts = [k \in DOMAIN rows |-> Len(rows[k])]
      /\ Len(view.raw) <= MaxHistoryLines

\* The first row drawn lies in the history: total - outputRows - m_scrollOffset, in
\* unsigned arithmetic, does not wrap round after any scroll, drain or resize
\* (Console.cpp:476-489).
OffsetInRange ==
  view.rows > 1 => /\ view.offset \in 0 .. MaxOffset(view)
                   /\ view.follow => view.offset = 0

\* No row of the window is left blank while there is text for it, a reader at the end
\* has the newest row in sight, and the end of the typed line stands below with the
\* cursor inside the window (Console.cpp:471-543).
WindowIsFull ==
  /\ view.rows > 1 => Len(drawn.text) = Min({OutputRows(view), Len(view.wrapped)})
  /\ view.follow /\ drawn.text # <<>> => Last(drawn.text) = Last(view.wrapped)
  /\ IsSuffix(drawn.input, Prompt \o edit.line)
  /\ Len(drawn.input) = Min({view.cols, Len(Prompt \o edit.line)})
  /\ drawn.cursor \in 0 .. view.cols - 1

\* New text does not move the rows a reader has scrolled up to, as long as no old
\* line is trimmed for it.  When lines are, the rows move by no more than what was
\* trimmed: it is subtracted from an offset that is counted from below
\* (Console.cpp:453-464).
ReaderKeepsPlace ==
  [][~view.follow /\ view.rows > 1 /\ MaxOffset(view) > 0 =>
       \A chunks \in Queued : Drain(chunks) =>
         LET added   == RowsOf(view, AllLines(chunks))
             trimmed == Len(view.wrapped) + added - Len(view'.wrapped)
             moved   == Start(view') + trimmed - Start(view)
         IN  moved \in 0 .. trimmed]_vars

=============================================================================
