----------------------------- MODULE ScrollView -----------------------------
(***************************************************************************)
(* The text above the input line: the lines printed so far, the rows they    *)
(* take at the width of the window, and how far the reader has scrolled up   *)
(* (src/Utils/Console.cpp:412-512, 545-680).  An operator works on a record  *)
(*   raw      m_rawHistory      the lines, each a sequence of characters     *)
(*   counts   m_wrapCounts      the number of rows of each line              *)
(*   wrapped  m_wrappedHistory  the rows                                     *)
(*   offset   m_scrollOffset    rows below the last one shown                *)
(*   follow   m_followTail      the newest row is kept in sight              *)
(*   cols, rows                 the size of the window                       *)
(***************************************************************************)
EXTENDS Integers, SequencesExt, Vectors

CONSTANT MaxHistoryLines     \* m_maxHistoryLines: 1000 in the code

ASSUME ViewAssumption == MaxHistoryLines \in Nat

Newline == "\n"

EmptyView(size) ==
  [raw |-> <<>>, counts |-> <<>>, wrapped |-> <<>>, offset |-> 0, follow |-> TRUE,
   cols |-> size[1], rows |-> size[2]]

\* The row of the window that is left for the input line is not counted.
OutputRows(v) == v.rows - 1
MaxOffset(v)  == Max({0, Len(v.wrapped) - OutputRows(v)})

\* A line cut into rows of a given width; an empty line takes a row as well.
Wrap(line, width) ==
  LET count == IF line = <<>> THEN 1 ELSE (Len(line) + width - 1) \div width
  IN  [k \in 1..count |-> SubSeq(line, (k - 1) * width + 1, Min({k * width, Len(line)}))]

-----------------------------------------------------------------------------
(* New text.                                                                *)

\* The oldest line goes, with as many rows as it was counted to take.
Trimmed(v) ==
  IF Len(v.raw) <= MaxHistoryLines THEN v
  ELSE [v EXCEPT !.raw = Tail(@), !.counts = Tail(@),
                 !.wrapped = SubSeq(@, Head(v.counts) + 1, Len(@))]

AppendHistoryLine(v, line) ==
  LET rows == Wrap(line, v.cols)
  IN  Trimmed([v EXCEPT !.raw = Append(@, line), !.counts = Append(@, Len(rows)),
                        !.wrapped = @ \o rows])

\* The lines of a piece of text.  What follows the last newline is a line too,
\* also when nothing follows it: a printed line is followed by an empty one.
Lines(chunk) ==
  LET upTo[n \in 0..Len(chunk)] ==
        IF n = 0 THEN <<<<>>>>
        ELSE IF chunk[n] = Newline THEN Append(upTo[n - 1], <<>>)
        ELSE [upTo[n - 1] EXCEPT ![Len(upTo[n - 1])] = Append(@, chunk[n])]
  IN  upTo[Len(chunk)]

AllLines(chunks) == FlattenSeq([k \in DOMAIN chunks |-> Lines(chunks[k])])

Appended(v, lines) ==
  LET upTo[k \in 0..Len(lines)] ==
        IF k = 0 THEN v ELSE AppendHistoryLine(upTo[k - 1], lines[k])
  IN  upTo[Len(lines)]

\* The rows that adding the lines puts in.
RowsOf(v, lines) == SumSeq([k \in DOMAIN lines |-> Len(Wrap(lines[k], v.cols))])

\* Mutant: the offset is only reset for a reader at the end.
ClampedMutant(v) == [v EXCEPT !.offset = IF v.follow THEN 0 ELSE @]

\* RenderOutputRegion: the part that changes the data.
Clamped(v) ==
  IF v.rows <= 1 THEN v
  ELSE [v EXCEPT !.offset = IF v.follow THEN 0 ELSE Min({@, MaxOffset(v)})]

\* Mutant: new rows are not counted for a reader who has scrolled up.
MovedMutant(v, added, removed) == Max({0, v.offset - removed})

\* The place of a reader who has scrolled up, in rows from the end.
Moved(v, added, removed) ==
  IF v.follow THEN v.offset ELSE Max({0, v.offset + added - removed})

DrainOutputQueue(v, chunks) ==
  LET lines   == AllLines(chunks)
      n       == Appended(v, lines)
      added   == RowsOf(v, lines)
      removed == Len(v.wrapped) + added - Len(n.wrapped)
      offset  == Moved(v, added, removed)
  IN  Clamped([n EXCEPT !.offset = offset, !.follow = @ \/ offset = 0])

-----------------------------------------------------------------------------
(* Scrolling and resizing.                                                  *)

\* Mutant: the reader can scroll past the first row.
AdjustScrollMutant(v, delta) ==
  LET offset == Max({0, v.offset + delta})
  IN  IF v.rows <= 1 THEN v ELSE [v EXCEPT !.offset = offset, !.follow = offset = 0]

AdjustScroll(v, delta) ==
  LET offset == CASE delta > 0 -> Min({MaxOffset(v), v.offset + delta})
                  [] delta < 0 -> Max({0, v.offset + delta})
                  [] OTHER -> v.offset
  IN  IF v.rows <= 1 THEN v
      ELSE Clamped([v EXCEPT !.offset = offset, !.follow = offset = 0])

Rewrapped(v) ==
  LET rows == [k \in DOMAIN v.raw |-> Wrap(v.raw[k], v.cols)]
  IN  [v EXCEPT !.wrapped = FlattenSeq(rows),
                !.counts = Vector([k \in DOMAIN rows |-> Len(rows[k])]),
                !.offset = IF v.follow THEN 0 ELSE @]

\* Mutant: the rows are only made again when the window gets narrower.
UpdateWindowInfoMutant(v, size) ==
  LET n == [v EXCEPT !.cols = size[1], !.rows = size[2]]
  IN  IF size[1] < v.cols THEN Rewrapped(n) ELSE n

\* UpdateWindowInfo, with RebuildWrappedHistory when the width has changed.
UpdateWindowInfo(v, size) ==
  LET n == [v EXCEPT !.cols = size[1], !.rows = size[2]]
  IN  IF size[1] # v.cols THEN Rewrapped(n) ELSE n

\* The rows RenderOutputRegion writes: how many lie above them, and the rows.
Start(v) == IF MaxOffset(v) > 0 THEN MaxOffset(v) - v.offset ELSE 0

Shown(v) ==
  SubSeq(v.wrapped, Max({1, Start(v) + 1}), Min({Len(v.wrapped), Start(v) + OutputRows(v)}))

=============================================================================
