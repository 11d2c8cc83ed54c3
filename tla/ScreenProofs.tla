---------------------------- MODULE ScreenProofs ----------------------------
(***************************************************************************)
(* Proofs about Screen.tla, for any characters, any windows and any limits.  *)
(* The input line: the caret and the place in the history never leave the    *)
(* line and the history, which holds no command twice, and a draft comes      *)
(* back.  The text above it: rows and lines stay in step, the offset stays    *)
(* above the window, what is drawn fills it, and a reader keeps the place.   *)
(***************************************************************************)
EXTENDS Screen, VectorTheorems, TLAPS

EditorTypes ==
  edit \in [line: Seq(Chars), caret: Nat, history: Seq(Seq(Chars)),
            index: Nat \cup {NoIndex}, draft: Seq(Chars)]

EditorInv == EditorTypes /\ EditorIsSafe

\* The same of a record, so that the keys can be taken one by one.
Editors ==
  [line: Seq(Chars), caret: Nat, history: Seq(Seq(Chars)),
   index: Nat \cup {NoIndex}, draft: Seq(Chars)]

Safe(e) ==
  /\ e \in Editors
  /\ e.caret <= Len(e.line)
  /\ e.index = NoIndex \/ e.index + 1 \in 1 .. Len(e.history)
  /\ Len(e.history) <= MaxCmdHistory
  /\ \A i, j \in 1 .. Len(e.history) : e.history[i] = e.history[j] => i = j

-----------------------------------------------------------------------------
(* Sequences.                                                               *)

\* What RemoveAt leaves: the elements before the position and those after it.
LEMMA Removed ==
  ASSUME NEW S, NEW s \in Seq(S), NEW i \in 1 .. Len(s)
  PROVE  /\ RemoveAt(s, i) \in Seq(S)
         /\ Len(RemoveAt(s, i)) = Len(s) - 1
         /\ \A k \in 1 .. Len(s) - 1 :
              RemoveAt(s, i)[k] = IF k < i THEN s[k] ELSE s[k + 1]
<1> DEFINE a == SubSeq(s, 1, i - 1)  b == SubSeq(s, i + 1, Len(s))
<1>1. /\ a \in Seq(S) /\ Len(a) = i - 1
      /\ \A k \in 1 .. i - 1 : a[k] = s[k]
  OBVIOUS
<1>2. /\ b \in Seq(S) /\ Len(b) = Len(s) - i
      /\ \A k \in 1 .. Len(s) - i : b[k] = s[i + k]
  OBVIOUS
<1> HIDE DEF a, b
<1>3. /\ a \o b \in Seq(S) /\ Len(a \o b) = Len(s) - 1
      /\ \A k \in 1 .. Len(s) - 1 : (a \o b)[k] = IF k <= i - 1 THEN a[k] ELSE b[k - (i - 1)]
  <2>1. /\ a \o b \in Seq(S) /\ Len(a \o b) = Len(a) + Len(b)
        /\ \A k \in 1 .. Len(a) + Len(b) :
             (a \o b)[k] = IF k <= Len(a) THEN a[k] ELSE b[k - Len(a)]
      BY <1>1, <1>2, ConcatProperties
  <2>2. Len(s) \in Nat /\ Len(a) + Len(b) = Len(s) - 1 BY <1>1, <1>2
  <2> QED BY <1>1, <2>1, <2>2
<1>4. \A k \in 1 .. Len(s) - 1 : (a \o b)[k] = IF k < i THEN s[k] ELSE s[k + 1]
  <2> SUFFICES ASSUME NEW k \in 1 .. Len(s) - 1
               PROVE  (a \o b)[k] = IF k < i THEN s[k] ELSE s[k + 1]
      OBVIOUS
  <2>1. CASE k < i
      BY <1>1, <1>3, <2>1
  <2>2. CASE ~(k < i)
    <3>1. k - (i - 1) \in 1 .. Len(s) - i /\ i + (k - (i - 1)) = k + 1 BY <2>2
    <3>2. (a \o b)[k] = b[k - (i - 1)] BY <1>3, <2>2
    <3> QED BY <1>2, <2>2, <3>1, <3>2
  <2> QED BY <2>1, <2>2
<1> QED BY <1>3, <1>4 DEF RemoveAt, a, b

\* InsertAt makes the sequence one longer.
LEMMA Inserted ==
  ASSUME NEW S, NEW s \in Seq(S), NEW i \in 1 .. Len(s) + 1, NEW e \in S
  PROVE  /\ InsertAt(s, i, e) \in Seq(S)
         /\ Len(InsertAt(s, i, e)) = Len(s) + 1
<1> DEFINE a == SubSeq(s, 1, i - 1)  b == SubSeq(s, i, Len(s))  c == a \o <<e>>
<1>1. a \in Seq(S) /\ Len(a) = i - 1 OBVIOUS
<1>2. b \in Seq(S) /\ Len(b) = Len(s) - i + 1 OBVIOUS
<1>3. <<e>> \in Seq(S) /\ Len(<<e>>) = 1 OBVIOUS
<1> HIDE DEF a, b
<1>4. c \in Seq(S) /\ Len(c) = Len(a) + 1 BY <1>1, <1>3, ConcatProperties
<1> HIDE DEF c
<1>5. c \o b \in Seq(S) /\ Len(c \o b) = Len(c) + Len(b) BY <1>2, <1>4, ConcatProperties
<1>6. Len(c) + Len(b) = Len(s) + 1 BY <1>1, <1>2, <1>4
<1>7. InsertAt(s, i, e) = c \o b BY DEF InsertAt, a, b, c
<1> QED BY <1>5, <1>6, <1>7

\* No two places of the sequence hold the same.
Distinct(s) == \A i, j \in 1 .. Len(s) : s[i] = s[j] => i = j

\* When the first copy of an element of a sequence without repetitions is removed,
\* none is left.
LEMMA FirstRemoved ==
  ASSUME NEW S, NEW s \in Seq(S), NEW e \in S, Distinct(s)
  PROVE  /\ RemoveFirst(s, e) \in Seq(S)
         /\ Len(RemoveFirst(s, e)) <= Len(s)
         /\ Distinct(RemoveFirst(s, e))
         /\ \A k \in 1 .. Len(RemoveFirst(s, e)) : RemoveFirst(s, e)[k] # e
<1>1. CASE ~\E i \in 1 .. Len(s) : s[i] = e
    BY <1>1 DEF RemoveFirst
<1>2. CASE \E i \in 1 .. Len(s) : s[i] = e
  <2> DEFINE I == {i \in 1 .. Len(s) : s[i] = e}
             n == Min(I)
             t == RemoveAt(s, n)
  <2>1. n \in 1 .. Len(s) /\ s[n] = e
    <3>1. I \in SUBSET Nat /\ I # {} BY <1>2
    <3> QED BY <3>1, MinOfNats
  <2>2. RemoveFirst(s, e) = t
    <3>1. SelectInSeq(s, LAMBDA v : v = e) = n BY <1>2 DEF SelectInSeq
    <3> QED BY <1>2, <3>1 DEF RemoveFirst
  <2> HIDE DEF n, t
  <2>3. /\ t \in Seq(S) /\ Len(t) = Len(s) - 1
        /\ \A k \in 1 .. Len(t) : t[k] = IF k < n THEN s[k] ELSE s[k + 1]
      BY <2>1, Removed DEF t
  <2>4. \A k \in 1 .. Len(t) : t[k] # e
    <3> SUFFICES ASSUME NEW k \in 1 .. Len(t) PROVE t[k] # e OBVIOUS
    <3>1. k \in 1 .. Len(s) /\ k + 1 \in 1 .. Len(s) BY <2>3
    <3> QED BY <2>1, <2>3, <3>1 DEF Distinct
  <2>5. Distinct(t)
    <3> SUFFICES ASSUME NEW i \in 1 .. Len(t), NEW j \in 1 .. Len(t), t[i] = t[j] PROVE i = j
        BY DEF Distinct
    <3>1. /\ i \in 1 .. Len(s) /\ i + 1 \in 1 .. Len(s)
          /\ j \in 1 .. Len(s) /\ j + 1 \in 1 .. Len(s)
        BY <2>3
    <3>2. /\ t[i] = IF i < n THEN s[i] ELSE s[i + 1]
          /\ t[j] = IF j < n THEN s[j] ELSE s[j + 1]
        BY <2>3
    <3>3. CASE i < n /\ j < n BY <3>1, <3>2, <3>3 DEF Distinct
    <3>4. CASE i < n /\ ~(j < n)
      <4>1. i = j + 1 BY <3>1, <3>2, <3>4 DEF Distinct
      <4> QED BY <2>1, <3>1, <3>4, <4>1
    <3>5. CASE ~(i < n) /\ j < n
      <4>1. i + 1 = j BY <3>1, <3>2, <3>5 DEF Distinct
      <4> QED BY <2>1, <3>1, <3>5, <4>1
    <3>6. CASE ~(i < n) /\ ~(j < n)
      <4>1. i + 1 = j + 1 BY <3>1, <3>2, <3>6 DEF Distinct
      <4> QED BY <3>1, <4>1
    <3> QED BY <3>3, <3>4, <3>5, <3>6
  <2> QED BY <2>2, <2>3, <2>4, <2>5
<1> QED BY <1>1, <1>2

-----------------------------------------------------------------------------
(* The keys.                                                                *)

\* No place in the history is mistaken for none.
LEMMA NotAnIndex == NoIndex \notin Nat /\ NoIndex \in Int BY DEF NoIndex

\* A record of the fields of an editor.
Editor(line, caret, history, index, draft) ==
  [line |-> line, caret |-> caret, history |-> history, index |-> index, draft |-> draft]

\* An editor is the record of its fields.
LEMMA Whole ==
  ASSUME NEW e \in Editors
  PROVE  e = Editor(e.line, e.caret, e.history, e.index, e.draft)
  BY DEF Editors, Editor

\* One field changed.
SetLine(e, v)  == [e EXCEPT !.line = v]
SetCaret(e, v) == [e EXCEPT !.caret = v]
SetIndex(e, v) == [e EXCEPT !.index = v]
SetDraft(e, v) == [e EXCEPT !.draft = v]

\* An editor with one field changed is the record of all its fields.
LEMMA ChangedOne ==
  ASSUME NEW a, NEW b, NEW h, NEW x, NEW g, NEW v
  PROVE  /\ SetLine(Editor(a, b, h, x, g), v) = Editor(v, b, h, x, g)
         /\ SetCaret(Editor(a, b, h, x, g), v) = Editor(a, v, h, x, g)
         /\ SetIndex(Editor(a, b, h, x, g), v) = Editor(a, b, h, v, g)
         /\ SetDraft(Editor(a, b, h, x, g), v) = Editor(a, b, h, x, v)
<1>1. SetLine(Editor(a, b, h, x, g), v) = Editor(v, b, h, x, g) BY DEF Editor, SetLine
<1>2. SetCaret(Editor(a, b, h, x, g), v) = Editor(a, v, h, x, g) BY DEF Editor, SetCaret
<1>3. SetIndex(Editor(a, b, h, x, g), v) = Editor(a, b, h, v, g) BY DEF Editor, SetIndex
<1>4. SetDraft(Editor(a, b, h, x, g), v) = Editor(a, b, h, x, v) BY DEF Editor, SetDraft
<1> QED BY <1>1, <1>2, <1>3, <1>4

\* The same of any editor, and of the changes the keys make together.
LEMMA ChangedRecord ==
  ASSUME NEW e \in Editors, NEW l, NEW c, NEW i, NEW d
  PROVE  /\ SetCaret(e, c) = Editor(e.line, c, e.history, e.index, e.draft)
         /\ SetLine(e, l) = Editor(l, e.caret, e.history, e.index, e.draft)
         /\ SetDraft(e, d) = Editor(e.line, e.caret, e.history, e.index, d)
         /\ SetCaret(SetLine(e, l), c) = Editor(l, c, e.history, e.index, e.draft)
         /\ SetCaret(SetLine(SetIndex(e, i), l), c) = Editor(l, c, e.history, i, e.draft)
<1> DEFINE a == e.line  b == e.caret  h == e.history  x == e.index  g == e.draft
<1>0. e = Editor(a, b, h, x, g) BY Whole
<1> HIDE DEF a, b, h, x, g
<1>1. SetCaret(e, c) = Editor(a, c, h, x, g) BY <1>0, ChangedOne
<1>2. SetLine(e, l) = Editor(l, b, h, x, g) BY <1>0, ChangedOne
<1>3. SetDraft(e, d) = Editor(a, b, h, x, d) BY <1>0, ChangedOne
<1>4. SetCaret(SetLine(e, l), c) = Editor(l, c, h, x, g) BY <1>2, ChangedOne
<1>5. SetIndex(e, i) = Editor(a, b, h, i, g) BY <1>0, ChangedOne
<1>6. SetCaret(SetLine(SetIndex(e, i), l), c) = Editor(l, c, h, i, g) BY <1>5, ChangedOne
<1> QED BY <1>1, <1>2, <1>3, <1>4, <1>6 DEF a, b, h, x, g

\* A key that leaves the history alone is safe when the caret and the index are.
LEMMA SafeEditor ==
  ASSUME NEW e, Safe(e), NEW l \in Seq(Chars), NEW c \in Nat, c <= Len(l),
         NEW i \in Nat \cup {NoIndex}, i = NoIndex \/ i + 1 \in 1 .. Len(e.history),
         NEW d \in Seq(Chars)
  PROVE  Safe(Editor(l, c, e.history, i, d))
<1> DEFINE f == Editor(l, c, e.history, i, d)
<1>1. /\ f.line = l /\ f.caret = c /\ f.history = e.history /\ f.index = i BY DEF Editor
<1>2. f \in Editors BY DEF Editor, Editors, Safe
<1>3. /\ Len(e.history) <= MaxCmdHistory
      /\ \A j, k \in 1 .. Len(e.history) : e.history[j] = e.history[k] => j = k
    BY DEF Safe
<1> HIDE DEF f
<1>4. Safe(f) BY <1>1, <1>2, <1>3 DEF Safe
<1> QED BY <1>4 DEF f

\* What a safe editor is made of.
LEMMA Fields ==
  ASSUME NEW e, Safe(e)
  PROVE  /\ e \in Editors
         /\ e.line \in Seq(Chars) /\ Len(e.line) \in Nat
         /\ e.caret \in Nat /\ e.caret <= Len(e.line)
         /\ e.history \in Seq(Seq(Chars)) /\ Len(e.history) \in Nat
         /\ e.index \in Nat \cup {NoIndex}
         /\ e.index = NoIndex \/ e.index + 1 \in 1 .. Len(e.history)
         /\ e.draft \in Seq(Chars)
  BY DEF Safe, Editors

\* Backspace removes the character before the caret.
LEMMA BackIsSafe == ASSUME NEW e, Safe(e) PROVE Safe(Back(e))
<1>1. CASE e.caret > 0
  <2> DEFINE l == Erased(e.line, e.caret - 1)
  <2>1. e.caret - 1 + 1 \in 1 .. Len(e.line) BY <1>1, Fields
  <2>2. l \in Seq(Chars) /\ Len(l) = Len(e.line) - 1 BY <2>1, Removed, Fields DEF Erased
  <2>3. e.caret - 1 \in Nat /\ e.caret - 1 <= Len(e.line) - 1 BY <1>1, Fields
  <2>4. Back(e) = [e EXCEPT !.line = l, !.caret = e.caret - 1] BY <1>1, Fields DEF Back, Editors
  <2> HIDE DEF l
  <2>5. Back(e) = SetCaret(SetLine(e, l), e.caret - 1)
    <3>1. e \in Editors BY Fields
    <3> QED BY <2>4, <3>1 DEF SetLine, SetCaret, Editors
  <2>6. Back(e) = Editor(l, e.caret - 1, e.history, e.index, e.draft)
      BY <2>5, ChangedRecord, Fields
  <2> QED BY <2>2, <2>3, <2>6, SafeEditor, Fields
<1>2. CASE ~(e.caret > 0) BY <1>2 DEF Back
<1> QED BY <1>1, <1>2

\* Delete removes the one after it.
LEMMA DeleteIsSafe == ASSUME NEW e, Safe(e) PROVE Safe(Delete(e))
<1>1. CASE e.caret < Len(e.line)
  <2> DEFINE l == Erased(e.line, e.caret)
  <2>1. e.caret + 1 \in 1 .. Len(e.line) BY <1>1, Fields
  <2>2. l \in Seq(Chars) /\ Len(l) = Len(e.line) - 1 BY <2>1, Removed, Fields DEF Erased
  <2>3. e.caret <= Len(e.line) - 1 BY <1>1, Fields
  <2>4. Delete(e) = Editor(l, e.caret, e.history, e.index, e.draft)
      BY <1>1, ChangedRecord, Fields DEF Delete, SetLine
  <2> HIDE DEF l
  <2> QED BY <2>2, <2>3, <2>4, SafeEditor, Fields
<1>2. CASE ~(e.caret < Len(e.line)) BY <1>2 DEF Delete
<1> QED BY <1>1, <1>2

\* A caret anywhere in the line is safe.
LEMMA CaretMoves ==
  ASSUME NEW e, Safe(e), NEW c \in 0 .. Len(e.line)
  PROVE  Safe(SetCaret(e, c))
<1>1. SetCaret(e, c) = Editor(e.line, c, e.history, e.index, e.draft)
    BY ChangedRecord, Fields
<1>2. c \in Nat /\ c <= Len(e.line) BY Fields
<1> QED BY <1>1, <1>2, SafeEditor, Fields

\* The keys that move it keep it there.
LEMMA MovesAreSafe ==
  ASSUME NEW e, Safe(e)
  PROVE  Safe(Left(e)) /\ Safe(Right(e)) /\ Safe(Home(e)) /\ Safe(End(e))
<1>1. /\ (IF e.caret > 0 THEN e.caret - 1 ELSE e.caret) \in 0 .. Len(e.line)
      /\ (IF e.caret < Len(e.line) THEN e.caret + 1 ELSE e.caret) \in 0 .. Len(e.line)
      /\ 0 \in 0 .. Len(e.line) /\ Len(e.line) \in 0 .. Len(e.line)
    BY Fields
<1>2. Safe(Left(e)) BY <1>1, CaretMoves DEF Left, SetCaret
<1>3. Safe(Right(e)) BY <1>1, CaretMoves DEF Right, SetCaret
<1>4. Safe(Home(e)) BY <1>1, CaretMoves DEF Home, SetCaret
<1>5. Safe(End(e)) BY <1>1, CaretMoves DEF End, SetCaret
<1> QED BY <1>2, <1>3, <1>4, <1>5

\* A character typed puts the caret behind it.
LEMMA InsertIsSafe ==
  ASSUME NEW e, Safe(e), NEW char \in Chars
  PROVE  Safe(Insert(e, char))
<1> DEFINE l == InsertAt(e.line, e.caret + 1, char)
<1>1. e.caret + 1 \in 1 .. Len(e.line) + 1 BY Fields
<1>2. l \in Seq(Chars) /\ Len(l) = Len(e.line) + 1 BY <1>1, Inserted, Fields
<1>3. e.caret + 1 \in Nat /\ e.caret + 1 <= Len(e.line) + 1 BY Fields
<1>4. Insert(e, char) = [e EXCEPT !.line = l, !.caret = e.caret + 1]
    BY Fields DEF Insert, Editors
<1> HIDE DEF l
<1>5. Insert(e, char) = SetCaret(SetLine(e, l), e.caret + 1)
  <2>1. e \in Editors BY Fields
  <2> QED BY <1>4, <2>1 DEF SetLine, SetCaret, Editors
<1>6. Insert(e, char) = Editor(l, e.caret + 1, e.history, e.index, e.draft)
    BY <1>5, ChangedRecord, Fields
<1> QED BY <1>2, <1>3, <1>6, SafeEditor, Fields

\* Recalling a command puts the caret at its end.
LEMMA RecalledIsSafe ==
  ASSUME NEW e, Safe(e), NEW k \in Nat, k + 1 \in 1 .. Len(e.history)
  PROVE  Safe(Recalled(e, k))
<1> DEFINE l == e.history[k + 1]
<1>1. l \in Seq(Chars) /\ Len(l) \in Nat BY Fields
<1>2. Recalled(e, k) = [e EXCEPT !.index = k, !.line = l, !.caret = Len(l)] BY DEF Recalled
<1> HIDE DEF l
<1>3. Recalled(e, k) = SetCaret(SetLine(SetIndex(e, k), l), Len(l))
  <2>1. e \in Editors BY Fields
  <2> QED BY <1>2, <2>1 DEF SetLine, SetCaret, SetIndex, Editors
<1>4. Recalled(e, k) = Editor(l, Len(l), e.history, k, e.draft)
  BY <1>3, ChangedRecord, Fields, ZenonT(60)
<1> QED BY <1>1, <1>4, SafeEditor, Fields, SMTT(30)

\* Going back finds an older command, or the oldest again.
LEMMA UpIsSafe == ASSUME NEW e, Safe(e) PROVE Safe(Up(e))
<1>1. CASE e.history = <<>>
  <2>1. Up(e) = e BY <1>1 DEF Up
  <2> QED BY <2>1
<1>2. CASE e.history # <<>> /\ e.index = NoIndex
  <2> DEFINE d == SetDraft(e, e.line)
  <2>1. Safe(d) /\ d.history = e.history
    <3>1. d = Editor(e.line, e.caret, e.history, e.index, e.line) BY ChangedRecord, Fields
    <3>2. Safe(Editor(e.line, e.caret, e.history, e.index, e.line)) BY SafeEditor, Fields
    <3> HIDE DEF d
    <3>3. d.history = e.history BY <3>1 DEF Editor
    <3> QED BY <3>1, <3>2, <3>3
  <2>2. Len(e.history) - 1 \in Nat /\ Len(e.history) - 1 + 1 \in 1 .. Len(e.history)
      BY <1>2, Fields
  <2>3. Safe(Recalled(d, Len(e.history) - 1)) BY <2>1, <2>2, RecalledIsSafe
  <2> QED BY <1>2, <2>3 DEF Up, SetDraft
<1>3. CASE e.history # <<>> /\ e.index # NoIndex
  <2> DEFINE k == IF e.index > 0 THEN e.index - 1 ELSE 0
  <2>1. k \in Nat /\ k + 1 \in 1 .. Len(e.history) BY <1>3, NotAnIndex, Fields
  <2>2. Safe(Recalled(e, k)) BY <2>1, RecalledIsSafe
  <2> QED BY <1>3, <2>2 DEF Up
<1> QED BY <1>1, <1>2, <1>3

\* Going forward finds a newer one, or the draft.
LEMMA DownIsSafe == ASSUME NEW e, Safe(e) PROVE Safe(Down(e))
<1>1. CASE e.index = NoIndex
  <2>1. Down(e) = e BY <1>1 DEF Down
  <2> QED BY <2>1
<1>2. CASE e.index # NoIndex /\ e.index + 1 < Len(e.history)
  <2>1. e.index + 1 \in Nat /\ e.index + 1 + 1 \in 1 .. Len(e.history)
      BY <1>2, NotAnIndex, Fields
  <2>2. Safe(Recalled(e, e.index + 1)) BY <2>1, RecalledIsSafe
  <2> QED BY <1>2, <2>2 DEF Down
<1>3. CASE e.index # NoIndex /\ ~(e.index + 1 < Len(e.history))
  <2> DEFINE l == e.draft
  <2>1. Down(e) = [e EXCEPT !.index = NoIndex, !.line = l, !.caret = Len(l)] BY <1>3 DEF Down
  <2>2. Len(l) \in Nat /\ l \in Seq(Chars) BY Fields
  <2> HIDE DEF l
  <2>3. Down(e) = SetCaret(SetLine(SetIndex(e, NoIndex), l), Len(l))
    <3>1. e \in Editors BY Fields
    <3> QED BY <2>1, <3>1 DEF SetLine, SetCaret, SetIndex, Editors
  <2>4. Down(e) = Editor(l, Len(l), e.history, NoIndex, e.draft)
    BY <2>3, ChangedRecord, Fields, ZenonT(60)
  <2>5. e.draft \in Seq(Chars) /\ Len(l) <= Len(l) BY <2>2, Fields
  <2>6. Safe(Editor(l, Len(l), e.history, NoIndex, e.draft)) 
    <3>1. NoIndex \in Nat \cup {NoIndex} /\ (NoIndex = NoIndex \/ NoIndex + 1 \in 1 .. Len(e.history))
        OBVIOUS
    <3> QED BY <2>2, <2>5, <3>1, SafeEditor, Zenon
  <2> QED BY <2>4, <2>6
<1> QED BY <1>1, <1>2, <1>3

\* Enter cuts the history and puts the line at its end, where it is the only copy.
LEMMA ReturnIsSafe == ASSUME NEW e, Safe(e) PROVE Safe(Return(e))
<1> DEFINE h == e.history
           r == RemoveFirst(h, e.line)
           a == Append(r, e.line)
           n == Remembered(h, e.line)
<1>1. h \in Seq(Seq(Chars)) /\ e.line \in Seq(Chars) /\ Distinct(h) /\ Len(h) <= MaxCmdHistory
    BY DEF Safe, Editors, Distinct
<1>2. /\ r \in Seq(Seq(Chars)) /\ Len(r) <= Len(h) /\ Distinct(r)
      /\ \A k \in 1 .. Len(r) : r[k] # e.line
    BY <1>1, FirstRemoved
<1>3. n \in Seq(Seq(Chars)) /\ Len(n) <= MaxCmdHistory /\ Distinct(n)
  <2> HIDE DEF h, r
  <2>1. CASE e.line = <<>>
    <3>1. n = h BY <2>1 DEF Remembered
    <3> QED BY <1>1, <3>1
  <2>2. CASE e.line # <<>>
    <3>1. /\ a \in Seq(Seq(Chars)) /\ Len(a) = Len(r) + 1
          /\ \A k \in 1 .. Len(r) : a[k] = r[k]
          /\ a[Len(r) + 1] = e.line
        BY <1>1, <1>2
    <3>2. Distinct(a)
      <4> SUFFICES ASSUME NEW i \in 1 .. Len(a), NEW j \in 1 .. Len(a), a[i] = a[j] PROVE i = j
          BY DEF Distinct
      <4>1. /\ i \in 1 .. Len(r) \/ i = Len(r) + 1
            /\ j \in 1 .. Len(r) \/ j = Len(r) + 1
          BY <1>2, <3>1
      <4> HIDE DEF a
      <4> QED BY <1>2, <3>1, <4>1 DEF Distinct
    <3> HIDE DEF a
    <3>3. CASE Len(a) > MaxCmdHistory
      <4>1. n = Tail(a) BY <2>2, <3>3 DEF Remembered, Limited, a, r, h
      <4>2. /\ Tail(a) \in Seq(Seq(Chars)) /\ Len(Tail(a)) = Len(a) - 1
            /\ \A k \in 1 .. Len(a) - 1 : Tail(a)[k] = a[k + 1]
          BY <3>1, <1>2
      <4>3. Distinct(Tail(a))
        <5> SUFFICES ASSUME NEW i \in 1 .. Len(Tail(a)), NEW j \in 1 .. Len(Tail(a)),
                            Tail(a)[i] = Tail(a)[j]
                     PROVE  i = j
            BY DEF Distinct
        <5>1. i + 1 \in 1 .. Len(a) /\ j + 1 \in 1 .. Len(a) BY <3>1, <4>2
        <5>2. a[i + 1] = a[j + 1] BY <4>2
        <5> QED BY <3>2, <5>1, <5>2 DEF Distinct
      <4> QED BY <1>1, <1>2, <3>1, <4>1, <4>2, <4>3, InputAssumption
    <3>4. CASE ~(Len(a) > MaxCmdHistory)
      <4>1. n = a BY <2>2, <3>4 DEF Remembered, Limited, a, r, h
      <4> QED BY <3>1, <3>2, <3>4, <4>1, InputAssumption
    <3> QED BY <3>3, <3>4
  <2> QED BY <2>1, <2>2
<1> HIDE DEF n
<1>4. Return(e) = [line |-> <<>>, caret |-> 0, history |-> n, index |-> NoIndex, draft |-> <<>>]
    BY DEF Return, EmptyLine, n
<1>5. <<>> \in Seq(Chars) /\ Len(<<>>) = 0 OBVIOUS
<1> QED BY <1>3, <1>4, <1>5 DEF Safe, Editors, Distinct

-----------------------------------------------------------------------------
(* The theorem.                                                             *)

\* The record of the variable is safe exactly when the invariant holds.
LEMMA SafeIsInv == EditorInv <=> Safe(edit)
<1>1. EditorTypes <=> edit \in Editors BY DEF EditorTypes, Editors
<1>2. ASSUME edit \in Editors PROVE EditorIsSafe <=> Safe(edit)
  <2>1. /\ DOMAIN edit.history = 1 .. Len(edit.history)
        /\ edit.caret \in Nat /\ Len(edit.line) \in Nat
      BY <1>2 DEF Editors
  <2>2. edit.caret \in 0 .. Len(edit.line) <=> edit.caret <= Len(edit.line) BY <2>1
  <2> QED BY <1>2, <2>1, <2>2 DEF EditorIsSafe, Safe, IsInjective
<1> QED BY <1>1, <1>2 DEF EditorInv, Safe

\* From the empty line on, every key keeps the editor safe.
THEOREM EditorInvAlways == Spec => []EditorInv
<1>1. Init => EditorInv
  <2>1. Safe(EmptyLine)
    <3>1. <<>> \in Seq(Chars) /\ <<>> \in Seq(Seq(Chars)) /\ Len(<<>>) = 0 OBVIOUS
    <3> QED BY <3>1, InputAssumption DEF EmptyLine, Safe, Editors
  <2> QED BY <2>1, SafeIsInv DEF Init
<1>2. EditorInv /\ [Next]_vars => EditorInv'
  <2>0. EditorInv' <=> Safe(edit')
    <3>1. (EditorInv <=> Safe(edit))' BY SafeIsInv, PTL
    <3> QED BY <3>1 DEF Safe
  <2> SUFFICES ASSUME Safe(edit), [Next]_vars PROVE Safe(edit')
      BY <2>0, SafeIsInv
  <2>1. CASE Type BY <2>1, InsertIsSafe DEF Type, Edit
  <2>2. CASE Move BY <2>2, BackIsSafe, DeleteIsSafe, MovesAreSafe DEF Move, Edit
  <2>3. CASE Browse BY <2>3, UpIsSafe, DownIsSafe DEF Browse, Edit
  <2>4. CASE GoEnd BY <2>4, MovesAreSafe DEF GoEnd, Edit
  <2>5. CASE Enter BY <2>5, ReturnIsSafe DEF Enter
  <2>6. CASE UNCHANGED edit BY <2>6
  <2>7. Scroll \/ Resize \/ (\E chunks \in Queued : Drain(chunks)) \/ UNCHANGED vars
          => UNCHANGED edit
      BY DEF Scroll, Resize, Drain, vars
  <2> QED BY <2>1, <2>2, <2>3, <2>4, <2>5, <2>6, <2>7 DEF Next
<1> QED BY <1>1, <1>2, PTL DEF Spec

\* However keys are mixed, neither the caret nor the place in the command history
\* leaves its container, and no command is remembered twice (Console.cpp:297-398).
THEOREM EditorStaysSafe == Spec => []EditorIsSafe
<1>1. EditorInv => EditorIsSafe BY DEF EditorInv
<1> QED BY <1>1, EditorInvAlways, PTL

-----------------------------------------------------------------------------
(* The rows of all lines, one after the other.                              *)

\* u are the rows of the first so many lines of s.
IsFlattening(u, s, S) ==
  /\ u \in [0..Len(s) -> Seq(S)] /\ u[0] = <<>> /\ FlattenSeq(s) = u[Len(s)]
  /\ \A n \in 1..Len(s) : u[n] = u[n - 1] \o s[n]

\* The recursion of FlattenSeq, unfolded.
LEMMA FlattenSteps ==
  ASSUME NEW S, NEW s \in Seq(Seq(S))
  PROVE  \E u : IsFlattening(u, s, S)
<1> DEFINE N == Len(s)
<1>1. N \in Nat /\ DOMAIN s = 1..N /\ \A n \in 1..N : s[n] \in Seq(S)
    BY LenProperties, ElementOfSeq
<1>2. CASE N = 0
  <2> DEFINE u == [n \in 0..0 |-> <<>>]
  <2>1. s = <<>> /\ FlattenSeq(s) = <<>>
      BY <1>2, EmptySeq DEF FlattenSeq
  <2>2. IsFlattening(u, s, S)
      BY <1>2, <2>1 DEF IsFlattening
  <2> QED BY <2>2
<1>3. CASE N # 0
  <2> DEFINE Loop(f) == f = [i \in 1..N |-> IF i = 1 THEN s[i] ELSE f[i - 1] \o s[i]]
             flatten == CHOOSE f : Loop(f)
             step == [n \in 1..N |-> [t \in Seq(S) |-> t \o s[n]]]
  <2>1. step \in [1..N -> [Seq(S) -> Seq(S)]]
    <3>1. \A n \in 1..N : \A t \in Seq(S) : t \o s[n] \in Seq(S)
        BY <1>1, ConcatProperties
    <3> QED BY <3>1
  <2>2. PICK f \in [0..N -> Seq(S)] : IsRecursion(f, N, <<>>, step)
    <3> HIDE DEF step, N
    <3>1. <<>> \in Seq(S)
        OBVIOUS
    <3> QED BY <1>1, <2>1, <3>1, RecursionExists
  <2>3. f[0] = <<>> /\ \A n \in 1..N : f[n] = f[n - 1] \o s[n]
    <3>1. f[0] = <<>> /\ \A n \in 1..N : f[n] = step[n][f[n - 1]]
      <4> HIDE DEF step
      <4>1. 0 \in 0..N /\ \A n \in 1..N : n \in 0..N /\ n # 0
          BY <1>1
      <4> QED BY <2>2, <4>1 DEF IsRecursion
    <3>2. \A n \in 1..N : f[n - 1] \in Seq(S)
      <4>1. \A n \in 1..N : n - 1 \in 0..N
          BY <1>1
      <4> HIDE DEF N, step
      <4> QED BY <2>2, <4>1
    <3> QED BY <3>1, <3>2
  <2>12. ASSUME 1 \in 1..N
         PROVE  f[1] = s[1]
    <3>1. f[1] = f[1 - 1] \o s[1] /\ 1 - 1 = 0 /\ s[1] \in Seq(S)
        BY <1>1, <2>3, <2>12
    <3>2. f[1] = <<>> \o s[1]
        BY <2>3, <3>1
    <3> QED BY <3>1, <3>2, ConcatEmptySeq
  <2>4. Loop([n \in 1..N |-> f[n]])
    <3>1. \A n \in 1..N : n # 1 => n - 1 \in 1..N
        BY <1>1
    <3> HIDE DEF N, step
    <3> QED BY <2>3, <2>12, <3>1
  <2>5. Loop(flatten)
    <3> HIDE DEF Loop
    <3> QED BY <2>4
  <2>6. FlattenSeq(s) = flatten[N]
      BY <1>3 DEF FlattenSeq
  <2> HIDE DEF flatten, step
  <2> DEFINE P == {n \in 0..N : n = 0 \/ flatten[n] = f[n]}
  <2>7. 0 \in P
      BY <1>1
  <2>8. \A n \in 1..N : n - 1 \in P => n \in P
    <3> SUFFICES ASSUME NEW n \in 1..N, n - 1 \in P PROVE flatten[n] = f[n]
        BY <1>1
    <3>1. CASE n = 1
      <4>1. flatten[n] = s[1]
          BY <2>5, <3>1
      <4> QED BY <2>12, <3>1, <4>1
    <3>2. CASE n # 1
      <4>1. n - 1 # 0 /\ flatten[n - 1] = f[n - 1]
          BY <1>1, <3>2
      <4>2. flatten[n] = flatten[n - 1] \o s[n]
          BY <2>5, <3>2
      <4> QED BY <2>3, <4>1, <4>2
    <3> QED BY <3>1, <3>2
  <2>9. N \in P
    <3> HIDE DEF P, N
    <3>1. \A n \in 0..N : n \in P
        BY <1>1, <2>7, <2>8, IntervalInduction
    <3> QED BY <1>1, <3>1
  <2>10. FlattenSeq(s) = f[N]
      BY <1>3, <2>6, <2>9
  <2>11. IsFlattening(f, s, S)
      BY <2>2, <2>3, <2>10 DEF IsFlattening
  <2> QED BY <2>11
<1> QED BY <1>2, <1>3
\* Concatenation is associative.
Groups(S) == \A a, b, c \in Seq(S) : (a \o b) \o c = a \o (b \o c)

\* See Groups.
LEMMA Regrouped ==
  ASSUME NEW S
  PROVE  Groups(S)
  BY ConcatAssociative DEF Groups

\* The sequences joined have the elements of the sequences.
LEMMA FlattenType ==
  ASSUME NEW S, NEW s \in Seq(Seq(S))
  PROVE  FlattenSeq(s) \in Seq(S)
<1>1. PICK u : IsFlattening(u, s, S)
    BY FlattenSteps
<1>2. Len(s) \in 0..Len(s)
    BY LenProperties
<1> QED BY <1>1, <1>2 DEF IsFlattening

\* One line more adds its rows at the end.
LEMMA FlattenAppend ==
  ASSUME NEW S, NEW s \in Seq(Seq(S)), NEW t \in Seq(S)
  PROVE  FlattenSeq(Append(s, t)) = FlattenSeq(s) \o t
<1> DEFINE N == Len(s)  r == Append(s, t)
<1>1. /\ N \in Nat /\ r \in Seq(Seq(S)) /\ Len(r) = N + 1 /\ r[N + 1] = t
      /\ \A n \in 1..N : r[n] = s[n]
    BY LenProperties, AppendProperties
<1> HIDE DEF r
<1>2. PICK u : IsFlattening(u, s, S)
    BY FlattenSteps
<1>3. PICK w : IsFlattening(w, r, S)
    BY <1>1, FlattenSteps
<1> DEFINE P == {n \in 0..N : w[n] = u[n]}
<1>4. 0 \in P
    BY <1>1, <1>2, <1>3 DEF IsFlattening
<1>5. ASSUME NEW n \in 1..N, n - 1 \in P PROVE n \in P
  <2>1. n \in 1..N + 1 /\ n \in 0..N
      BY <1>1
  <2>2. w[n] = w[n - 1] \o r[n] /\ u[n] = u[n - 1] \o s[n]
      BY <1>1, <1>2, <1>3, <2>1 DEF IsFlattening
  <2> QED BY <1>1, <1>5, <2>1, <2>2
<1>6. N \in P
  <2> HIDE DEF P, N
  <2>1. \A n \in 0..N : n \in P
      BY <1>1, <1>4, <1>5, IntervalInduction
  <2> QED BY <1>1, <2>1
<1>7. FlattenSeq(r) = w[N + 1] /\ w[N + 1] = w[(N + 1) - 1] \o r[N + 1] /\ FlattenSeq(s) = u[N]
  <2>1. N + 1 \in 1..N + 1
      BY <1>1
  <2> QED BY <1>1, <1>2, <1>3, <2>1 DEF IsFlattening
<1>8. (N + 1) - 1 = N
    BY <1>1
<1> HIDE DEF N
<1>9. w[N] = u[N]
    BY <1>6 DEF P
<1>10. FlattenSeq(r) = FlattenSeq(s) \o t
    BY <1>1, <1>7, <1>8, <1>9
<1> QED BY <1>10 DEF r

\* The rows of the first line come first.
LEMMA FlattenFirst ==
  ASSUME NEW S, NEW s \in Seq(Seq(S)), s # <<>>
  PROVE  FlattenSeq(s) = s[1] \o FlattenSeq(Tail(s))
<1> DEFINE N == Len(s)  r == Tail(s)
<1>1. /\ N \in Nat /\ N >= 1 /\ r \in Seq(Seq(S)) /\ Len(r) = N - 1 /\ N - 1 \in Nat
      /\ \A n \in 1..N - 1 : r[n] = s[n + 1]
      /\ \A n \in 1..N : s[n] \in Seq(S)
    BY LenProperties, HeadTailProperties, ElementOfSeq, EmptySeq
<1> HIDE DEF r
<1>2. PICK u : IsFlattening(u, s, S)
    BY FlattenSteps
<1>3. PICK w : IsFlattening(w, r, S)
    BY <1>1, FlattenSteps
<1> HIDE DEF N
<1> DEFINE P == {n \in 0..N - 1 : u[n + 1] = s[1] \o w[n]}
<1>4. 0 \in P
  <2>1. 1 \in 1..N /\ 0 \in 0..N - 1 /\ 1 - 1 = 0 /\ 0 + 1 = 1
      BY <1>1
  <2>2. u[1] = u[1 - 1] \o s[1] /\ u[0] = <<>> /\ w[0] = <<>>
      BY <1>2, <1>3, <2>1 DEF IsFlattening, N
  <2>3. <<>> \o s[1] = s[1] /\ s[1] \o <<>> = s[1]
      BY <1>1, <2>1, ConcatEmptySeq
  <2> QED BY <2>1, <2>2, <2>3
<1>5. ASSUME NEW n \in 1..N - 1, n - 1 \in P PROVE n \in P
  <2>1. /\ n \in 0..N - 1 /\ n + 1 \in 1..N /\ 1 \in 1..N /\ n - 1 \in 0..N - 1
        /\ (n + 1) - 1 = n /\ (n - 1) + 1 = n
      BY <1>1
  <2>2. u[n + 1] = u[n] \o s[n + 1] /\ w[n] = w[n - 1] \o r[n]
      BY <1>1, <1>2, <1>3, <2>1 DEF IsFlattening, N
  <2>3. u[n] = s[1] \o w[n - 1] /\ r[n] = s[n + 1]
      BY <1>1, <1>5, <2>1
  <2>4. s[1] \in Seq(S) /\ s[n + 1] \in Seq(S) /\ w[n - 1] \in Seq(S)
      BY <1>1, <1>3, <2>1 DEF IsFlattening
  <2>5. (s[1] \o w[n - 1]) \o s[n + 1] = s[1] \o (w[n - 1] \o s[n + 1])
    <3>1. Groups(S)
        BY Regrouped
    <3> QED BY <2>4, <3>1, Zenon DEF Groups
  <2> QED BY <2>1, <2>2, <2>3, <2>5
<1>6. N - 1 \in P
  <2> HIDE DEF P
  <2>1. \A n \in 0..N - 1 : n \in P
    <3> DEFINE M == N - 1
    <3> HIDE DEF M
    <3>1. M \in Nat /\ 0 \in P /\ \A n \in 1..M : n - 1 \in P => n \in P
        BY <1>1, <1>4, <1>5 DEF M
    <3>2. \A n \in 0..M : n \in P
        BY <3>1, IntervalInduction
    <3> QED BY <3>2 DEF M
  <2> QED BY <1>1, <2>1
<1>7. FlattenSeq(s) = u[N] /\ FlattenSeq(r) = w[N - 1] /\ (N - 1) + 1 = N
    BY <1>1, <1>2, <1>3 DEF IsFlattening, N
<1> QED BY <1>6, <1>7 DEF r

\* What is left of a concatenation without its first part.
LEMMA SecondPart ==
  ASSUME NEW S, NEW s \in Seq(S), NEW t \in Seq(S)
  PROVE  SubSeq(s \o t, Len(s) + 1, Len(s \o t)) = t
<1> DEFINE c == s \o t  r == SubSeq(c, Len(s) + 1, Len(c))
<1>1. /\ Len(s) \in Nat /\ Len(t) \in Nat /\ c \in Seq(S) /\ Len(c) = Len(s) + Len(t)
      /\ \A i \in 1 .. Len(s) + Len(t) : c[i] = IF i <= Len(s) THEN s[i] ELSE t[i - Len(s)]
    BY LenProperties, ConcatProperties
<1> HIDE DEF c
<1>2. \A i \in Len(s) + 1 .. Len(c) : i \in 1..Len(c) /\ c[i] = t[i - Len(s)]
    BY <1>1
<1>3. \A i \in Len(s) + 1 .. Len(c) : c[i] \in S
    BY <1>1, <1>2, ElementOfSeq
<1>4. /\ r \in Seq(S)
      /\ Len(r) = IF Len(s) + 1 <= Len(c) THEN Len(c) - (Len(s) + 1) + 1 ELSE 0
      /\ \A i \in 1 .. Len(c) - (Len(s) + 1) + 1 : r[i] = c[Len(s) + 1 + i - 1]
  <2>1. Len(s) + 1 \in Int /\ Len(c) \in Int
      BY <1>1
  <2> QED BY <1>3, <2>1, SubSeqProperties
<1> HIDE DEF r
<1>5. Len(r) = Len(t)
    BY <1>1, <1>4
<1>6. \A i \in 1..Len(r) : r[i] = t[i]
  <2> SUFFICES ASSUME NEW i \in 1..Len(r) PROVE r[i] = t[i]
      OBVIOUS
  <2>1. Len(s) + i \in Len(s) + 1 .. Len(c) /\ Len(s) + i - Len(s) = i
        /\ Len(s) + 1 + i - 1 = Len(s) + i /\ i \in 1 .. Len(c) - (Len(s) + 1) + 1
      BY <1>1, <1>5
  <2>2. r[i] = c[Len(s) + i]
      BY <1>4, <2>1
  <2> QED BY <1>2, <2>1, <2>2
<1>7. r = t
    BY <1>4, <1>5, <1>6, SeqEqual
<1> QED BY <1>7 DEF r, c
-----------------------------------------------------------------------------
(* The text above the line, as a record.                                    *)

Letters == Chars \cup {Newline, ">", " "} \cup UNION {Range(chunk) : chunk \in Chunks}

Views ==
  [raw: Seq(Seq(Letters)), counts: Seq(Nat), wrapped: Seq(Seq(Letters)),
   offset: Nat, follow: BOOLEAN, cols: Nat \ {0}, rows: Nat \ {0}]

\* The rows of each line, cut at the present width.
Cut(v) == [k \in DOMAIN v.raw |-> Wrap(v.raw[k], v.cols)]

\* The rows are those of the lines, and as many as counted.
Matching(v) ==
  /\ v \in Views
  /\ v.wrapped = FlattenSeq(Cut(v))
  /\ v.counts = [k \in DOMAIN v.raw |-> Len(Wrap(v.raw[k], v.cols))]

Current(v) == Matching(v) /\ Len(v.raw) <= MaxHistoryLines

\* The first row drawn lies in the history.
Within(v) ==
  v.rows > 1 => /\ v.offset <= MaxOffset(v)
                /\ v.follow => v.offset = 0

\* Only text was added: the size of the window and the reader's place are as they were.
SamePlace(w, v) == w.cols = v.cols /\ w.rows = v.rows /\ w.offset = v.offset /\ w.follow = v.follow

\* A line is cut into rows, one at least.
LEMMA WrapType ==
  ASSUME NEW S, NEW line \in Seq(S), NEW width \in Nat \ {0}
  PROVE  Wrap(line, width) \in Seq(Seq(S)) /\ Len(Wrap(line, width)) \in Nat \ {0}
<1> DEFINE count == IF line = <<>> THEN 1 ELSE (Len(line) + width - 1) \div width
           row(k) == SubSeq(line, (k - 1) * width + 1, Min({k * width, Len(line)}))
<1>1. Len(line) \in Nat /\ (line # <<>> => Len(line) >= 1)
    BY LenProperties, EmptySeq
<1>2. count \in Nat /\ count >= 1
  <2>1. CASE line = <<>>
      BY <2>1
  <2>2. CASE line # <<>>
    <3>1. Len(line) + width - 1 \in Nat /\ Len(line) + width - 1 >= width
        BY <1>1, <2>2
    <3> DEFINE n == Len(line) + width - 1
    <3> HIDE DEF n
    <3>2. n \div width \in Nat /\ n \div width >= 1
        BY <3>1 DEF n
    <3> QED BY <2>2, <3>2 DEF n
  <2> QED BY <2>1, <2>2
<1>3. ASSUME NEW k \in 1..count PROVE row(k) \in Seq(S)
  <2> DEFINE from == (k - 1) * width + 1  to == Min({k * width, Len(line)})
  <2>1. k * width \in Nat /\ (k - 1) * width \in Nat
    <3>1. k \in Nat /\ k - 1 \in Nat /\ width \in Nat
        BY <1>2
    <3> QED BY <3>1
  <2>2. from \in Nat /\ from >= 1
      BY <2>1
  <2>3. to \in Nat /\ to <= Len(line)
    <3>1. to = IF k * width <= Len(line) THEN k * width ELSE Len(line)
      <4> DEFINE a == k * width  b == Len(line)
      <4>1. a \in Int /\ b \in Int
          BY <1>1, <2>1
      <4> HIDE DEF a, b
      <4>2. Min({a, b}) = IF a <= b THEN a ELSE b
          BY <4>1, MinOfTwo
      <4> QED BY <4>2 DEF a, b
    <3> HIDE DEF to
    <3> QED BY <1>1, <2>1, <3>1
  <2> HIDE DEF from, to
  <2>4. \A i \in from..to : line[i] \in S
    <3>1. \A i \in from..to : i \in 1..Len(line)
        BY <1>1, <2>2, <2>3
    <3> QED BY <3>1, ElementOfSeq
  <2>5. from \in Int /\ to \in Int
      BY <2>2, <2>3
  <2>6. SubSeq(line, from, to) \in Seq(S)
      BY <2>4, <2>5, SubSeqProperties
  <2> QED BY <2>6 DEF from, to
<1>4. Wrap(line, width) = [k \in 1..count |-> row(k)]
    BY DEF Wrap
<1> HIDE DEF count, row
<1>5. Wrap(line, width) \in [1..count -> Seq(S)]
    BY <1>3, <1>4
<1> QED BY <1>2, <1>5, SeqIntro

\* What such a view is made of.
LEMMA MatchingFacts ==
  ASSUME NEW v, Matching(v)
  PROVE  /\ v.raw \in Seq(Seq(Letters)) /\ Len(v.raw) \in Nat /\ DOMAIN v.raw = 1..Len(v.raw)
         /\ v.cols \in Nat \ {0} /\ v.rows \in Nat \ {0}
         /\ v.offset \in Nat /\ v.follow \in BOOLEAN
         /\ v.wrapped \in Seq(Seq(Letters)) /\ Len(v.wrapped) \in Nat
         /\ v.counts \in Seq(Nat) /\ Len(v.counts) = Len(v.raw)
         /\ Cut(v) \in Seq(Seq(Seq(Letters))) /\ Len(Cut(v)) = Len(v.raw)
         /\ \A k \in 1..Len(v.raw) : /\ v.raw[k] \in Seq(Letters)
                                     /\ Cut(v)[k] = Wrap(v.raw[k], v.cols)
                                     /\ v.counts[k] = Len(Wrap(v.raw[k], v.cols))
<1>1. /\ v.raw \in Seq(Seq(Letters)) /\ v.cols \in Nat \ {0} /\ v.rows \in Nat \ {0}
      /\ v.offset \in Nat /\ v.follow \in BOOLEAN
      /\ v.wrapped \in Seq(Seq(Letters)) /\ v.counts \in Seq(Nat)
    BY DEF Matching, Views
<1>2. /\ Len(v.raw) \in Nat /\ DOMAIN v.raw = 1..Len(v.raw) /\ Len(v.wrapped) \in Nat
      /\ Len(v.counts) \in Nat /\ DOMAIN v.counts = 1..Len(v.counts)
      /\ \A k \in 1..Len(v.raw) : v.raw[k] \in Seq(Letters)
    BY <1>1, LenProperties, ElementOfSeq
<1>3. \A k \in 1..Len(v.raw) : Wrap(v.raw[k], v.cols) \in Seq(Seq(Letters))
    BY <1>1, <1>2, WrapType
<1>4. Cut(v) \in [1..Len(v.raw) -> Seq(Seq(Letters))]
    BY <1>2, <1>3 DEF Cut
<1>5. Cut(v) \in Seq(Seq(Seq(Letters))) /\ Len(Cut(v)) = Len(v.raw)
    BY <1>2, <1>4, SeqIntro
<1>6. \A k \in 1..Len(v.raw) : Cut(v)[k] = Wrap(v.raw[k], v.cols)
    BY <1>2 DEF Cut
<1>7. DOMAIN v.counts = 1..Len(v.raw)
      /\ \A k \in 1..Len(v.raw) : v.counts[k] = Len(Wrap(v.raw[k], v.cols))
    BY <1>2 DEF Matching
<1>8. Len(v.counts) = Len(v.raw)
    BY <1>2, <1>7
<1> QED BY <1>1, <1>2, <1>5, <1>6, <1>7, <1>8
\* Other text at the same place.
WithText(v, raw, counts, wrapped) ==
  [v EXCEPT !.raw = raw, !.counts = counts, !.wrapped = wrapped]

\* See WithText.
LEMMA WithTextFacts ==
  ASSUME NEW v \in Views, NEW raw \in Seq(Seq(Letters)), NEW counts \in Seq(Nat),
         NEW wrapped \in Seq(Seq(Letters)), NEW w, w = WithText(v, raw, counts, wrapped)
  PROVE  /\ w \in Views
         /\ w.raw = raw /\ w.counts = counts /\ w.wrapped = wrapped
         /\ w.offset = v.offset /\ w.follow = v.follow /\ w.cols = v.cols /\ w.rows = v.rows
  BY DEF WithText, Views

\* A record of these parts matches.
LEMMA MatchingIntro ==
  ASSUME NEW w \in Views, NEW rows \in Seq(Seq(Seq(Letters))),
         Len(rows) = Len(w.raw), Len(w.counts) = Len(w.raw),
         \A k \in 1..Len(w.raw) : /\ rows[k] = Wrap(w.raw[k], w.cols)
                                  /\ w.counts[k] = Len(rows[k]),
         w.wrapped = FlattenSeq(rows)
  PROVE  Matching(w)
<1>1. w.raw \in Seq(Seq(Letters)) /\ w.counts \in Seq(Nat)
    BY DEF Views
<1>2. DOMAIN w.raw = 1..Len(w.raw) /\ DOMAIN w.counts = 1..Len(w.raw) /\ DOMAIN rows = 1..Len(w.raw)
    BY <1>1, LenProperties
<1>3. rows = [k \in 1..Len(w.raw) |-> rows[k]] /\ w.counts = [k \in 1..Len(w.raw) |-> w.counts[k]]
  <2>1. rows \in [1..Len(w.raw) -> Seq(Seq(Letters))] /\ w.counts \in [1..Len(w.raw) -> Nat]
      BY <1>1, LenProperties
  <2> QED BY <2>1
<1>4. rows = Cut(w)
    BY <1>2, <1>3 DEF Cut
<1>5. w.counts = [k \in DOMAIN w.raw |-> Len(Wrap(w.raw[k], w.cols))]
    BY <1>2, <1>3
<1> QED BY <1>4, <1>5 DEF Matching

\* A line more, without the trimming.
Longer(v, line) ==
  [v EXCEPT !.raw = Append(@, line), !.counts = Append(@, Len(Wrap(line, v.cols))),
            !.wrapped = @ \o Wrap(line, v.cols)]

\* The rows and the count of the new line match as those of the others did.
LEMMA LongerMatches ==
  ASSUME NEW v, Matching(v), NEW line \in Seq(Letters)
  PROVE  /\ Matching(Longer(v, line)) /\ SamePlace(Longer(v, line), v)
         /\ Len(Longer(v, line).raw) = Len(v.raw) + 1
<1> DEFINE rows == Wrap(line, v.cols)  a == Longer(v, line)  N == Len(v.raw)
           cut == Append(Cut(v), rows)
<1>0. v \in Views
    BY DEF Matching
<1>1. /\ a.raw = Append(v.raw, line) /\ a.counts = Append(v.counts, Len(rows))
      /\ a.wrapped = v.wrapped \o rows /\ a.cols = v.cols /\ a.rows = v.rows
      /\ a.offset = v.offset /\ a.follow = v.follow
    BY <1>0 DEF Longer, Views
<1>11. a = WithText(v, a.raw, a.counts, a.wrapped)
    BY <1>1 DEF WithText, Longer
<1>2. rows \in Seq(Seq(Letters)) /\ Len(rows) \in Nat /\ v.cols \in Nat \ {0}
    BY MatchingFacts, WrapType
<1>3. /\ a.raw \in Seq(Seq(Letters)) /\ Len(a.raw) = N + 1 /\ N \in Nat
      /\ a.raw[N + 1] = line /\ \A k \in 1..N : a.raw[k] = v.raw[k]
  <2>1. v.raw \in Seq(Seq(Letters)) /\ N \in Nat
      BY MatchingFacts
  <2> QED BY <1>1, <2>1, AppendProperties
<1>4. /\ a.counts \in Seq(Nat) /\ Len(a.counts) = N + 1
      /\ a.counts[N + 1] = Len(rows) /\ \A k \in 1..N : a.counts[k] = v.counts[k]
  <2>1. v.counts \in Seq(Nat) /\ Len(v.counts) = N
      BY MatchingFacts
  <2> QED BY <1>1, <1>2, <2>1, AppendProperties
<1>5. a.wrapped \in Seq(Seq(Letters))
  <2>1. v.wrapped \in Seq(Seq(Letters))
      BY MatchingFacts
  <2> QED BY <1>1, <1>2, <2>1, ConcatProperties
<1>6. a \in Views
  <2> HIDE DEF a
  <2> QED BY <1>0, <1>3, <1>4, <1>5, <1>11, WithTextFacts
<1>7. /\ cut \in Seq(Seq(Seq(Letters))) /\ Len(cut) = N + 1
      /\ cut[N + 1] = rows /\ \A k \in 1..N : cut[k] = Cut(v)[k]
  <2>1. Cut(v) \in Seq(Seq(Seq(Letters))) /\ Len(Cut(v)) = N
      BY MatchingFacts
  <2> QED BY <1>2, <2>1, AppendProperties
<1>8. a.wrapped = FlattenSeq(cut)
  <2>1. Cut(v) \in Seq(Seq(Seq(Letters))) /\ v.wrapped = FlattenSeq(Cut(v))
      BY MatchingFacts DEF Matching
  <2>2. FlattenSeq(Append(Cut(v), rows)) = FlattenSeq(Cut(v)) \o rows
      BY <1>2, <2>1, FlattenAppend
  <2> QED BY <1>1, <2>1, <2>2
<1>9. ASSUME NEW k \in 1..N + 1
      PROVE  cut[k] = Wrap(a.raw[k], a.cols) /\ a.counts[k] = Len(cut[k])
  <2>1. CASE k = N + 1
      BY <1>1, <1>3, <1>4, <1>7, <2>1
  <2>2. CASE k \in 1..N
    <3>1. /\ Cut(v)[k] = Wrap(v.raw[k], v.cols)
          /\ v.counts[k] = Len(Wrap(v.raw[k], v.cols))
        BY <2>2, MatchingFacts
    <3>2. a.raw[k] = v.raw[k] /\ a.counts[k] = v.counts[k] /\ cut[k] = Cut(v)[k]
      <4> HIDE DEF a, cut, rows, N
      <4> QED BY <1>3, <1>4, <1>7, <2>2
    <3>3. a.cols = v.cols
        BY <1>1
    <3> HIDE DEF a, cut, rows, N
    <3> QED BY <3>1, <3>2, <3>3, Zenon
  <2>3. k = N + 1 \/ k \in 1..N
    <3> HIDE DEF a, cut, rows, N
    <3> QED BY <1>3
  <2> QED BY <2>1, <2>2, <2>3
<1> HIDE DEF a, cut, rows
<1>10. Matching(a)
    BY <1>3, <1>4, <1>6, <1>7, <1>8, <1>9, MatchingIntro
<1> QED BY <1>1, <1>3, <1>10 DEF SamePlace, a

\* The oldest line goes with all of its rows and no others.
LEMMA TrimmedMatches ==
  ASSUME NEW v, Matching(v), Len(v.raw) <= MaxHistoryLines + 1
  PROVE  Current(Trimmed(v)) /\ SamePlace(Trimmed(v), v)
<1> DEFINE N == Len(v.raw)
           t == [v EXCEPT !.raw = Tail(@), !.counts = Tail(@),
                          !.wrapped = SubSeq(@, Head(v.counts) + 1, Len(@))]
<1>0. v \in Views /\ N \in Nat
    BY MatchingFacts DEF Matching
<1>1. CASE N <= MaxHistoryLines
  <2>1. Trimmed(v) = v
      BY <1>1 DEF Trimmed
  <2> QED BY <1>1, <2>1 DEF Current, SamePlace
<1>2. CASE ~(N <= MaxHistoryLines)
  <2>1. Trimmed(v) = t /\ N = MaxHistoryLines + 1 /\ N >= 1
      BY <1>0, <1>2, ViewAssumption DEF Trimmed
  <2>2. /\ t.raw = Tail(v.raw) /\ t.counts = Tail(v.counts)
        /\ t.wrapped = SubSeq(v.wrapped, Head(v.counts) + 1, Len(v.wrapped))
        /\ t.cols = v.cols /\ t.rows = v.rows /\ t.offset = v.offset /\ t.follow = v.follow
      BY <1>0 DEF Views
  <2>3. /\ v.raw \in Seq(Seq(Letters)) /\ v.raw # <<>>
        /\ v.counts \in Seq(Nat) /\ v.counts # <<>> /\ Len(v.counts) = N
        /\ Cut(v) \in Seq(Seq(Seq(Letters))) /\ Cut(v) # <<>> /\ Len(Cut(v)) = N
        /\ v.wrapped \in Seq(Seq(Letters)) /\ Len(v.wrapped) \in Nat
    <3>1. /\ v.raw \in Seq(Seq(Letters)) /\ v.counts \in Seq(Nat) /\ Len(v.counts) = N
          /\ Cut(v) \in Seq(Seq(Seq(Letters))) /\ Len(Cut(v)) = N
          /\ v.wrapped \in Seq(Seq(Letters)) /\ Len(v.wrapped) \in Nat
        BY MatchingFacts
    <3>2. Len(<<>>) = 0
        OBVIOUS
    <3> QED BY <2>1, <3>1, <3>2
  <2> DEFINE cut == Tail(Cut(v))
  <2>4. /\ t.raw \in Seq(Seq(Letters)) /\ Len(t.raw) = N - 1
        /\ \A k \in 1..N - 1 : t.raw[k] = v.raw[k + 1]
      BY <2>2, <2>3, HeadTailProperties, SMTT(30)
  <2>5. /\ t.counts \in Seq(Nat) /\ Len(t.counts) = N - 1
        /\ \A k \in 1..N - 1 : t.counts[k] = v.counts[k + 1]
    <3> DEFINE c == v.counts
    <3> HIDE DEF t, c
    <3>1. /\ Tail(c) \in Seq(Nat) /\ Len(Tail(c)) = Len(c) - 1
          /\ \A k \in 1..Len(Tail(c)) : Tail(c)[k] = c[k + 1]
      <4>1. c \in Seq(Nat) /\ c # <<>>
          BY <2>3 DEF c
      <4> QED BY <4>1, HeadTailProperties
    <3> QED BY <2>2, <2>3, <3>1 DEF c
  <2>6. /\ cut \in Seq(Seq(Seq(Letters))) /\ Len(cut) = N - 1
        /\ \A k \in 1..N - 1 : cut[k] = Cut(v)[k + 1]
      BY <2>3, HeadTailProperties
  <2>7. t.wrapped = FlattenSeq(cut)
    <3>1. v.wrapped = Cut(v)[1] \o FlattenSeq(cut)
      <4>1. v.wrapped = FlattenSeq(Cut(v))
          BY DEF Matching
      <4> QED BY <2>3, <4>1, FlattenFirst
    <3>2. Head(v.counts) = Len(Cut(v)[1]) /\ Cut(v)[1] \in Seq(Seq(Letters))
      <4>1. 1 \in 1..N /\ Head(v.counts) = v.counts[1]
          BY <1>0, <2>1, <2>3
      <4>2. v.counts[1] = Len(Wrap(v.raw[1], v.cols)) /\ Cut(v)[1] = Wrap(v.raw[1], v.cols)
          BY <4>1, MatchingFacts
      <4>3. Cut(v)[1] \in Seq(Seq(Letters))
          BY <2>3, <4>1, ElementOfSeq
      <4> QED BY <4>1, <4>2, <4>3
    <3>3. FlattenSeq(cut) \in Seq(Seq(Letters))
        BY <2>6, FlattenType
    <3> DEFINE f == FlattenSeq(cut)  c == Cut(v)[1]
    <3>4. v.wrapped = c \o f /\ Head(v.counts) = Len(c) /\ c \in Seq(Seq(Letters)) /\ f \in Seq(Seq(Letters))
        BY <3>1, <3>2, <3>3
    <3> HIDE DEF f, c
    <3>5. SubSeq(c \o f, Len(c) + 1, Len(c \o f)) = f
        BY <3>4, SecondPart
    <3> QED BY <2>2, <3>4, <3>5 DEF f
  <2>8. t \in Views
    <3>1. t = WithText(v, t.raw, t.counts, t.wrapped)
        BY <2>2 DEF WithText
    <3>2. t.wrapped \in Seq(Seq(Letters))
        BY <2>6, <2>7, FlattenType
    <3> HIDE DEF t
    <3> QED BY <1>0, <2>4, <2>5, <3>1, <3>2, WithTextFacts
  <2>9. ASSUME NEW k \in 1..N - 1
        PROVE  cut[k] = Wrap(t.raw[k], t.cols) /\ t.counts[k] = Len(cut[k])
    <3>1. k + 1 \in 1..N
        BY <1>0
    <3>2. /\ Cut(v)[k + 1] = Wrap(v.raw[k + 1], v.cols)
          /\ v.counts[k + 1] = Len(Wrap(v.raw[k + 1], v.cols))
        BY <3>1, MatchingFacts
    <3> HIDE DEF t, cut, N
    <3> QED BY <2>2, <2>4, <2>5, <2>6, <3>2
  <2> HIDE DEF t, cut
  <2>10. Matching(t)
      BY <2>4, <2>5, <2>6, <2>7, <2>8, <2>9, MatchingIntro
  <2>11. N - 1 <= MaxHistoryLines
      BY <1>0, <2>1, ViewAssumption
  <2> QED BY <2>1, <2>2, <2>4, <2>10, <2>11 DEF Current, SamePlace
<1> QED BY <1>1, <1>2

\* Trimming adds no row.
LEMMA TrimmedIsShorter ==
  ASSUME NEW v, Matching(v)
  PROVE  Len(Trimmed(v).wrapped) <= Len(v.wrapped)
<1> DEFINE w == v.wrapped  c == Head(v.counts) + 1  n == Len(w)
<1>1. w \in Seq(Seq(Letters)) /\ n \in Nat /\ v \in Views
    BY MatchingFacts DEF Matching
<1>2. CASE Len(v.raw) <= MaxHistoryLines
    BY <1>1, <1>2 DEF Trimmed
<1>3. CASE ~(Len(v.raw) <= MaxHistoryLines)
  <2>1. Trimmed(v).wrapped = SubSeq(w, c, n)
      BY <1>1, <1>3 DEF Trimmed, Views
  <2>2. c \in Nat /\ c >= 1
    <3>1. Len(v.raw) \in Nat /\ v.counts \in Seq(Nat) /\ Len(v.counts) = Len(v.raw)
        BY MatchingFacts
    <3>2. v.counts # <<>>
      <4>1. Len(v.counts) # 0
          BY <1>3, <3>1, ViewAssumption
      <4>2. Len(<<>>) = 0
          OBVIOUS
      <4> QED BY <4>1, <4>2
    <3> DEFINE h == Head(v.counts)
    <3>3. h \in Nat
        BY <3>1, <3>2, HeadTailProperties
    <3> HIDE DEF h
    <3>4. h + 1 \in Nat /\ h + 1 >= 1
        BY <3>3
    <3> QED BY <3>4 DEF h
  <2>3. \A i \in c .. n : w[i] \in Seq(Letters)
    <3> HIDE DEF c
    <3>1. \A i \in c .. n : i \in 1 .. n
        BY <1>1, <2>2
    <3> QED BY <1>1, <3>1, ElementOfSeq
  <2> HIDE DEF w, c, n
  <2>4. Len(SubSeq(w, c, n)) = IF c <= n THEN n - c + 1 ELSE 0
      BY <1>1, <2>2, <2>3, SubSeqProperties
  <2>5. (IF c <= n THEN n - c + 1 ELSE 0) <= n
      BY <1>1, <2>2
  <2> QED BY <2>1, <2>4, <2>5 DEF n, w
<1> QED BY <1>2, <1>3

\* A line is added.
LEMMA AppendLineKeeps ==
  ASSUME NEW v, Current(v), NEW line \in Seq(Letters)
  PROVE  /\ Current(AppendHistoryLine(v, line)) /\ SamePlace(AppendHistoryLine(v, line), v)
         /\ Len(AppendHistoryLine(v, line).wrapped) <= Len(v.wrapped) + Len(Wrap(line, v.cols))
<1> DEFINE a == Longer(v, line)
<1>1. Matching(a) /\ SamePlace(a, v) /\ Len(a.raw) = Len(v.raw) + 1
    BY LongerMatches DEF Current
<1>2. Len(v.raw) \in Nat /\ Len(v.raw) <= MaxHistoryLines
    BY MatchingFacts DEF Current
<1>3. AppendHistoryLine(v, line) = Trimmed(a)
    BY DEF AppendHistoryLine, Longer
<1> DEFINE rows == Wrap(line, v.cols)
<1>5. Len(a.wrapped) = Len(v.wrapped) + Len(rows)
  <2>1. a.wrapped = v.wrapped \o rows
      BY DEF Current, Matching, Longer, Views
  <2>2. v.wrapped \in Seq(Seq(Letters)) /\ rows \in Seq(Seq(Letters))
    <3>1. v.wrapped \in Seq(Seq(Letters)) /\ v.cols \in Nat \ {0}
        BY MatchingFacts DEF Current
    <3> QED BY <3>1, WrapType
  <2> HIDE DEF a, rows
  <2> QED BY <2>1, <2>2, ConcatProperties
<1> HIDE DEF a, rows
<1>6. Len(Trimmed(a).wrapped) <= Len(a.wrapped)
    BY <1>1, TrimmedIsShorter
<1>4. Current(Trimmed(a)) /\ SamePlace(Trimmed(a), a)
    BY <1>1, <1>2, ViewAssumption, TrimmedMatches
<1> QED BY <1>1, <1>3, <1>4, <1>5, <1>6 DEF SamePlace, rows
-----------------------------------------------------------------------------
(* New text.                                                                *)

\* One character of a piece of text: it goes to the last line, or starts a new one.
Reads(t, char) ==
  IF char = Newline THEN Append(t, <<>>) ELSE [t EXCEPT ![Len(t)] = Append(@, char)]

\* At every character there is a last line to put it in.
LEMMA ReadsType ==
  ASSUME NEW S, NEW t \in Seq(Seq(S)), t # <<>>, NEW char \in S
  PROVE  Reads(t, char) \in Seq(Seq(S)) /\ Reads(t, char) # <<>>
<1>1. Len(t) \in Nat /\ Len(t) >= 1 /\ <<>> \in Seq(S)
    BY LenProperties, EmptySeq
<1>2. CASE char = Newline
  <2>1. Append(t, <<>>) \in Seq(Seq(S)) /\ Append(t, <<>>) # <<>>
      BY <1>1, AppendProperties
  <2> QED BY <1>2, <2>1 DEF Reads
<1>3. CASE char # Newline
  <2> DEFINE i == Len(t)  e == Append(t[i], char)  r == [t EXCEPT ![i] = e]
  <2>1. i \in 1..Len(t) /\ t[i] \in Seq(S)
      BY <1>1, ElementOfSeq
  <2>2. e \in Seq(S)
      BY <2>1, AppendProperties
  <2> HIDE DEF e, i
  <2>3. r \in Seq(Seq(S)) /\ Len(r) = Len(t)
      BY <2>1, <2>2, ExceptSeq
  <2>4. Len(<<>>) = 0
      OBVIOUS
  <2>5. Reads(t, char) = r
      BY <1>3 DEF Reads, e, i
  <2> QED BY <1>1, <2>3, <2>4, <2>5
<1> QED BY <1>2, <1>3

\* A piece of text is made of lines of its characters.
LEMMA LinesType ==
  ASSUME NEW S, NEW chunk \in Seq(S)
  PROVE  Lines(chunk) \in Seq(Seq(S))
<1> DEFINE N == Len(chunk)
           T == {t \in Seq(Seq(S)) : t # <<>>}
           Loop(f) == f = [n \in 0..N |->
                             IF n = 0 THEN <<<<>>>>
                             ELSE IF chunk[n] = Newline THEN Append(f[n - 1], <<>>)
                             ELSE [f[n - 1] EXCEPT ![Len(f[n - 1])] = Append(@, chunk[n])]]
           upTo == CHOOSE f : Loop(f)
           step == [n \in 1..N |-> [t \in T |-> Reads(t, chunk[n])]]
<1>1. N \in Nat /\ \A n \in 1..N : chunk[n] \in S
    BY LenProperties, ElementOfSeq
<1>2. <<<<>>>> \in T
    OBVIOUS
<1>3. \A n \in 1..N : \A t \in T : Reads(t, chunk[n]) \in T
    BY <1>1, ReadsType
<1>4. step \in [1..N -> [T -> T]]
  <2> HIDE DEF T, N
  <2> QED BY <1>3
<1>5. PICK g \in [0..N -> T] : IsRecursion(g, N, <<<<>>>>, step)
  <2> HIDE DEF step, N, T
  <2> QED BY <1>1, <1>2, <1>4, RecursionExists
<1>6. Loop(g)
  <2>1. \A n \in 0..N : g[n] = IF n = 0 THEN <<<<>>>> ELSE step[n][g[n - 1]]
    <3> HIDE DEF step, N, T
    <3> QED BY <1>5 DEF IsRecursion
  <2>2. \A n \in 0..N : n # 0 => n \in 1..N /\ g[n - 1] \in T
    <3>1. \A n \in 0..N : n # 0 => n \in 1..N /\ n - 1 \in 0..N
        BY <1>1
    <3> HIDE DEF N, T, step
    <3> QED BY <1>5, <3>1
  <2>3. \A n \in 0..N : n # 0 => g[n] = Reads(g[n - 1], chunk[n])
    <3> HIDE DEF N, T
    <3> QED BY <2>1, <2>2
  <2> HIDE DEF N, T, step
  <2> QED BY <1>5, <2>1, <2>3 DEF Reads
<1>7. Loop(upTo)
  <2> HIDE DEF Loop
  <2> QED BY <1>6
<1>8. Lines(chunk) = upTo[N]
    BY DEF Lines
<1> HIDE DEF upTo
<1>9. \A n \in 0..N : upTo[n] = IF n = 0 THEN <<<<>>>> ELSE Reads(upTo[n - 1], chunk[n])
    BY <1>7 DEF Reads
<1> HIDE DEF Loop, step
<1> DEFINE P == {n \in 0..N : upTo[n] \in T}
<1>10. 0 \in P
  <2>1. 0 \in 0..N
      BY <1>1
  <2> HIDE DEF N, T
  <2> QED BY <1>2, <1>9, <2>1
<1>11. \A n \in 1..N : n - 1 \in P => n \in P
  <2>1. \A n \in 1..N : n \in 0..N /\ n # 0
      BY <1>1
  <2> HIDE DEF N, T
  <2> QED BY <1>3, <1>9, <2>1
<1>12. N \in P
  <2> HIDE DEF P, N
  <2>1. \A n \in 0..N : n \in P
      BY <1>1, <1>10, <1>11, IntervalInduction
  <2> QED BY <1>1, <2>1
<1> QED BY <1>8, <1>12

\* And so are several pieces.
LEMMA AllLinesType ==
  ASSUME NEW S, NEW chunks \in Seq(Seq(S))
  PROVE  AllLines(chunks) \in Seq(Seq(S))
<1> DEFINE all == [k \in DOMAIN chunks |-> Lines(chunks[k])]
<1>1. Len(chunks) \in Nat /\ DOMAIN chunks = 1..Len(chunks)
    BY LenProperties
<1>2. \A k \in 1..Len(chunks) : Lines(chunks[k]) \in Seq(Seq(S))
  <2>1. \A k \in 1..Len(chunks) : chunks[k] \in Seq(S)
      BY ElementOfSeq
  <2> QED BY <2>1, LinesType
<1>3. all \in [1..Len(chunks) -> Seq(Seq(S))]
    BY <1>1, <1>2
<1>4. AllLines(chunks) = FlattenSeq(all)
    BY DEF AllLines
<1> HIDE DEF all
<1>5. all \in Seq(Seq(Seq(S)))
    BY <1>1, <1>3, SeqIntro
<1> QED BY <1>4, <1>5, FlattenType

\* The lines take a number of rows.
LEMMA RowsOfType ==
  ASSUME NEW S, NEW v, v.cols \in Nat \ {0}, NEW lines \in Seq(Seq(S))
  PROVE  RowsOf(v, lines) \in Nat
<1> DEFINE s == [k \in DOMAIN lines |-> Len(Wrap(lines[k], v.cols))]
<1>1. Len(lines) \in Nat /\ DOMAIN lines = 1..Len(lines)
    BY LenProperties
<1>2. \A k \in 1..Len(lines) : Len(Wrap(lines[k], v.cols)) \in Nat
  <2>1. \A k \in 1..Len(lines) : lines[k] \in Seq(S)
      BY ElementOfSeq
  <2> QED BY <2>1, WrapType
<1>3. s \in [1..Len(lines) -> Nat]
    BY <1>1, <1>2
<1>4. RowsOf(v, lines) = SumSeq(s)
    BY DEF RowsOf
<1> HIDE DEF s
<1>5. s \in Seq(Nat)
    BY <1>1, <1>3, SeqIntro
<1> QED BY <1>4, <1>5, SumSeqType

\* All lines of what was drained are added.
LEMMA AppendedKeeps ==
  ASSUME NEW v, Current(v), NEW lines \in Seq(Seq(Letters))
  PROVE  /\ Current(Appended(v, lines)) /\ SamePlace(Appended(v, lines), v)
         /\ Len(Appended(v, lines).wrapped) <= Len(v.wrapped) + RowsOf(v, lines)
<1> DEFINE N == Len(lines)
           T == {w \in Views : Current(w) /\ SamePlace(w, v)}
           Loop(f) == f = [k \in 0..N |->
                             IF k = 0 THEN v ELSE AppendHistoryLine(f[k - 1], lines[k])]
           upTo == CHOOSE f : Loop(f)
           step == [n \in 1..N |-> [w \in T |-> AppendHistoryLine(w, lines[n])]]
<1>1. N \in Nat /\ \A n \in 1..N : lines[n] \in Seq(Letters)
    BY LenProperties, ElementOfSeq
<1>2. v \in T
    BY DEF Current, Matching, SamePlace
<1>3. \A n \in 1..N : \A w \in T : AppendHistoryLine(w, lines[n]) \in T
  <2> SUFFICES ASSUME NEW n \in 1..N, NEW w \in T PROVE AppendHistoryLine(w, lines[n]) \in T
      OBVIOUS
  <2> DEFINE a == AppendHistoryLine(w, lines[n])
  <2>1. Current(a) /\ SamePlace(a, w)
      BY <1>1, AppendLineKeeps
  <2> HIDE DEF a
  <2>2. a \in Views /\ SamePlace(a, v)
      BY <2>1 DEF Current, Matching, SamePlace
  <2> QED BY <2>1, <2>2 DEF a
<1>4. step \in [1..N -> [T -> T]]
  <2> HIDE DEF T, N
  <2> QED BY <1>3
<1>5. PICK g \in [0..N -> T] : IsRecursion(g, N, v, step)
  <2> HIDE DEF step, N, T
  <2> QED BY <1>1, <1>2, <1>4, RecursionExists
<1>6. Loop(g)
  <2>1. \A n \in 0..N : g[n] = IF n = 0 THEN v ELSE step[n][g[n - 1]]
    <3> HIDE DEF step, N, T
    <3> QED BY <1>5 DEF IsRecursion
  <2>2. \A n \in 0..N : n # 0 => n \in 1..N /\ g[n - 1] \in T
    <3>1. \A n \in 0..N : n # 0 => n \in 1..N /\ n - 1 \in 0..N
        BY <1>1
    <3> HIDE DEF N, T, step
    <3> QED BY <1>5, <3>1
  <2>3. \A n \in 0..N : n # 0 => g[n] = AppendHistoryLine(g[n - 1], lines[n])
    <3> HIDE DEF N, T
    <3> QED BY <2>1, <2>2
  <2> HIDE DEF N, T, step
  <2> QED BY <1>5, <2>1, <2>3
<1>7. Loop(upTo)
  <2> HIDE DEF Loop
  <2> QED BY <1>6
<1>8. Appended(v, lines) = upTo[N]
    BY DEF Appended
<1> HIDE DEF upTo
<1>9. \A n \in 0..N : upTo[n] = IF n = 0 THEN v ELSE AppendHistoryLine(upTo[n - 1], lines[n])
    BY <1>7
<1> HIDE DEF Loop, step
<1> DEFINE size(n) == Len(Wrap(lines[n], v.cols))
<1>13. PICK u \in [0..N -> Nat] : /\ u[0] = 0 /\ RowsOf(v, lines) = u[N]
                                 /\ \A n \in 1..N : u[n] = u[n - 1] + size(n)
  <2> DEFINE s == [k \in DOMAIN lines |-> size(k)]
  <2>1. s \in Seq(Nat) /\ Len(s) = N /\ \A n \in 1..N : s[n] = size(n)
    <3>1. v.cols \in Nat \ {0}
        BY MatchingFacts DEF Current
    <3>2. \A n \in 1..N : size(n) \in Nat
        BY <1>1, <3>1, WrapType
    <3>3. DOMAIN lines = 1..N
        BY LenProperties
    <3> HIDE DEF size, N
    <3>4. s \in [1..N -> Nat] /\ \A n \in 1..N : s[n] = size(n)
        BY <3>2, <3>3
    <3> HIDE DEF s
    <3> QED BY <1>1, <3>4, SeqIntro
  <2>2. RowsOf(v, lines) = SumSeq(s)
      BY DEF RowsOf
  <2> HIDE DEF s, N, size
  <2>3. PICK u \in [0..N -> Nat] : /\ u[0] = 0 /\ SumSeq(s) = u[N]
                                   /\ \A n \in 1..N : u[n] = u[n - 1] + s[n]
      BY <2>1, SumSeqSteps
  <2> QED BY <2>1, <2>2, <2>3
<1>14. Len(v.wrapped) \in Nat /\ \A w \in T : Len(w.wrapped) \in Nat /\ w.cols = v.cols
    BY MatchingFacts DEF Current, SamePlace
<1>15. \A n \in 1..N : \A w \in T :
         Len(AppendHistoryLine(w, lines[n]).wrapped) <= Len(w.wrapped) + size(n)
    BY <1>1, <1>14, AppendLineKeeps
<1> DEFINE Room(n) == Len(upTo[n].wrapped) <= Len(v.wrapped) + u[n]
           P == {n \in 0..N : upTo[n] \in T /\ Room(n)}
<1>10. 0 \in P
  <2>1. 0 \in 0..N
      BY <1>1
  <2> HIDE DEF N, T
  <2>2. upTo[0] = v
      BY <1>9, <2>1
  <2>3. Room(0)
      BY <1>13, <1>14, <2>2
  <2> QED BY <1>2, <2>1, <2>2, <2>3
<1>11. \A n \in 1..N : n - 1 \in P => n \in P
  <2> SUFFICES ASSUME NEW n \in 1..N, n - 1 \in P PROVE n \in P
      OBVIOUS
  <2>1. n \in 0..N /\ n # 0 /\ n - 1 \in 0..N
      BY <1>1
  <2> DEFINE w == upTo[n - 1]  a == AppendHistoryLine(w, lines[n])
  <2>2. w \in T /\ Len(w.wrapped) <= Len(v.wrapped) + u[n - 1]
      OBVIOUS
  <2> HIDE DEF N, T, w
  <2>3. upTo[n] = a
      BY <1>9, <2>1 DEF w
  <2>4. a \in T /\ Len(a.wrapped) <= Len(w.wrapped) + size(n)
      BY <1>3, <1>15, <2>2
  <2> HIDE DEF a
  <2>5. Room(n)
    <3> DEFINE p == Len(a.wrapped)  q == Len(w.wrapped)  r == Len(v.wrapped)  s == size(n)
    <3>1. u[n] = u[n - 1] + s /\ u[n - 1] \in Nat /\ u[n] \in Nat
        BY <1>13, <2>1
    <3>2. p \in Nat /\ q \in Nat /\ r \in Nat
        BY <1>14, <2>2, <2>4
    <3>3. q <= r + u[n - 1] /\ p <= q + s
        BY <2>2, <2>4
    <3>6. s \in Int
      <4>1. lines[n] \in Seq(Letters) /\ v.cols \in Nat \ {0}
          BY <1>1, MatchingFacts DEF Current
      <4> QED BY <4>1, WrapType
    <3>4. Len(upTo[n].wrapped) = p
        BY <2>3
    <3> HIDE DEF p, q, r, s
    <3>5. p <= r + u[n]
        BY <3>1, <3>2, <3>3, <3>6
    <3> QED BY <3>4, <3>5 DEF r
  <2> QED BY <2>1, <2>3, <2>4, <2>5
<1>12. N \in P
  <2> HIDE DEF P, N
  <2>1. \A n \in 0..N : n \in P
      BY <1>1, <1>10, <1>11, IntervalInduction
  <2> QED BY <1>1, <2>1
<1>16. upTo[N] \in T /\ Room(N)
    BY <1>12
<1> QED BY <1>8, <1>13, <1>16
-----------------------------------------------------------------------------
(* What a drain, the wheel and a resize do.                                 *)

\* How far one can scroll, without the maximum.
LEMMA MaxOffsetIs ==
  ASSUME NEW v, Len(v.wrapped) \in Nat, v.rows \in Nat
  PROVE  /\ MaxOffset(v) \in Nat
         /\ MaxOffset(v) = IF Len(v.wrapped) > v.rows - 1 THEN Len(v.wrapped) - (v.rows - 1) ELSE 0
<1> DEFINE b == Len(v.wrapped) - (v.rows - 1)
<1>1. b \in Int
    OBVIOUS
<1>2. MaxOffset(v) = Max({0, b})
    BY DEF MaxOffset, OutputRows
<1> HIDE DEF b
<1>3. MaxOffset(v) = IF 0 >= b THEN 0 ELSE b
    BY <1>1, <1>2, MaxOfTwo
<1> QED BY <1>1, <1>3 DEF b

\* The text elsewhere: nothing of it changes.
Elsewhere(v, offset, follow) == [v EXCEPT !.offset = offset, !.follow = follow]

\* Scrolling changes neither lines nor rows.
LEMMA ElsewhereKeeps ==
  ASSUME NEW v, Current(v), NEW offset \in Nat, NEW follow \in BOOLEAN,
         NEW w, w = Elsewhere(v, offset, follow)
  PROVE  /\ Current(w)
         /\ w.raw = v.raw /\ w.wrapped = v.wrapped /\ w.cols = v.cols /\ w.rows = v.rows
         /\ w.offset = offset /\ w.follow = follow
<1>1. v \in Views
    BY DEF Current, Matching
<1>2. /\ w \in Views
      /\ w.raw = v.raw /\ w.wrapped = v.wrapped /\ w.cols = v.cols /\ w.rows = v.rows
      /\ w.offset = offset /\ w.follow = follow /\ w.counts = v.counts
    BY <1>1 DEF Elsewhere, Views
<1>3. Cut(w) = Cut(v)
    BY <1>2 DEF Cut
<1> QED BY <1>2, <1>3 DEF Current, Matching

\* Rendering keeps the first row drawn in the history.
LEMMA ClampedKeeps ==
  ASSUME NEW v, Current(v)
  PROVE  Current(Clamped(v)) /\ Within(Clamped(v))
<1>1. CASE v.rows <= 1
  <2>1. Clamped(v) = v
      BY <1>1 DEF Clamped
  <2>2. v.rows \in Nat
      BY MatchingFacts DEF Current
  <2> QED BY <1>1, <2>1, <2>2 DEF Within
<1>2. CASE ~(v.rows <= 1)
  <2> DEFINE o == IF v.follow THEN 0 ELSE Min({v.offset, MaxOffset(v)})
             w == Elsewhere(v, o, v.follow)
  <2>1. v \in Views /\ v.offset \in Nat /\ v.follow \in BOOLEAN
      BY MatchingFacts DEF Current, Matching
  <2>2. MaxOffset(v) \in Nat
    <3>1. Len(v.wrapped) \in Nat /\ v.rows \in Nat
        BY MatchingFacts DEF Current
    <3> QED BY <3>1, MaxOffsetIs
  <2>3. o \in Nat /\ o <= MaxOffset(v) /\ (v.follow => o = 0)
    <3>1. Min({v.offset, MaxOffset(v)})
            = IF v.offset <= MaxOffset(v) THEN v.offset ELSE MaxOffset(v)
        BY <2>1, <2>2, MinOfTwo
    <3> QED BY <2>1, <2>2, <3>1
  <2>4. Clamped(v) = w
      BY <1>2, <2>1 DEF Clamped, Elsewhere, Views
  <2> HIDE DEF o, w
  <2>5. /\ Current(w) /\ w.wrapped = v.wrapped /\ w.rows = v.rows
        /\ w.offset = o /\ w.follow = v.follow
      BY <2>1, <2>3, ElsewhereKeeps DEF w
  <2>6. MaxOffset(w) = MaxOffset(v)
      BY <2>5 DEF MaxOffset, OutputRows
  <2> QED BY <2>3, <2>4, <2>5, <2>6 DEF Within
<1> QED BY <1>1, <1>2

\* New text keeps the text sound, and the reader inside it.
LEMMA DrainKeeps ==
  ASSUME NEW v, Current(v), NEW chunks \in Seq(Seq(Letters))
  PROVE  Current(DrainOutputQueue(v, chunks)) /\ Within(DrainOutputQueue(v, chunks))
<1> DEFINE lines == AllLines(chunks)
           n == Appended(v, lines)
           added == RowsOf(v, lines)
           removed == Len(v.wrapped) + added - Len(n.wrapped)
           offset == Moved(v, added, removed)
           w == Elsewhere(n, offset, n.follow \/ offset = 0)
<1>1. lines \in Seq(Seq(Letters))
    BY AllLinesType
<1>2. Current(n) /\ SamePlace(n, v)
  <2> HIDE DEF lines
  <2> QED BY <1>1, AppendedKeeps
<1>3. added \in Nat
  <2> HIDE DEF lines
  <2>1. v.cols \in Nat \ {0}
      BY MatchingFacts DEF Current
  <2> QED BY <1>1, <2>1, RowsOfType
<1> HIDE DEF lines, n, added
<1>4. v.offset \in Nat /\ Len(v.wrapped) \in Nat /\ Len(n.wrapped) \in Nat
      /\ n.follow \in BOOLEAN /\ n \in Views
    BY <1>2, MatchingFacts DEF Current, Matching
<1>5. offset \in Nat
  <2>0. removed \in Int
    <3> DEFINE p == Len(v.wrapped)  q == Len(n.wrapped)
    <3>1. p \in Nat /\ q \in Nat
        BY <1>4
    <3> HIDE DEF p, q
    <3>2. p + added - q \in Int
        BY <1>3, <3>1
    <3> QED BY <3>2 DEF p, q
  <2> HIDE DEF removed
  <2> DEFINE b == v.offset + added - removed
  <2>1. b \in Int
      BY <1>3, <1>4, <2>0
  <2>2. offset = IF v.follow THEN v.offset ELSE Max({0, b})
      BY DEF Moved
  <2> HIDE DEF b
  <2>3. Max({0, b}) = IF 0 >= b THEN 0 ELSE b
      BY <2>1, MaxOfTwo
  <2> HIDE DEF offset
  <2> QED BY <1>4, <2>1, <2>2, <2>3
<1>6. DrainOutputQueue(v, chunks) = Clamped(w)
    BY <1>4 DEF DrainOutputQueue, Elsewhere, lines, n, added, Views
<1> HIDE DEF offset
<1>7. Current(w)
  <2> DEFINE f == (n.follow \/ offset = 0)
  <2>2. f \in BOOLEAN
      OBVIOUS
  <2> HIDE DEF f
  <2>3. Current(Elsewhere(n, offset, f))
      BY <1>2, <1>5, <2>2, ElsewhereKeeps
  <2> QED BY <2>3 DEF f
<1> QED BY <1>6, <1>7, ClampedKeeps

\* And so does scrolling.
LEMMA ScrollKeeps ==
  ASSUME NEW v, Current(v), Within(v), NEW delta \in Int
  PROVE  Current(AdjustScroll(v, delta)) /\ Within(AdjustScroll(v, delta))
<1> DEFINE o == CASE delta > 0 -> Min({MaxOffset(v), v.offset + delta})
                  [] delta < 0 -> Max({0, v.offset + delta})
                  [] OTHER -> v.offset
           w == Elsewhere(v, o, o = 0)
<1>1. CASE v.rows <= 1
    BY <1>1 DEF AdjustScroll
<1>2. CASE ~(v.rows <= 1)
  <2>1. v \in Views /\ v.offset \in Nat /\ MaxOffset(v) \in Nat
    <3>1. v \in Views /\ v.offset \in Nat /\ Len(v.wrapped) \in Nat /\ v.rows \in Nat
        BY MatchingFacts DEF Current, Matching
    <3> QED BY <3>1, MaxOffsetIs
  <2>2. o \in Nat
    <3> DEFINE s == v.offset + delta
    <3>1. s \in Int
        BY <2>1
    <3> HIDE DEF s
    <3>2. Min({MaxOffset(v), s}) = IF MaxOffset(v) <= s THEN MaxOffset(v) ELSE s
        BY <2>1, <3>1, MinOfTwo
    <3>3. Max({0, s}) = IF 0 >= s THEN 0 ELSE s
        BY <3>1, MaxOfTwo
    <3>4. delta > 0 => s >= 0
        BY <2>1 DEF s
    <3>5. CASE delta > 0
        BY <2>1, <3>1, <3>2, <3>4, <3>5 DEF s
    <3>6. CASE delta < 0
        BY <3>1, <3>3, <3>6 DEF s
    <3>7. CASE ~(delta > 0) /\ ~(delta < 0)
        BY <2>1, <3>7
    <3> QED BY <3>5, <3>6, <3>7
  <2>3. AdjustScroll(v, delta) = Clamped(w)
      BY <1>2, <2>1 DEF AdjustScroll, Elsewhere, Views
  <2> HIDE DEF o
  <2>4. Current(w)
    <3> DEFINE f == (o = 0)
    <3>1. f \in BOOLEAN
        OBVIOUS
    <3> HIDE DEF f
    <3>2. Current(Elsewhere(v, o, f))
        BY <2>2, <3>1, ElsewhereKeeps
    <3> QED BY <3>2 DEF f
  <2> QED BY <2>3, <2>4, ClampedKeeps
<1> QED BY <1>1, <1>2

\* The window is measured again, and everything cut again if its width has changed.
LEMMA ResizeKeeps ==
  ASSUME NEW v, Current(v), NEW size \in Sizes
  PROVE  /\ Current(Clamped(UpdateWindowInfo(v, size)))
         /\ Within(Clamped(UpdateWindowInfo(v, size)))
<1> DEFINE n == [v EXCEPT !.cols = size[1], !.rows = size[2]]
           u == UpdateWindowInfo(v, size)
<1>1. size[1] \in Nat \ {0} /\ size[2] \in Nat \ {0}
    BY ScreenAssumption
<1>2. v \in Views /\ Len(v.raw) <= MaxHistoryLines
    BY DEF Current, Matching
<1>3. /\ n \in Views /\ n.cols = size[1] /\ n.rows = size[2] /\ n.raw = v.raw
      /\ n.wrapped = v.wrapped /\ n.counts = v.counts
      /\ n.offset = v.offset /\ n.follow = v.follow
    BY <1>1, <1>2 DEF Views
<1>4. u = IF size[1] # v.cols THEN Rewrapped(n) ELSE n
    BY DEF UpdateWindowInfo
<1> HIDE DEF n, u
<1>5. CASE size[1] = v.cols
  <2>1. Cut(n) = Cut(v)
      BY <1>3, <1>5 DEF Cut
  <2>2. Current(n)
      BY <1>2, <1>3, <1>5, <2>1 DEF Current, Matching
  <2> QED BY <1>4, <1>5, <2>2, ClampedKeeps DEF u
<1>6. CASE size[1] # v.cols
  <2> DEFINE N == Len(v.raw)  cut == Cut(n)
             counts == [k \in DOMAIN cut |-> Len(cut[k])]
             o == IF n.follow THEN 0 ELSE n.offset
             r == [n EXCEPT !.wrapped = FlattenSeq(cut), !.counts = Vector(counts), !.offset = o]
  <2>1. /\ N \in Nat /\ DOMAIN v.raw = 1..N /\ v.raw \in Seq(Seq(Letters))
        /\ v.offset \in Nat
      BY MatchingFacts DEF Current
  <2>2. \A k \in 1..N : Wrap(v.raw[k], n.cols) \in Seq(Seq(Letters))
                        /\ Len(Wrap(v.raw[k], n.cols)) \in Nat
    <3>1. \A k \in 1..N : v.raw[k] \in Seq(Letters)
        BY <2>1, ElementOfSeq
    <3> QED BY <1>1, <1>3, <3>1, WrapType
  <2>3. cut = [k \in 1..N |-> Wrap(v.raw[k], n.cols)]
      BY <1>3, <2>1 DEF Cut
  <2>4. cut \in Seq(Seq(Seq(Letters))) /\ Len(cut) = N /\ DOMAIN cut = 1..N
    <3> HIDE DEF cut, N
    <3>1. cut \in [1..N -> Seq(Seq(Letters))]
        BY <2>2, <2>3
    <3> QED BY <2>1, <3>1, SeqIntro
  <2>5. counts = [k \in 1..N |-> Len(Wrap(v.raw[k], n.cols))]
    <3> HIDE DEF cut, N
    <3> QED BY <2>3, <2>4
  <2>6. counts \in Seq(Nat) /\ Vector(counts) = counts
    <3> HIDE DEF cut, N, counts
    <3>1. counts \in [1..N -> Nat]
        BY <2>2, <2>5
    <3>2. counts \in Seq(Nat)
        BY <2>1, <3>1, SeqIntro
    <3> QED BY <3>2, VectorIs
  <2>7. FlattenSeq(cut) \in Seq(Seq(Letters))
    <3> HIDE DEF cut, N
    <3> QED BY <2>4, FlattenType
  <2>8. o \in Nat
      BY <1>3, <2>1
  <2>9. u = r
      BY <1>3, <1>4, <1>6 DEF Rewrapped, Cut, Views
  <2> HIDE DEF cut, counts, o
  <2>10. /\ r \in Views /\ r.wrapped = FlattenSeq(cut) /\ r.counts = counts
         /\ r.cols = n.cols /\ r.raw = v.raw
      BY <1>3, <2>6, <2>7, <2>8 DEF Views
  <2> HIDE DEF r, N
  <2>11. Cut(r) = cut
      BY <1>3, <2>10 DEF Cut, cut
  <2>12. Current(r)
      BY <1>2, <2>1, <2>5, <2>10, <2>11 DEF Current, Matching
  <2> QED BY <2>9, <2>12, ClampedKeeps DEF u
<1> QED BY <1>5, <1>6
-----------------------------------------------------------------------------
(* The text stays sound.                                                    *)

ViewInv == Current(view) /\ Within(view) /\ echo \in Seq(Seq(Letters))

\* An empty window.
LEMMA EmptyViewIsSound ==
  ASSUME NEW size \in Sizes
  PROVE  Current(EmptyView(size)) /\ Within(EmptyView(size))
<1> DEFINE v == EmptyView(size)
<1>1. size[1] \in Nat \ {0} /\ size[2] \in Nat \ {0}
    BY ScreenAssumption
<1>2. /\ v.raw = <<>> /\ v.counts = <<>> /\ v.wrapped = <<>> /\ v.offset = 0 /\ v.follow = TRUE
      /\ v.cols = size[1] /\ v.rows = size[2]
      /\ v = [raw |-> v.raw, counts |-> v.counts, wrapped |-> v.wrapped, offset |-> v.offset,
              follow |-> v.follow, cols |-> v.cols, rows |-> v.rows]
    BY DEF EmptyView
<1> HIDE DEF v
<1>3. <<>> \in Seq(Seq(Letters)) /\ <<>> \in Seq(Nat) /\ Len(<<>>) = 0
    OBVIOUS
<1>4. v \in Views
  <2>1. /\ v.raw \in Seq(Seq(Letters)) /\ v.counts \in Seq(Nat) /\ v.wrapped \in Seq(Seq(Letters))
        /\ v.offset \in Nat /\ v.follow \in BOOLEAN
        /\ v.cols \in Nat \ {0} /\ v.rows \in Nat \ {0}
    <3>1. v.raw \in Seq(Seq(Letters)) /\ v.counts \in Seq(Nat) /\ v.wrapped \in Seq(Seq(Letters))
        BY <1>2, <1>3, Zenon
    <3>2. v.offset \in Nat /\ v.follow \in BOOLEAN
      <4>1. v.offset = 0 /\ v.follow = TRUE
          BY <1>2, Zenon
      <4>2. 0 \in Nat /\ TRUE \in BOOLEAN
          OBVIOUS
      <4> QED BY <4>1, <4>2, Zenon
    <3>3. v.cols \in Nat \ {0} /\ v.rows \in Nat \ {0}
        BY <1>1, <1>2, Zenon
    <3> QED BY <3>1, <3>2, <3>3
  <2> DEFINE a == v.raw  b == v.counts  c == v.wrapped  d == v.offset
             e == v.follow  f == v.cols  h == v.rows
  <2>2. v = [raw |-> a, counts |-> b, wrapped |-> c, offset |-> d, follow |-> e,
             cols |-> f, rows |-> h]
      BY <1>2
  <2>3. /\ a \in Seq(Seq(Letters)) /\ b \in Seq(Nat) /\ c \in Seq(Seq(Letters))
        /\ d \in Nat /\ e \in BOOLEAN /\ f \in Nat \ {0} /\ h \in Nat \ {0}
      BY <2>1
  <2> HIDE DEF a, b, c, d, e, f, h
  <2> QED BY <2>2, <2>3 DEF Views
<1>5. Cut(v) = <<>>
    BY <1>2 DEF Cut
<1>6. FlattenSeq(<<>>) = <<>>
    BY <1>3 DEF FlattenSeq
<1>7. v.counts = [k \in DOMAIN v.raw |-> Len(Wrap(v.raw[k], v.cols))]
    BY <1>2
<1>8. Current(v)
    BY <1>2, <1>3, <1>4, <1>5, <1>6, <1>7, ViewAssumption DEF Current, Matching
<1>9. MaxOffset(v) \in Nat
    BY <1>1, <1>2, <1>3, MaxOffsetIs
<1>10. Within(v)
    BY <1>2, <1>9 DEF Within
<1> QED BY <1>8, <1>10 DEF v

\* The prompt is text.
LEMMA PromptIsText == Prompt \in Seq(Letters)
<1> DEFINE a == ">"  b == " "
<1>1. a \in Letters /\ b \in Letters
    BY DEF Letters
<1> HIDE DEF a, b
<1>2. <<a, b>> \in Seq(Letters)
    BY <1>1
<1> QED BY <1>2 DEF a, b, Prompt

\* What is drained is text.
LEMMA QueuedType ==
  ASSUME ViewInv, NEW chunks \in Queued
  PROVE  chunks \in Seq(Seq(Letters))
<1>1. \A c \in Chunks : <<c>> \in Seq(Seq(Letters))
  <2> SUFFICES ASSUME NEW c \in Chunks PROVE <<c>> \in Seq(Seq(Letters))
      OBVIOUS
  <2>1. c \in Seq(Range(c))
      BY ScreenAssumption
  <2>2. Range(c) \subseteq Letters
      BY DEF Letters
  <2>3. c \in Seq(Letters)
      BY <2>1, <2>2, SeqMonotonic
  <2> QED BY <2>3
<1>2. echo \in Seq(Seq(Letters))
    BY DEF ViewInv
<1>3. \A c \in Chunks : /\ <<c>> \o echo \in Seq(Seq(Letters))
                        /\ echo \o <<c>> \in Seq(Seq(Letters))
    BY <1>1, <1>2, ConcatProperties
<1> QED BY <1>2, <1>3 DEF Queued

\* From the empty window on, every key, resize and drain keeps the text sound.
THEOREM ViewInvAlways == Spec => []ViewInv
<1>1. Init => ViewInv
  <2> SUFFICES ASSUME NEW size \in Sizes, view = EmptyView(size), echo = <<>>
               PROVE  ViewInv
      BY DEF Init
  <2> QED BY EmptyViewIsSound DEF ViewInv
<1>2. EditorInv /\ ViewInv /\ [Next]_vars => ViewInv'
  <2> SUFFICES ASSUME EditorInv, ViewInv, [Next]_vars PROVE ViewInv'
      OBVIOUS
  <2>1. CASE Type \/ Move \/ Browse \/ GoEnd \/ UNCHANGED vars
    <3>1. view' = view /\ echo' = echo
        BY <2>1 DEF Type, Move, Browse, GoEnd, Edit, vars
    <3> QED BY <3>1 DEF ViewInv, Current, Matching, Cut, Within, MaxOffset, OutputRows
  <2>2. CASE Enter
    <3>1. view' = view /\ echo' = <<Prompt \o edit.line \o <<Newline>>>>
        BY <2>2 DEF Enter
    <3>2. Prompt \in Seq(Letters) /\ edit.line \in Seq(Letters) /\ <<Newline>> \in Seq(Letters)
      <4>1. Newline \in Letters /\ Chars \subseteq Letters
          BY DEF Letters
      <4>2. edit.line \in Seq(Chars)
          BY DEF EditorInv, EditorTypes
      <4>3. edit.line \in Seq(Letters)
          BY <4>1, <4>2, SeqMonotonic
      <4>5. <<Newline>> \in Seq(Letters)
        <5> DEFINE nl == Newline
        <5>1. nl \in Letters
            BY <4>1
        <5> HIDE DEF nl
        <5>2. <<nl>> \in Seq(Letters)
            BY <5>1
        <5> QED BY <5>2 DEF nl
      <4> QED BY <4>3, <4>5, PromptIsText
    <3>3. Prompt \o edit.line \in Seq(Letters)
        BY <3>2, ConcatProperties
    <3>4. Prompt \o edit.line \o <<Newline>> \in Seq(Letters)
        BY <3>2, <3>3, ConcatProperties
    <3>5. echo' \in Seq(Seq(Letters))
        BY <3>1, <3>4
    <3> QED BY <3>1, <3>5 DEF ViewInv, Current, Matching, Cut, Within, MaxOffset, OutputRows
  <2>3. CASE Scroll
    <3>1. PICK delta \in {OutputRows(view), -OutputRows(view), 1, -1, 3, -3} :
            view' = AdjustScroll(view, delta)
        BY <2>3 DEF Scroll
    <3>2. OutputRows(view) \in Int
      <4>1. view.rows \in Nat \ {0}
          BY MatchingFacts DEF ViewInv, Current
      <4> QED BY <4>1 DEF OutputRows
    <3>3. delta \in Int
        BY <3>2
    <3>4. Current(AdjustScroll(view, delta)) /\ Within(AdjustScroll(view, delta))
        BY <3>3, ScrollKeeps DEF ViewInv
    <3>5. echo' = echo
        BY <2>3 DEF Scroll
    <3> QED BY <3>1, <3>4, <3>5 DEF ViewInv, Current, Matching, Cut, Within, MaxOffset, OutputRows
  <2>4. CASE Resize
    <3>1. PICK size \in Sizes : view' = Clamped(UpdateWindowInfo(view, size))
        BY <2>4 DEF Resize
    <3>2. /\ Current(Clamped(UpdateWindowInfo(view, size)))
          /\ Within(Clamped(UpdateWindowInfo(view, size)))
        BY ResizeKeeps DEF ViewInv
    <3>3. echo' = echo
        BY <2>4 DEF Resize
    <3> QED BY <3>1, <3>2, <3>3 DEF ViewInv, Current, Matching, Cut, Within, MaxOffset, OutputRows
  <2>5. ASSUME NEW chunks \in Queued, Drain(chunks) PROVE ViewInv'
    <3>1. view' = DrainOutputQueue(view, chunks) /\ echo' = <<>>
        BY <2>5 DEF Drain
    <3>2. Current(DrainOutputQueue(view, chunks)) /\ Within(DrainOutputQueue(view, chunks))
        BY QueuedType, DrainKeeps DEF ViewInv
    <3>3. <<>> \in Seq(Seq(Letters))
        OBVIOUS
    <3> QED BY <3>1, <3>2, <3>3 DEF ViewInv, Current, Matching, Cut, Within, MaxOffset, OutputRows
  <2> QED BY <2>1, <2>2, <2>3, <2>4, <2>5 DEF Next
<1> QED BY <1>1, <1>2, EditorInvAlways, PTL DEF Spec

\* Adding, trimming and wrapping again keep the rows those of the lines at the present
\* width, and the counts beside them right (Console.cpp:574-609, 650-679).
THEOREM WrappedStaysCurrent == Spec => []WrappedIsCurrent
<1>1. ViewInv => WrappedIsCurrent
  <2> SUFFICES ASSUME ViewInv PROVE WrappedIsCurrent
      OBVIOUS
  <2> DEFINE rows == [k \in DOMAIN view.raw |-> Wrap(view.raw[k], view.cols)]
  <2>1. rows = Cut(view)
      BY DEF Cut
  <2>2. [k \in DOMAIN rows |-> Len(rows[k])]
          = [k \in DOMAIN view.raw |-> Len(Wrap(view.raw[k], view.cols))]
      OBVIOUS
  <2> HIDE DEF rows
  <2>3. /\ view.wrapped = FlattenSeq(rows)
        /\ view.counts = [k \in DOMAIN rows |-> Len(rows[k])]
        /\ Len(view.raw) <= MaxHistoryLines
      BY <2>1, <2>2 DEF ViewInv, Current, Matching
  <2> QED BY <2>3 DEF WrappedIsCurrent, rows
<1> QED BY <1>1, ViewInvAlways, PTL

\* The unsigned difference total - outputRows - m_scrollOffset never wraps round, after
\* any scroll, drain or resize (Console.cpp:476-489).
THEOREM OffsetStaysInRange == Spec => []OffsetInRange
<1>1. ViewInv => OffsetInRange
  <2> SUFFICES ASSUME ViewInv PROVE OffsetInRange
      OBVIOUS
  <2>1. view.offset \in Nat /\ MaxOffset(view) \in Nat
    <3>1. view.offset \in Nat /\ Len(view.wrapped) \in Nat /\ view.rows \in Nat
        BY MatchingFacts DEF ViewInv, Current
    <3> QED BY <3>1, MaxOffsetIs
  <2> QED BY <2>1 DEF ViewInv, Within, OffsetInRange
<1> QED BY <1>1, ViewInvAlways, PTL

-----------------------------------------------------------------------------
(* What is drawn.                                                           *)

\* The end of a sequence is a suffix of it.
LEMMA EndIsSuffix ==
  ASSUME NEW S, NEW t \in Seq(S), NEW m \in 0 .. Len(t),
         NEW s, s = SubSeq(t, m + 1, Len(t))
  PROVE  IsSuffix(s, t) /\ Len(s) = Len(t) - m
<1>1. Len(t) \in Nat /\ m \in Nat /\ m <= Len(t) /\ DOMAIN t = 1 .. Len(t)
      /\ \A k \in 1 .. Len(t) : t[k] \in S
    BY LenProperties, ElementOfSeq
<1>2. /\ s \in Seq(S) /\ Len(s) = Len(t) - m
      /\ \A k \in 1 .. Len(t) - m : s[k] = t[m + k]
  <2> DEFINE n == Len(t)  a == m + 1
  <2>1. a \in Int /\ n \in Int /\ \A i \in a .. n : t[i] \in S
      BY <1>1
  <2> HIDE DEF n, a
  <2>2. /\ SubSeq(t, a, n) \in Seq(S)
        /\ Len(SubSeq(t, a, n)) = IF a <= n THEN n - a + 1 ELSE 0
        /\ \A i \in 1 .. n - a + 1 : SubSeq(t, a, n)[i] = t[a + i - 1]
      BY <2>1, SubSeqProperties
  <2>3. s = SubSeq(t, a, n)
      BY DEF a, n
  <2>4. (IF a <= n THEN n - a + 1 ELSE 0) = n - m /\ n - a + 1 = n - m
    <3>1. a = m + 1 /\ n \in Nat /\ m \in Nat /\ m <= n
        BY <1>1 DEF a, n
    <3> QED BY <3>1
  <2>5. \A k \in 1 .. n - m : s[k] = t[m + k]
    <3>1. \A i \in 1 .. n - m : s[i] = t[a + i - 1]
        BY <2>2, <2>3, <2>4
    <3>2. \A i \in 1 .. n - m : a + i - 1 = m + i
        BY DEF a
    <3> QED BY <3>1, <3>2
  <2> QED BY <2>2, <2>3, <2>4, <2>5 DEF n
<1> DEFINE n == Len(t)
           l == Len(s)
           rt == [i \in 1 .. n |-> t[(n - i) + 1]]
           rs == [i \in 1 .. l |-> s[(l - i) + 1]]
<1>3. n \in Nat /\ l \in Nat /\ l <= n /\ l = n - m
  <2>1. Len(s) = Len(t) - m
      BY <1>2, SMTT(30)
  <2> HIDE DEF l, n
  <2>2. n \in Nat /\ m \in Nat /\ m <= n /\ l = n - m
      BY <1>1, <2>1 DEF l, n
  <2> QED BY <2>2
<1>4. \A i \in 1 .. l : i \in 1 .. n /\ rs[i] = rt[i] /\ rt[i] \in S
  <2> SUFFICES ASSUME NEW i \in 1 .. l PROVE i \in 1 .. n /\ rs[i] = rt[i] /\ rt[i] \in S
      OBVIOUS
  <2>1. i \in 1 .. n /\ (l - i) + 1 \in 1 .. n - m /\ m + ((l - i) + 1) = (n - i) + 1
        /\ (n - i) + 1 \in 1 .. n
      BY <1>3, SMTT(30)
  <2>2. s[(l - i) + 1] = t[(n - i) + 1] /\ t[(n - i) + 1] \in S
      BY <1>1, <1>2, <2>1
  <2> QED BY <2>1, <2>2
<1>5. rt \in Seq(S) /\ rs \in Seq(S) /\ Len(rt) = n /\ Len(rs) = l
  <2>1. \A i \in 1 .. n : t[(n - i) + 1] \in S
    <3>1. \A i \in 1 .. n : (n - i) + 1 \in 1 .. n
        BY <1>3
    <3> QED BY <1>1, <3>1
  <2>2. \A i \in 1 .. l : rs[i] \in S
      BY <1>4
  <2>3. rt \in [1 .. n -> S] /\ rs \in [1 .. l -> S]
    <3>1. rt \in [1 .. n -> S]
        BY <2>1
    <3>2. DOMAIN rs = 1 .. l /\ rs = [i \in 1 .. l |-> rs[i]]
        OBVIOUS
    <3> HIDE DEF rs
    <3>3. rs \in [1 .. l -> S]
        BY <2>2, <3>2
    <3> QED BY <3>1, <3>3
  <2> HIDE DEF rt, rs
  <2> QED BY <1>3, <2>3, SeqIntro
<1>6. Reverse(s) = rs /\ Reverse(t) = rt
    BY DEF Reverse
<1> HIDE DEF rs, rt, n, l
<1>7. /\ SubSeq(rs, 1, l) \in Seq(S) /\ Len(SubSeq(rs, 1, l)) = l
      /\ SubSeq(rt, 1, l) \in Seq(S) /\ Len(SubSeq(rt, 1, l)) = l
      /\ \A i \in 1 .. l : SubSeq(rs, 1, l)[i] = rs[i] /\ SubSeq(rt, 1, l)[i] = rt[i]
    BY <1>3, <1>5
<1>8. SubSeq(rs, 1, l) = SubSeq(rt, 1, l)
    BY <1>4, <1>7, SeqEqual
<1>9. IsPrefix(rs, rt)
    BY <1>3, <1>5, <1>8 DEF IsPrefix
<1> QED BY <1>2, <1>6, <1>9 DEF IsSuffix

\* The window, as a property of what is drawn, of a line and of a text.
Full(d, e, v) ==
  /\ v.rows > 1 => Len(d.text) = Min({OutputRows(v), Len(v.wrapped)})
  /\ v.follow /\ d.text # <<>> => Last(d.text) = Last(v.wrapped)
  /\ IsSuffix(d.input, Prompt \o e.line)
  /\ Len(d.input) = Min({v.cols, Len(Prompt \o e.line)})
  /\ d.cursor \in 0 .. v.cols - 1

\* The rows drawn.
LEMMA ShownIsFull ==
  ASSUME NEW v, Current(v), Within(v), v.rows > 1
  PROVE  /\ Len(Shown(v)) = Min({OutputRows(v), Len(v.wrapped)})
         /\ v.follow /\ Shown(v) # <<>> => Last(Shown(v)) = Last(v.wrapped)
<1> DEFINE w == v.wrapped  n == Len(w)  r == v.rows - 1  o == v.offset  m == MaxOffset(v)
           st == Start(v)  to == Min({n, st + r})
<1>1. /\ w \in Seq(Seq(Letters)) /\ n \in Nat /\ r \in Nat /\ r >= 1
      /\ o \in Nat /\ v.follow \in BOOLEAN
    BY MatchingFacts DEF Current
<1>2. m \in Nat /\ m = IF n > r THEN n - r ELSE 0
  <2>1. v.rows \in Nat
      BY MatchingFacts DEF Current
  <2> QED BY <1>1, <2>1, MaxOffsetIs
<1>3. o <= m /\ (v.follow => o = 0)
    BY DEF Within
<1>4. st = IF n > r THEN n - r - o ELSE 0
    BY <1>1, <1>2, <1>3 DEF Start
<1> HIDE DEF st
<1>5. st \in Nat /\ st + r \in Nat
  <2> HIDE DEF n, r, o, m
  <2>1. CASE n > r
      BY <1>1, <1>2, <1>3, <1>4, <2>1
  <2>2. CASE ~(n > r)
      BY <1>1, <1>4, <2>2
  <2> QED BY <2>1, <2>2
<1>6. to = IF n > r THEN n - o ELSE n
  <2> DEFINE b == st + r
  <2>1. b \in Nat /\ b = IF n > r THEN n - o ELSE r
      BY <1>1, <1>4, <1>5
  <2> HIDE DEF b, n
  <2>2. Min({n, b}) = IF n <= b THEN n ELSE b
      BY <1>1, <2>1, MinOfTwo
  <2> QED BY <1>1, <2>1, <2>2 DEF b
<1>7. Max({1, st + 1}) = st + 1
  <2> DEFINE b == st + 1
  <2>1. b \in Int /\ b >= 1
      BY <1>5
  <2> HIDE DEF b
  <2>2. Max({1, b}) = IF 1 >= b THEN 1 ELSE b
      BY <2>1, MaxOfTwo
  <2> QED BY <2>1, <2>2 DEF b
<1>8. Shown(v) = SubSeq(w, st + 1, to)
    BY <1>7 DEF Shown, OutputRows, st
<1> HIDE DEF to
<1>9. to \in Nat /\ to <= n /\ to >= st /\ to - st = IF n > r THEN r ELSE n
  <2> HIDE DEF n, r, o, m
  <2>1. CASE n > r
    <3>1. to = n - o /\ st = n - r - o /\ o <= n - r
        BY <1>2, <1>3, <1>4, <1>6, <2>1
    <3> QED BY <1>1, <2>1, <3>1
  <2>2. CASE ~(n > r)
    <3>1. to = n /\ st = 0
        BY <1>4, <1>6, <2>2
    <3> QED BY <1>1, <2>2, <3>1
  <2> QED BY <2>1, <2>2
<1>10. Min({OutputRows(v), Len(v.wrapped)}) = IF n > r THEN r ELSE n
  <2>1. OutputRows(v) = r
      BY DEF OutputRows
  <2> HIDE DEF r, n
  <2>2. Min({r, n}) = IF r <= n THEN r ELSE n
      BY <1>1, MinOfTwo
  <2>3. (IF r <= n THEN r ELSE n) = IF n > r THEN r ELSE n
      BY <1>1
  <2> QED BY <2>1, <2>2, <2>3 DEF n
<1> HIDE DEF n, m, o, r, w
<1>11. /\ Len(SubSeq(w, st + 1, to)) = to - st
       /\ to > st => SubSeq(w, st + 1, to)[to - st] = w[to]
    BY <1>1, <1>5, <1>9 DEF n
<1>12. ASSUME v.follow, Shown(v) # <<>>
       PROVE  Last(Shown(v)) = Last(v.wrapped)
  <2>1. to > st
    <3>1. SUFFICES ASSUME to = st PROVE FALSE
        BY <1>5, <1>9
    <3>2. SubSeq(w, st + 1, to) \in Seq(Seq(Letters)) /\ Len(SubSeq(w, st + 1, to)) = 0
        BY <1>1, <1>5, <1>9, <1>11, <3>1 DEF n
    <3> QED BY <1>8, <1>12, <3>2, EmptySeq
  <2>2. to = n
    <3>1. o = 0
        BY <1>3, <1>12
    <3> QED BY <1>1, <1>6, <3>1
  <2>3. Last(Shown(v)) = w[to]
      BY <1>8, <1>11, <2>1 DEF Last
  <2> QED BY <2>2, <2>3 DEF Last, w, n
<1> QED BY <1>8, <1>9, <1>10, <1>11, <1>12

\* The input line and the cursor.
LEMMA InputIsFull ==
  ASSUME NEW e, Safe(e), NEW v, Current(v), NEW d, d = InputDrawn(e, v)
  PROVE  /\ IsSuffix(d.input, Prompt \o e.line)
         /\ Len(d.input) = Min({v.cols, Len(Prompt \o e.line)})
         /\ d.cursor \in 0 .. v.cols - 1
<1> DEFINE full == Prompt \o e.line  n == Len(full)  c == v.cols
           s == Max({0, n - c})  k == Max({0, Len(Prompt) + e.caret - s})
<1>1. c \in Nat \ {0} /\ e.line \in Seq(Chars) /\ e.caret \in Nat
    BY MatchingFacts, Fields DEF Current
<1>2. Prompt \in Seq(Letters) /\ Chars \subseteq Letters
    BY PromptIsText DEF Letters
<1>3. full \in Seq(Letters)
  <2>1. e.line \in Seq(Letters)
      BY <1>1, <1>2, SeqMonotonic
  <2> QED BY <1>2, <2>1, ConcatProperties
<1>4. n \in Nat /\ Len(Prompt) \in Nat
    BY <1>2, <1>3, LenProperties
<1>5. s = IF n > c THEN n - c ELSE 0
  <2> DEFINE b == n - c
  <2>1. b \in Int
      BY <1>1, <1>4
  <2> HIDE DEF b
  <2>2. Max({0, b}) = IF 0 >= b THEN 0 ELSE b
      BY <2>1, MaxOfTwo
  <2>3. s = Max({0, b})
      BY DEF b
  <2> HIDE DEF s, n, c
  <2> QED BY <1>1, <1>4, <2>2, <2>3 DEF b
<1> HIDE DEF s
<1>6. s \in 0 .. n
    BY <1>1, <1>4, <1>5
<1>7. k \in Nat
  <2> DEFINE b == Len(Prompt) + e.caret - s
  <2>1. b \in Int
      BY <1>1, <1>4, <1>6
  <2> HIDE DEF b
  <2>2. Max({0, b}) = IF 0 >= b THEN 0 ELSE b
      BY <2>1, MaxOfTwo
  <2>3. Max({0, b}) \in Nat
      BY <2>1, <2>2
  <2> QED BY <2>3 DEF b
<1>8. d.input = SubSeq(full, s + 1, n) /\ d.cursor = Min({k, c - 1})
    BY DEF InputDrawn, s
<1> HIDE DEF k
<1>9. d.cursor \in 0 .. c - 1
  <2> DEFINE b == c - 1
  <2>1. b \in Nat
      BY <1>1
  <2>2. d.cursor = Min({k, b})
      BY <1>8
  <2> HIDE DEF b
  <2>3. Min({k, b}) = IF k <= b THEN k ELSE b
      BY <1>7, <2>1, MinOfTwo
  <2>4. d.cursor \in 0 .. b
      BY <1>7, <2>1, <2>2, <2>3
  <2> QED BY <2>4 DEF b
<1> HIDE DEF full
<1>10. IsSuffix(d.input, full) /\ Len(d.input) = n - s
    BY <1>3, <1>6, <1>8, EndIsSuffix
<1>11. Min({c, n}) = IF c <= n THEN c ELSE n
  <2> HIDE DEF c, n
  <2> QED BY <1>1, <1>4, MinOfTwo
<1>12. n - s = IF c <= n THEN c ELSE n
    BY <1>1, <1>4, <1>5
<1> QED BY <1>9, <1>10, <1>11, <1>12 DEF full

\* What is drawn fills the window.
LEMMA DrawingIsFull ==
  ASSUME NEW e, Safe(e), NEW v, Current(v), Within(v), NEW d, d = Drawing(e, v)
  PROVE  Full(d, e, v)
<1> DEFINE i == InputDrawn(e, v)
<1>1. /\ d.text = IF v.rows > 1 THEN Shown(v) ELSE <<>>
      /\ d.input = i.input /\ d.cursor = i.cursor
    BY DEF Drawing
<1> HIDE DEF i
<1>2. /\ IsSuffix(i.input, Prompt \o e.line)
      /\ Len(i.input) = Min({v.cols, Len(Prompt \o e.line)})
      /\ i.cursor \in 0 .. v.cols - 1
    BY InputIsFull DEF i
<1>3. CASE v.rows > 1
    BY <1>1, <1>2, <1>3, ShownIsFull DEF Full
<1>4. CASE ~(v.rows > 1)
    BY <1>1, <1>2, <1>4 DEF Full
<1> QED BY <1>3, <1>4

\* No row of the window stays blank while there is text for it, a reader at the end sees
\* the newest row, and the cursor stays inside the window beside the end of the line
\* (Console.cpp:471-543).
THEOREM WindowStaysFull == Spec => []WindowIsFull
<1>1. WindowIsFull <=> Full(drawn, edit, view)
    BY DEF WindowIsFull, Full
<1>2. Init /\ EditorInv /\ ViewInv => WindowIsFull
    BY <1>1, SafeIsInv, DrawingIsFull DEF Init, ViewInv
<1>3. WindowIsFull /\ EditorInv /\ ViewInv /\ [Next]_vars /\ EditorInv' /\ ViewInv' => WindowIsFull'
  <2> SUFFICES ASSUME WindowIsFull, EditorInv, ViewInv, [Next]_vars, EditorInv', ViewInv'
               PROVE  WindowIsFull'
      OBVIOUS
  <2>1. WindowIsFull' <=> Full(drawn', edit', view')
      BY DEF WindowIsFull, Full
  <2>2. CASE Draws
    <3>1. Safe(edit')
      <4>1. (EditorInv <=> Safe(edit))'
          BY SafeIsInv, PTL
      <4> QED BY <4>1 DEF Safe
    <3>2. Current(view') /\ Within(view')
        BY DEF ViewInv, Current, Matching, Cut, Within, MaxOffset, OutputRows
    <3>3. drawn' = Drawing(edit', view')
        BY <2>2 DEF Draws
    <3> QED BY <2>1, <3>1, <3>2, <3>3, DrawingIsFull
  <2>3. CASE drawn' = drawn /\ view' = view /\ edit'.line = edit.line
    <3>1. Full(drawn, edit, view)
        BY <1>1
    <3> QED BY <2>1, <2>3, <3>1 DEF Full
  <2>4. CASE GoEnd
    <3>1. drawn' = drawn /\ view' = view /\ edit' = SetCaret(edit, Len(edit.line))
        BY <2>4 DEF GoEnd, Edit, End, SetCaret
    <3>2. edit'.line = edit.line
      <4>1. edit \in Editors
          BY SafeIsInv DEF Safe
      <4> QED BY <3>1, <4>1 DEF SetCaret, Editors
    <3> QED BY <2>3, <3>1, <3>2
  <2>5. CASE Scroll
    <3>1. CASE view.rows > 1
        BY <2>2, <2>5, <3>1 DEF Scroll
    <3>2. CASE ~(view.rows > 1)
      <4>1. view.rows \in Nat
          BY MatchingFacts DEF ViewInv, Current
      <4>2. view' = view
          BY <2>5, <3>2, <4>1 DEF Scroll, AdjustScroll
      <4>3. drawn' = drawn /\ edit' = edit
          BY <2>5, <3>2 DEF Scroll
      <4> QED BY <2>3, <4>2, <4>3
    <3> QED BY <3>1, <3>2
  <2>6. CASE Type \/ Move \/ Browse \/ Enter \/ Resize \/ \E chunks \in Queued : Drain(chunks)
      BY <2>2, <2>6 DEF Type, Move, Browse, Enter, Resize, Drain
  <2>7. CASE UNCHANGED vars
      BY <2>3, <2>7 DEF vars
  <2> QED BY <2>4, <2>5, <2>6, <2>7 DEF Next
<1> QED BY <1>2, <1>3, EditorInvAlways, ViewInvAlways, PTL DEF Spec
-----------------------------------------------------------------------------
(* The draft.                                                               *)

\* A step that leaves the place in the history and the draft as they are.
LEMMA KeepsTheDraft ==
  ASSUME NEW e, Safe(e)
  PROVE  /\ Back(e).index = e.index /\ Back(e).draft = e.draft
         /\ Delete(e).index = e.index /\ Delete(e).draft = e.draft
         /\ Left(e).index = e.index /\ Left(e).draft = e.draft
         /\ Right(e).index = e.index /\ Right(e).draft = e.draft
         /\ Home(e).index = e.index /\ Home(e).draft = e.draft
         /\ End(e).index = e.index /\ End(e).draft = e.draft
         /\ \A char : Insert(e, char).index = e.index /\ Insert(e, char).draft = e.draft
<1>1. e \in Editors
    BY Fields
<1> QED BY <1>1 DEF Back, Delete, Left, Right, Home, End, Insert, Editors

\* A command looked up in the history is shown at its place; the draft stays.
LEMMA RecalledKeeps ==
  ASSUME NEW e \in Editors, NEW k
  PROVE  Recalled(e, k).index = k /\ Recalled(e, k).draft = e.draft
  BY DEF Recalled, Editors

\* The first step back keeps the line as the draft, and the others keep that draft.
LEMMA UpKeeps ==
  ASSUME NEW e, Safe(e)
  PROVE  /\ e.index = NoIndex /\ Up(e).index # NoIndex => Up(e).draft = e.line
         /\ e.index # NoIndex => Up(e).index # NoIndex /\ Up(e).draft = e.draft
<1>1. CASE e.history = <<>>
  <2>1. Up(e) = e /\ Len(e.history) = 0
      BY <1>1 DEF Up
  <2>2. e.index = NoIndex
      BY <2>1, Fields, NotAnIndex
  <2> QED BY <2>1, <2>2
<1>2. CASE e.history # <<>> /\ e.index = NoIndex
  <2> DEFINE d == SetDraft(e, e.line)
  <2>1. d \in Editors /\ d.draft = e.line
    <3>1. e \in Editors /\ e.line \in Seq(Chars)
        BY Fields
    <3> DEFINE l == e.line
    <3>2. l \in Seq(Chars)
        BY <3>1
    <3> HIDE DEF l
    <3>3. SetDraft(e, l) \in Editors /\ SetDraft(e, l).draft = l
        BY <3>1, <3>2 DEF SetDraft, Editors
    <3> QED BY <3>3 DEF l
  <2>2. Up(e) = Recalled(d, Len(e.history) - 1)
      BY <1>2 DEF Up, SetDraft
  <2> HIDE DEF d
  <2>3. Up(e).draft = e.line
      BY <2>1, <2>2, RecalledKeeps
  <2> QED BY <1>2, <2>3
<1>3. CASE e.history # <<>> /\ e.index # NoIndex
  <2> DEFINE k == IF e.index > 0 THEN e.index - 1 ELSE 0
  <2>1. k \in Nat
      BY <1>3, Fields, NotAnIndex
  <2>2. Up(e) = Recalled(e, k)
      BY <1>3 DEF Up
  <2> HIDE DEF k
  <2>3. Up(e).index = k /\ Up(e).draft = e.draft
      BY <2>2, Fields, RecalledKeeps
  <2> QED BY <1>3, <2>1, <2>3, NotAnIndex
<1> QED BY <1>1, <1>2, <1>3

\* A step forward keeps the draft, and past the newest command shows it.
LEMMA DownKeeps ==
  ASSUME NEW e, Safe(e)
  PROVE  /\ e.index = NoIndex => Down(e).index = NoIndex
         /\ e.index # NoIndex /\ Down(e).index # NoIndex => Down(e).draft = e.draft
         /\ e.index # NoIndex /\ Down(e).index = NoIndex => Down(e).line = e.draft
<1>1. CASE e.index = NoIndex
    BY <1>1 DEF Down
<1>2. CASE e.index # NoIndex /\ e.index + 1 < Len(e.history)
  <2> DEFINE k == e.index + 1
  <2>1. k \in Nat
      BY <1>2, Fields, NotAnIndex
  <2>2. Down(e) = Recalled(e, k)
      BY <1>2 DEF Down
  <2> HIDE DEF k
  <2>3. Down(e).index = k /\ Down(e).draft = e.draft
      BY <2>2, Fields, RecalledKeeps
  <2> QED BY <1>2, <2>1, <2>3, NotAnIndex
<1>3. CASE e.index # NoIndex /\ ~(e.index + 1 < Len(e.history))
  <2>1. Down(e) = [e EXCEPT !.index = NoIndex, !.line = e.draft, !.caret = Len(e.draft)]
      BY <1>3 DEF Down
  <2>2. Down(e).index = NoIndex /\ Down(e).line = e.draft
      BY <2>1, Fields DEF Editors
  <2> QED BY <1>3, <2>2
<1> QED BY <1>1, <1>2, <1>3

\* Past the newest command stands again what was being typed when browsing began
\* (Console.cpp:354-398).
THEOREM DraftAlwaysComesBack == Spec => DraftComesBack
<1> DEFINE Kept ==
      /\ edit.index = NoIndex /\ edit'.index # NoIndex => edit'.draft = edit.line
      /\ edit.index # NoIndex /\ edit'.index # NoIndex => edit'.draft = edit.draft
      /\ edit.index # NoIndex /\ edit'.index = NoIndex => edit'.line = edit.draft \/ Enter
<1>1. EditorInv /\ [Next]_vars => [Kept]_vars
  <2> SUFFICES ASSUME Safe(edit), Next PROVE Kept
      BY SafeIsInv
  <2>1. CASE edit' = edit
      BY <2>1
  <2>2. CASE edit'.index = edit.index /\ edit'.draft = edit.draft
      BY <2>2
  <2>3. CASE Type \/ Move \/ GoEnd
      BY <2>2, <2>3, KeepsTheDraft DEF Type, Move, GoEnd, Edit
  <2>4. CASE Browse
    <3>1. edit' = Up(edit) \/ edit' = Down(edit)
        BY <2>4 DEF Browse, Edit
    <3>2. CASE edit' = Up(edit)
        BY <3>2, UpKeeps
    <3>3. CASE edit' = Down(edit)
        BY <3>3, DownKeeps
    <3> QED BY <3>1, <3>2, <3>3
  <2>5. CASE Enter
    <3>1. edit'.index = NoIndex
        BY <2>5 DEF Enter, Return, EmptyLine
    <3> QED BY <2>5, <3>1
  <2>6. CASE Scroll \/ Resize \/ \E chunks \in Queued : Drain(chunks)
      BY <2>1, <2>6 DEF Scroll, Resize, Drain
  <2> QED BY <2>3, <2>4, <2>5, <2>6 DEF Next
<1> HIDE DEF Kept
<1>2. Spec => [][Kept]_vars
    BY <1>1, EditorInvAlways, PTL DEF Spec
<1> QED BY <1>2 DEF Kept, DraftComesBack

-----------------------------------------------------------------------------
(* A reader's place.                                                        *)

\* New text leaves a reader who has scrolled up where he is, but for trimmed rows.
LEMMA DrainKeepsPlace ==
  ASSUME NEW v, Current(v), Within(v), v.follow = FALSE, v.rows > 1, MaxOffset(v) > 0,
         NEW chunks \in Seq(Seq(Letters)),
         NEW x, x = DrainOutputQueue(v, chunks),
         NEW trimmed,
         trimmed = Len(v.wrapped) + RowsOf(v, AllLines(chunks)) - Len(x.wrapped)
  PROVE  Start(x) + trimmed - Start(v) \in 0 .. trimmed
<1> DEFINE lines == AllLines(chunks)
           n == Appended(v, lines)
           added == RowsOf(v, lines)
           removed == Len(v.wrapped) + added - Len(n.wrapped)
           o == Max({0, v.offset + added - removed})
           w == Elsewhere(n, o, n.follow \/ o = 0)
           p == Len(v.wrapped)  q == Len(n.wrapped)  r == v.rows - 1
<1>1. lines \in Seq(Seq(Letters))
    BY AllLinesType
<1>2. Current(n) /\ SamePlace(n, v) /\ Len(n.wrapped) <= Len(v.wrapped) + added
  <2> HIDE DEF lines
  <2> QED BY <1>1, AppendedKeeps
<1>3. added \in Nat
  <2> HIDE DEF lines
  <2>1. v.cols \in Nat \ {0}
      BY MatchingFacts DEF Current
  <2> QED BY <1>1, <2>1, RowsOfType
<1>4. x = Clamped(w)
    BY DEF DrainOutputQueue, Moved, Elsewhere, SamePlace
<1> HIDE DEF lines, n, added
<1>5. /\ v.offset \in Nat /\ p \in Nat /\ q \in Nat /\ r \in Nat /\ r >= 1
      /\ n.rows = v.rows /\ n.follow = FALSE /\ v.rows \in Nat
    BY <1>2, MatchingFacts DEF Current, SamePlace
<1>6. p > r /\ MaxOffset(v) = p - r /\ v.offset <= p - r
  <2>1. MaxOffset(v) = IF p > r THEN p - r ELSE 0
      BY <1>5, MaxOffsetIs
  <2>2. v.offset <= MaxOffset(v)
      BY DEF Within
  <2>3. MaxOffset(v) > 0
      OBVIOUS
  <2> HIDE DEF p, r
  <2> QED BY <1>5, <2>1, <2>2, <2>3
<1>7. o = IF v.offset + q - p > 0 THEN v.offset + q - p ELSE 0
  <2> DEFINE b == v.offset + added - removed
  <2>1. b = v.offset + q - p
    <3>1. removed = p + added - q
        OBVIOUS
    <3> HIDE DEF p, q, removed
    <3> QED BY <1>3, <1>5, <3>1
  <2> HIDE DEF p, q, r, removed
  <2>2. b \in Int
      BY <1>5, <2>1
  <2> HIDE DEF b
  <2>3. Max({0, b}) = IF 0 >= b THEN 0 ELSE b
      BY <2>2, MaxOfTwo
  <2>4. o = Max({0, b})
      BY DEF b
  <2> HIDE DEF o
  <2>5. CASE v.offset + q - p > 0
      BY <2>1, <2>2, <2>3, <2>4, <2>5
  <2>6. CASE ~(v.offset + q - p > 0)
      BY <2>1, <2>2, <2>3, <2>4, <2>6
  <2> QED BY <2>5, <2>6
<1> HIDE DEF o, removed
<1>8. o \in Nat
  <2> HIDE DEF p, q
  <2> QED BY <1>5, <1>7
<1>9. /\ Current(w) /\ w.wrapped = n.wrapped /\ w.rows = v.rows /\ w.offset = o
      /\ o = 0 => w.follow = TRUE
      /\ o # 0 => w.follow = FALSE
  <2>1. \A f \in BOOLEAN : \A y : y = Elsewhere(n, o, f) =>
          /\ Current(y) /\ y.wrapped = n.wrapped /\ y.rows = n.rows /\ y.offset = o
          /\ y.follow = f
    <3> SUFFICES ASSUME NEW f \in BOOLEAN, NEW y, y = Elsewhere(n, o, f)
                 PROVE  /\ Current(y) /\ y.wrapped = n.wrapped /\ y.rows = n.rows
                        /\ y.offset = o /\ y.follow = f
        OBVIOUS
    <3>1. n \in Views
        BY <1>2 DEF Current, Matching
    <3>2. y.wrapped = n.wrapped /\ y.rows = n.rows /\ y.offset = o
        BY <3>1 DEF Elsewhere, Views
    <3>3. y.follow = f
        BY <3>1 DEF Elsewhere, Views
    <3>4. Current(Elsewhere(n, o, f))
        BY <1>2, <1>8, ElsewhereKeeps
    <3> QED BY <3>2, <3>3, <3>4
  <2>2. CASE o = 0
    <3>1. w = Elsewhere(n, o, TRUE)
      <4>1. (n.follow \/ o = 0) = TRUE
          BY <2>2
      <4> QED BY <4>1
    <3> HIDE DEF w
    <3> QED BY <1>5, <2>1, <2>2, <3>1
  <2>3. CASE o # 0
    <3>1. w = Elsewhere(n, o, FALSE)
      <4>1. (n.follow \/ o = 0) = FALSE
          BY <1>5, <2>3
      <4> QED BY <4>1
    <3> HIDE DEF w
    <3> QED BY <1>5, <2>1, <2>3, <3>1
  <2> QED BY <2>2, <2>3
<1> HIDE DEF w
<1>10. MaxOffset(w) = IF q > r THEN q - r ELSE 0
  <2>1. Len(w.wrapped) = q /\ w.rows = v.rows
      BY <1>9
  <2> HIDE DEF q
  <2> QED BY <1>5, <2>1, MaxOffsetIs
<1> DEFINE o2 == IF w.follow THEN 0 ELSE Min({w.offset, MaxOffset(w)})
<1>11. /\ x.wrapped = w.wrapped /\ x.rows = w.rows /\ x.offset = o2
  <2>1. ~(w.rows <= 1)
      BY <1>5, <1>9
  <2>2. x = [w EXCEPT !.offset = o2]
      BY <1>4, <2>1 DEF Clamped, Views, Current, Matching
  <2>3. w \in Views
      BY <1>9 DEF Current, Matching
  <2> HIDE DEF o2
  <2> QED BY <2>2, <2>3 DEF Views
<1>12. MaxOffset(x) = MaxOffset(w) /\ Len(x.wrapped) = q
    BY <1>9, <1>11 DEF MaxOffset, OutputRows
<1>13. trimmed = p + added - q /\ trimmed \in Nat
  <2>1. Len(x.wrapped) = q /\ q <= p + added
      BY <1>2, <1>12
  <2>2. trimmed = p + added - q
      BY <2>1 DEF added, lines
  <2> HIDE DEF p, q
  <2> QED BY <1>3, <1>5, <2>1, <2>2
<1>14. Start(v) = p - r - v.offset
  <2>1. Start(v) = MaxOffset(v) - v.offset
      BY DEF Start
  <2> QED BY <1>6, <2>1
<1>15. CASE o > 0
  <2>1. o = v.offset + q - p /\ q > r /\ o <= q - r
    <3> HIDE DEF p, q, r
    <3> QED BY <1>5, <1>6, <1>7, <1>15
  <2>2. x.offset = o
    <3>1. w.follow = FALSE
      <4>1. o # 0
          BY <1>8, <1>15
      <4> QED BY <1>9, <4>1
    <3>2. MaxOffset(w) = q - r /\ w.offset = o
        BY <1>9, <1>10, <2>1
    <3> DEFINE b == q - r
    <3>3. b \in Int /\ o <= b
      <4> HIDE DEF q, r
      <4> QED BY <1>5, <2>1
    <3> HIDE DEF b
    <3>4. Min({o, b}) = o
        BY <1>8, <3>3, MinOfTwo
    <3> QED BY <1>11, <3>1, <3>2, <3>4 DEF b
  <2>3. Start(x) = q - r - o
    <3>1. MaxOffset(x) = q - r
        BY <1>10, <1>12, <2>1
    <3> HIDE DEF p, q, r
    <3> QED BY <1>5, <2>1, <2>2, <3>1 DEF Start
  <2>4. Start(x) = Start(v)
    <3> HIDE DEF p, q, r
    <3> QED BY <1>5, <1>14, <2>1, <2>3
  <2>5. Start(v) \in Int
    <3> HIDE DEF p, q, r
    <3> QED BY <1>5, <1>14
  <2> QED BY <1>13, <2>4, <2>5
<1>16. CASE o = 0
  <2>1. v.offset + q - p <= 0
    <3> HIDE DEF p, q, r
    <3> QED BY <1>5, <1>7, <1>16
  <2>2. x.offset = 0
    <3>1. w.follow = TRUE
        BY <1>9, <1>16
    <3> QED BY <1>11, <3>1
  <2>3. Start(x) = IF q > r THEN q - r ELSE 0
    <3> HIDE DEF p, q, r
    <3> QED BY <1>5, <1>10, <1>12, <2>2 DEF Start
  <2> HIDE DEF p, q, r
  <2>4. Start(x) <= Start(v) /\ Start(x) \in Nat /\ Start(v) \in Nat
      BY <1>5, <1>6, <1>14, <2>1, <2>3
  <2>5. Start(x) + trimmed >= Start(v)
      BY <1>3, <1>5, <1>13, <1>14, <2>3
  <2> QED BY <1>13, <2>4, <2>5
<1> QED BY <1>8, <1>15, <1>16

\* New text does not move the rows a reader has scrolled up to, by more than what is
\* trimmed for it (Console.cpp:453-464).
THEOREM ReaderAlwaysKeepsPlace == Spec => ReaderKeepsPlace
<1> DEFINE Kept ==
      ~view.follow /\ view.rows > 1 /\ MaxOffset(view) > 0 =>
        \A chunks \in Queued : Drain(chunks) =>
          LET added   == RowsOf(view, AllLines(chunks))
              trimmed == Len(view.wrapped) + added - Len(view'.wrapped)
              moved   == Start(view') + trimmed - Start(view)
          IN  moved \in 0 .. trimmed
<1>1. ViewInv => [Kept]_vars
  <2> SUFFICES ASSUME ViewInv, ~view.follow, view.rows > 1, MaxOffset(view) > 0,
                      NEW chunks \in Queued, Drain(chunks),
                      NEW trimmed,
                      trimmed = Len(view.wrapped) + RowsOf(view, AllLines(chunks))
                                - Len(view'.wrapped)
               PROVE  Start(view') + trimmed - Start(view) \in 0 .. trimmed
      OBVIOUS
  <2>1. view' = DrainOutputQueue(view, chunks)
      BY DEF Drain
  <2>2. chunks \in Seq(Seq(Letters))
      BY QueuedType
  <2>3. Current(view) /\ Within(view) /\ view.follow = FALSE
      BY MatchingFacts DEF ViewInv, Current
  <2> QED BY <2>1, <2>2, <2>3, DrainKeepsPlace
<1> HIDE DEF Kept
<1>2. Spec => [][Kept]_vars
    BY <1>1, ViewInvAlways, PTL DEF Spec
<1> QED BY <1>2 DEF Kept, ReaderKeepsPlace

=============================================================================
