------------------------------ MODULE NetPack ------------------------------
(***************************************************************************)
(* A message of the wire (src/Net/NetPack.cpp).  Its content is kept as the *)
(* fields written after the four bytes of the header, each with its width   *)
(* in bytes and its value.  What is left to read is the sequence of fields  *)
(* after the read position.  A field read with another width than it was    *)
(* written with gives bytes that mean nothing, and all that follows is out  *)
(* of step.                                                                 *)
(***************************************************************************)
EXTENDS Integers, Sequences, Vectors

NET_PACK_MAX_LEN == 4096

\* Bytes of no field.  No value the program writes is equal to it.
Garbage == -1000000

Bytes(fields) == SumSeq([k \in DOMAIN fields |-> fields[k].width])

Fits(fields, bytes) == 4 + Bytes(fields) + bytes <= NET_PACK_MAX_LEN

-----------------------------------------------------------------------------
(* Writing.  A field that does not fit is left out, with a message, and the  *)
(* next one is tried again.                                                 *)

Write(fields, width, value) ==
  IF Fits(fields, width)
  THEN Append(fields, [width |-> width, value |-> value]) ELSE fields

\* A text with the NUL that ends it, which is sent, and kept by the string read.
Terminated(text) == <<text, "NUL">>

\* The number of bytes goes before a string and counts the NUL.
WriteString(fields, text, length) ==
  LET bytes == length + 1
  IN  IF bytes <= 65535 /\ Fits(fields, 2 + bytes)
      THEN Write(Write(fields, 2, bytes), bytes, Terminated(text)) ELSE fields

\* A row of fields, given as pairs of width and value.
WriteRow(fields, row) ==
  LET written == Vector([k \in DOMAIN row |-> [width |-> row[k][1], value |-> row[k][2]]])
      upTo[k \in 0..Len(row)] ==
        IF k = 0 THEN fields ELSE Write(upTo[k - 1], row[k][1], row[k][2])
  IN  IF Fits(fields, Bytes(written)) THEN fields \o written ELSE upTo[Len(row)]

-----------------------------------------------------------------------------
(* Reading: the value read and the fields left.                             *)

\* What is left when bytes have been read across the bounds of the fields.
Cut(fields, width) ==
  LET end(k) == Bytes(SubSeq(fields, 1, k))
      k == CHOOSE n \in DOMAIN fields : end(n) >= width /\ end(n - 1) < width
      torn == IF end(k) = width THEN <<>>
              ELSE <<[width |-> end(k) - width, value |-> Garbage]>>
  IN  torn \o SubSeq(fields, k + 1, Len(fields))

\* A read beyond the end gives 0 and does not move.
Read(fields, width) ==
  IF fields # <<>> /\ Head(fields).width = width
  THEN [value |-> Head(fields).value, rest |-> Tail(fields)]
  ELSE IF Bytes(fields) < width THEN [value |-> 0, rest |-> fields]
       ELSE [value |-> Garbage, rest |-> Cut(fields, width)]

\* The length that was read decides how many bytes the string takes.  A length that
\* means nothing is taken for one that is not there.
ReadString(fields) ==
  LET text(length) ==
        IF length.value <= 0 \/ Bytes(length.rest) < length.value
        THEN [value |-> "", rest |-> length.rest]
        ELSE Read(length.rest, length.value)
  IN  text(Read(fields, 2))

\* What has been read and is left, with one item more.
Taking(done, one) == [values |-> Append(done.values, one.value), rest |-> one.rest]

\* Scalars read one after the other.
ReadRow(fields, widths) ==
  LET n      == Len(widths)
      inStep == Len(fields) >= n /\ \A k \in 1..n : fields[k].width = widths[k]
      next(done, width) == Taking(done, Read(done.rest, width))
      upTo[k \in 0..n] ==
        IF k = 0 THEN [values |-> <<>>, rest |-> fields]
        ELSE next(upTo[k - 1], widths[k])
  IN  IF inStep THEN [values |-> [k \in 1..n |-> fields[k].value],
                      rest   |-> SubSeq(fields, n + 1, Len(fields))]
      ELSE upTo[n]

\* A count of one byte and that many items, each read by Item.
ReadList(fields, Item(_)) ==
  LET next(done) == Taking(done, Item(done.rest))
      items(count) ==
        LET upTo[k \in 0..count.value] ==
              IF k = 0 THEN [values |-> <<>>, rest |-> count.rest]
              ELSE next(upTo[k - 1])
        IN  upTo[count.value]
  IN  items(Read(fields, 1))

=============================================================================
