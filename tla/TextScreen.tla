------------------------------- MODULE TextScreen -------------------------------
(***************************************************************************)
(* common/ui/text_screen: the character screen and its change marks.  A     *)
(* screen is a record: the contents of its cells, the set of marked cells   *)
(* (the bits of dirty), and the colour of the following writes.  Foreground  *)
(* and background are one colour here: they are set and compared together.   *)
(***************************************************************************)
EXTENDS Integers, Sequences

CONSTANTS
    Rows, Cols,     \* RJS_TS_ROWS and RJS_TS_COLS
    ColumnModulus   \* columns are computed modulo this (uint8_t: 256)

ASSUME ScreenAssumption ==
    /\ Rows \in Nat \ {0} /\ Cols \in Nat \ {0}
    /\ ColumnModulus \in Nat /\ Cols <= ColumnModulus

Cells == (0 .. Rows - 1) \X (0 .. Cols - 1)
Space == " "

\* rjs_ts_init
Cleared(colour) ==
    [cell |-> [p \in Cells |-> <<Space, colour>>], dirty |-> Cells, colour |-> colour]

SetColours(s, colour) == [s EXCEPT !.colour = colour]

\* put_char for a set of cells at once: text maps positions to characters.  Positions
\* off the screen are ignored, and only a cell that changes is marked.  The mutant
\* sets the marks instead of adding to them.
Changed(s, text) ==
    {p \in (DOMAIN text) \intersect Cells : s.cell[p] # <<text[p], s.colour>>}
Written(s, text) ==
    [p \in Cells |-> IF p \in Changed(s, text) THEN <<text[p], s.colour>> ELSE s.cell[p]]
PutOverwriting(s, text) ==
    [s EXCEPT !.cell = Written(s, text), !.dirty = Changed(s, text)]
Put(s, text) ==
    [s EXCEPT !.cell = Written(s, text), !.dirty = @ \union Changed(s, text)]

\* rjs_ts_print: the text is cut off at the right edge.
PrintText(s, row, col, str) ==
    Put(s, [p \in {q \in {row} \X (col .. Cols - 1) : q[2] - col < Len(str)} |->
               str[p[2] - col + 1]])

\* rjs_ts_print_line: the rest of the row is padded.
PrintLine(s, row, col, str) ==
    Put(s, [p \in {row} \X (col .. Cols - 1) |->
               IF p[2] - col < Len(str) THEN str[p[2] - col + 1] ELSE Space])

\* rjs_ts_bar.  A column past 255 wraps around to the left edge.
Filled(width, permille) ==
    (width * (IF permille > 1000 THEN 1000 ELSE permille) + 500) \div 1000
Bar(s, row, col, width, permille) ==
    LET at(i) == <<row, (col + i) % ColumnModulus>>
    IN  Put(s, [p \in {at(i) : i \in 0 .. width - 1} |->
                   IF \E i \in 0 .. width - 1 : at(i) = p /\ i < Filled(width, permille)
                   THEN "#" ELSE "."])

ClearRow(s, row) == Put(s, [p \in {row} \X (0 .. Cols - 1) |-> Space])

MarkAllDirty(s) == [s EXCEPT !.dirty = Cells]

\* rjs_ts_flush takes the marks of a row before it draws its cells.  The mutant takes
\* the marks of all rows.
MarksOfAll(s, row) == s.dirty
MarksOf(s, row) == {p \in s.dirty : p[1] = row}
WithoutMarks(s, row) == [s EXCEPT !.dirty = {p \in @ : p[1] # row}]
================================================================================
