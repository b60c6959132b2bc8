----------------------------- MODULE DisplayProofs -----------------------------
(* Theorems about Display, for every size of the screen, set of colours and of strings. *)
EXTENDS Display, TLAPS

--------------------------------------------------------------------------------
(* The text screen *)

Chars == {Space, "#", "."}

LEMMA CellFacts ==
    /\ Rows \in Nat \ {0} /\ Cols \in Nat \ {0}
    /\ \A p \in Cells : /\ p = <<p[1], p[2]>> /\ p[1] \in 0 .. Rows - 1 /\ p[2] \in 0 .. Cols - 1
                        /\ p[1] \in Int /\ p[2] \in Int
    /\ Home \in Cells
BY ScreenAssumption DEF Cells, Home

\* Writing to a screen keeps all marks, and marks each cell that it changes.
MarksChanges(s, t) ==
    /\ t \in Screens /\ s.dirty \subseteq t.dirty
    /\ \A p \in Cells : p \in t.dirty \/ t.cell[p] = s.cell[p]

LEMMA PutFacts ==
    ASSUME NEW s \in Screens, NEW text, \A p \in (DOMAIN text) \intersect Cells : text[p] \in Chars
    PROVE  MarksChanges(s, Put(s, text))
<1>1. s.cell \in [Cells -> Contents] /\ s.dirty \subseteq Cells /\ s.colour \in Colours
  BY DEF Screens
<1>2. \A p \in Changed(s, text) : p \in Cells /\ <<text[p], s.colour>> \in Contents
  BY <1>1 DEF Changed, Contents, Chars
<1>3. Written(s, text) \in [Cells -> Contents] BY <1>1, <1>2 DEF Written
<1>4. \A p \in Cells : p \in Changed(s, text) \/ Written(s, text)[p] = s.cell[p] BY DEF Written
<1>5. /\ Put(s, text).cell = Written(s, text) /\ Put(s, text).colour = s.colour
      /\ Put(s, text).dirty = s.dirty \union Changed(s, text)
      /\ Put(s, text) \in Screens
  BY <1>1, <1>2, <1>3 DEF Put, Screens
<1> QED BY <1>4, <1>5 DEF MarksChanges

LEMMA ClearedFacts ==
    ASSUME NEW c \in Colours
    PROVE  Cleared(c) \in Screens /\ Cleared(c).dirty = Cells
BY DEF Cleared, Screens, Contents

\* What render may do to the screen marks each cell that it changes.
LEMMA RenderedFacts ==
    ASSUME NEW s \in Screens, NEW c \in Colours, NEW t \in Rendered(SetColours(s, c))
    PROVE  MarksChanges(s, t)
<1> DEFINE u == SetColours(s, c)
           lines == (0 .. Rows - 1) \ {BarRow}
<1>1. u \in Screens /\ u.cell = s.cell /\ u.dirty = s.dirty BY DEF SetColours, Screens
<1> HIDE DEF u
<1>2. ASSUME NEW r \in lines, NEW str \in Strings PROVE MarksChanges(u, PrintLine(u, r, 0, str))
  <2> DEFINE text == [p \in {r} \X (0 .. Cols - 1) |->
                        IF p[2] - 0 < Len(str) THEN str[p[2] - 0 + 1] ELSE Space]
  <2>1. str \in Seq(Chars) BY DisplayAssumption DEF Chars
  <2>2. ASSUME NEW p \in {r} \X (0 .. Cols - 1) PROVE text[p] \in Chars
    <3>1. p[2] \in 0 .. Cols - 1 OBVIOUS
    <3>2. CASE p[2] - 0 < Len(str)
      <4>1. text[p] = str[p[2] - 0 + 1] BY <3>2
      <4>2. p[2] - 0 + 1 \in 1 .. Len(str) BY <2>1, <3>1, <3>2, CellFacts
      <4> QED BY <2>1, <4>1, <4>2
    <3>3. CASE ~(p[2] - 0 < Len(str)) BY <3>3 DEF Chars
    <3> QED BY <3>2, <3>3
  <2>3. \A p \in (DOMAIN text) \intersect Cells : text[p] \in Chars BY <2>2
  <2>4. PrintLine(u, r, 0, str) = Put(u, text) BY DEF PrintLine
  <2> HIDE DEF text
  <2> QED BY <1>1, <2>3, <2>4, PutFacts
<1>3. ASSUME NEW r \in lines PROVE MarksChanges(u, ClearRow(u, r))
  <2> DEFINE text == [p \in {r} \X (0 .. Cols - 1) |-> Space]
  <2>1. \A p \in (DOMAIN text) \intersect Cells : text[p] \in Chars BY DEF Chars
  <2>2. ClearRow(u, r) = Put(u, text) BY DEF ClearRow
  <2> HIDE DEF text
  <2> QED BY <1>1, <2>1, <2>2, PutFacts
<1>4. ASSUME NEW m \in {0, 500, 1000} PROVE MarksChanges(u, Bar(u, BarRow, 0, Cols, m))
  <2> DEFINE at(i) == <<BarRow, (0 + i) % ColumnModulus>>
             text == [p \in {at(i) : i \in 0 .. Cols - 1} |->
                        IF \E i \in 0 .. Cols - 1 : at(i) = p /\ i < Filled(Cols, m)
                        THEN "#" ELSE "."]
  <2>1. \A p \in (DOMAIN text) \intersect Cells : text[p] \in Chars BY DEF Chars
  <2>2. Bar(u, BarRow, 0, Cols, m) = Put(u, text) BY DEF Bar
  <2> HIDE DEF text
  <2> QED BY <1>1, <2>1, <2>2, PutFacts
<1>5. MarksChanges(u, t)
  <2>1. t \in {PrintLine(u, r, 0, str) : r \in lines, str \in Strings}
              \union {ClearRow(u, r) : r \in lines}
              \union {Bar(u, BarRow, 0, Cols, m) : m \in {0, 500, 1000}}
    BY DEF Rendered, u
  <2> QED BY <1>2, <1>3, <1>4, <2>1
<1> QED BY <1>1, <1>5 DEF MarksChanges

--------------------------------------------------------------------------------
(* Transfers *)

LEMMA TransferFacts ==
    ASSUME NEW ps \in SUBSET Cells, NEW c \in Shown
    PROVE  /\ Transfer(ps, c) \in Transfers /\ Transfer(ps, c).busy /\ Transfer(ps, c).intact
           /\ Transfer(ps, c).cells = ps /\ Transfer(ps, c).content = c
BY DEF Transfer, Transfers

\* Cutting a transfer leaves none that is busy and intact, and all else as it is.
LEMMA CutFacts ==
    ASSUME dma = Idle \/ dma \in Transfers
    PROVE  /\ Cut(dma) = Idle \/ Cut(dma) \in Transfers
           /\ Cut(dma).busy = dma.busy
           /\ dma.busy => Cut(dma).cells = dma.cells /\ ~Cut(dma).intact
           /\ ~dma.busy => Cut(dma) = Idle /\ dma = Idle
<1>1. CASE dma = Idle BY <1>1 DEF Cut, Idle
<1>2. CASE dma \in Transfers
  <2>1. dma.busy BY <1>2 DEF Transfers
  <2>2. Cut(dma) = [dma EXCEPT !.intact = FALSE] BY <2>1 DEF Cut
  <2> QED BY <1>2, <2>1, <2>2 DEF Transfers
<1> QED BY <1>1, <1>2

--------------------------------------------------------------------------------
(* Initial states and steps *)

LEMMA InitIInv == Init => IInv
<1> SUFFICES ASSUME Init PROVE IInv OBVIOUS
<1>1. PICK c \in Colours : screen = Cleared(c) BY DEF Init
<1>2. screen \in Screens /\ screen.dirty = Cells BY <1>1, ClearedFacts
<1>3. 0 \in 0 .. Rows /\ 0 < Rows BY CellFacts
<1>4. TypeOK
  <2>1. panel \in [Cells -> Shown]
    <3>1. panel = [p \in Cells |-> Garbage] BY DEF Init
    <3>2. Garbage \in Shown BY DEF Shown
    <3> QED BY <3>1, <3>2
  <2>2. cell \in Cells /\ window \in Cells BY CellFacts DEF Init
  <2>3. row \in 0 .. Rows /\ bits \subseteq {p \in Cells : p[1] = row} BY <1>3 DEF Init
  <2>4. ui = "init" /\ dma = Idle /\ spoilt = {} BY DEF Init
  <2>5. filled \in BOOLEAN /\ done \in BOOLEAN /\ raced \in BOOLEAN BY DEF Init
  <2> QED BY <1>2, <2>1, <2>2, <2>3, <2>4, <2>5 DEF TypeOK
<1>5. ~dma.busy BY DEF Init, Idle
<1>6. Stages /\ Truthful /\ ShownOrMarked /\ OneTransferAtATime
  BY <1>2, <1>3, <1>5 DEF Init, Stages, Truthful, ShownOrMarked, Pending, OneTransferAtATime
<1> QED BY <1>4, <1>6 DEF IInv

LEMMA InitStep ==
    ASSUME IInv, InitFails \/ InitSucceeds \/ Deleted
    PROVE  IInv'
<1>1. UNCHANGED <<screen, filled, row, bits, cell, window, dma, done, panel, spoilt, raced>>
  BY DEF InitFails, InitSucceeds, Deleted, shown, vars
<1>2. ui \in {"init", "deleted"} /\ ui' \in {"deleted", "fill"}
  BY DEF InitFails, InitSucceeds, Deleted, vars
<1>3. TypeOK' BY <1>1, <1>2 DEF IInv, TypeOK
<1>4. Stages' BY <1>1, <1>2 DEF IInv, Stages
<1>5. Truthful' BY <1>1, <1>2, <1>4 DEF IInv, Truthful, Stages
<1>6. ShownOrMarked' BY <1>1, <1>2, <1>4 DEF IInv, ShownOrMarked, Pending, Stages
<1>7. OneTransferAtATime' BY <1>1, <1>2 DEF IInv, OneTransferAtATime
<1> QED BY <1>3, <1>4, <1>5, <1>6, <1>7 DEF IInv

LEMMA FillRowStep ==
    ASSUME IInv, FillRow
    PROVE  IInv'
<1>1. /\ UNCHANGED <<screen, filled, bits, cell, window, done, panel, spoilt, raced>>
      /\ ui = "fill" /\ row < Rows
  BY DEF FillRow, shown
<1>2. ~filled /\ bits = {} /\ screen.dirty = Cells /\ row \in 0 .. Rows /\ Rows \in Nat
  BY <1>1, CellFacts DEF IInv, Stages, TypeOK
<1>3. ShownOrMarked' BY <1>1, <1>2 DEF ShownOrMarked, Pending
<1>4. CASE dma.busy
  <2>1. row' = row + 1 /\ ui' = ui /\ dma' = dma BY <1>4 DEF FillRow
  <2>2. row' \in 0 .. Rows BY <1>1, <1>2, <2>1
  <2>3. TypeOK' BY <1>1, <1>2, <2>1, <2>2 DEF IInv, TypeOK
  <2>4. Stages' BY <1>1, <1>2, <2>1 DEF IInv, Stages
  <2>5. Truthful' BY <1>1, <1>2, <2>1 DEF IInv, TypeOK, Truthful, Transfers, Idle
  <2>6. OneTransferAtATime' BY <1>1, <1>4, <2>1 DEF IInv, OneTransferAtATime
  <2> QED BY <1>3, <2>3, <2>4, <2>5, <2>6 DEF IInv
<1>5. CASE ~dma.busy
  <2>1. PICK r \in 0 .. row : dma' = Transfer({p \in Cells : p[1] = r}, Black)
    BY <1>5 DEF FillRow
  <2>2. row' = row /\ ui' = "wait" BY <1>5 DEF FillRow
  <2>3. Black \in Shown /\ {p \in Cells : p[1] = r} \in SUBSET Cells BY DEF Shown
  <2>4. /\ dma' \in Transfers /\ dma'.busy /\ dma'.intact
        /\ dma'.cells \subseteq Cells
    BY <2>1, <2>3, TransferFacts
  <2>5. TypeOK' BY <1>1, <2>2, <2>4 DEF IInv, TypeOK
  <2>6. Stages' BY <1>1, <1>2, <2>2 DEF IInv, Stages
  <2>7. Truthful' BY <1>1, <1>2, <2>4 DEF Truthful
  <2>8. OneTransferAtATime' BY <1>1, <2>2, <2>4 DEF IInv, OneTransferAtATime
  <2> QED BY <1>3, <2>5, <2>6, <2>7, <2>8 DEF IInv
<1> QED BY <1>4, <1>5

LEMMA FillEndsStep ==
    ASSUME IInv, FillEnds
    PROVE  IInv'
<1>1. /\ UNCHANGED <<bits, cell, window, done, panel, spoilt, raced>> /\ dma' = Cut(dma)
      /\ ui = "fill" /\ ui' = "render" /\ filled' = TRUE /\ row' = 0
  BY DEF FillEnds, shown
<1>2. PICK c \in Colours : screen' = Cleared(c) BY DEF FillEnds
<1>3. screen' \in Screens /\ screen'.dirty = Cells BY <1>2, ClearedFacts
<1>4. bits = {} /\ 0 < Rows /\ 0 \in 0 .. Rows BY <1>1, CellFacts DEF IInv, Stages
<1>5. /\ dma' = Idle \/ dma' \in Transfers
      /\ dma'.busy = dma.busy /\ (dma.busy => ~dma'.intact)
  BY <1>1, CutFacts DEF IInv, TypeOK
<1>6. TypeOK' BY <1>1, <1>3, <1>4, <1>5 DEF IInv, TypeOK
<1>7. Stages' BY <1>1, <1>3, <1>4 DEF Stages
<1>8. Truthful' BY <1>5 DEF Truthful
<1>9. ShownOrMarked' BY <1>3 DEF ShownOrMarked, Pending
<1>10. OneTransferAtATime' BY <1>1, <1>5 DEF IInv, OneTransferAtATime
<1> QED BY <1>6, <1>7, <1>8, <1>9, <1>10 DEF IInv

LEMMA RenderStep ==
    ASSUME IInv, Render
    PROVE  IInv'
<1>1. UNCHANGED <<ui, filled, row, bits, cell, window, dma, done, panel, spoilt, raced>>
      /\ ui = "render"
  BY DEF Render, task, shown
<1>2. screen \in Screens /\ filled BY <1>1 DEF IInv, TypeOK, Stages
<1>3. MarksChanges(screen, screen') BY <1>2, RenderedFacts DEF Render
<1>4. TypeOK' BY <1>1, <1>3 DEF IInv, TypeOK, MarksChanges
<1>5. Stages' BY <1>1, <1>2 DEF IInv, Stages
<1>6. Truthful' BY <1>1, <1>2 DEF IInv, Truthful
<1>7. ShownOrMarked' BY <1>1, <1>3 DEF IInv, ShownOrMarked, Pending, MarksChanges
<1>8. OneTransferAtATime' BY <1>1 DEF IInv, OneTransferAtATime
<1> QED BY <1>4, <1>5, <1>6, <1>7, <1>8 DEF IInv

\* The marks of a row become the cells to draw.
LEMMA TakeRow ==
    ASSUME NEW r, screen \in Screens,
           bits' = MarksOf(screen, r), screen' = WithoutMarks(screen, r)
    PROVE  /\ screen' \in Screens /\ screen'.cell = screen.cell
           /\ bits' \subseteq {p \in Cells : p[1] = r}
           /\ \A p \in screen.dirty : p \in screen'.dirty \/ p \in bits'
BY DEF MarksOf, WithoutMarks, Screens

LEMMA FlushStep ==
    ASSUME IInv, StartFlush \/ NextRow \/ Wakes
    PROVE  IInv'
<1>1. /\ UNCHANGED <<filled, cell, window, dma, done, panel, spoilt, raced>>
      /\ ui \in {"render", "flush", "asleep"} /\ ui' \in {"render", "flush", "asleep"}
  BY DEF StartFlush, NextRow, Wakes, shown
<1>2. filled /\ screen \in Screens /\ row \in 0 .. Rows /\ row < Rows /\ Rows \in Nat /\ 0 < Rows
  BY <1>1, CellFacts DEF IInv, TypeOK, Stages
<1>3. bits = {} BY DEF StartFlush, NextRow, Wakes, IInv, Stages
<1>4. /\ screen' \in Screens /\ screen'.cell = screen.cell
      /\ bits' \subseteq {p \in Cells : p[1] = row'}
      /\ \A p \in screen.dirty : p \in screen'.dirty \/ p \in bits'
      /\ row' \in 0 .. Rows /\ row' < Rows
      /\ ui' \in {"render", "asleep"} => bits' = {}
  <2>1. CASE StartFlush
    <3>1. /\ row' = 0 /\ ui' = "flush" /\ bits' = MarksOf(screen, 0)
          /\ screen' = WithoutMarks(screen, 0)
      BY <2>1 DEF StartFlush
    <3> QED BY <1>2, <3>1, TakeRow
  <2>2. CASE NextRow /\ row + 1 < Rows
    <3>1. /\ row' = row + 1 /\ ui' = "flush" /\ bits' = MarksOf(screen, row + 1)
          /\ screen' = WithoutMarks(screen, row + 1)
      BY <2>2 DEF NextRow
    <3>2. row' \in 0 .. Rows /\ row' < Rows BY <1>2, <2>2, <3>1
    <3> QED BY <1>2, <3>1, <3>2, TakeRow
  <2>3. CASE Wakes \/ (NextRow /\ ~(row + 1 < Rows))
    <3>1. UNCHANGED <<screen, row, bits>> BY <2>3 DEF Wakes, NextRow
    <3> QED BY <1>2, <1>3, <3>1
  <2> QED BY <2>1, <2>2, <2>3
<1>5. TypeOK' BY <1>1, <1>4 DEF IInv, TypeOK
<1>6. Stages' BY <1>1, <1>2, <1>4 DEF Stages
<1>7. Truthful' BY <1>1, <1>2 DEF IInv, Truthful
<1>8. ShownOrMarked' BY <1>1, <1>3, <1>4 DEF IInv, ShownOrMarked, Pending
<1>9. OneTransferAtATime' BY <1>1 DEF IInv, OneTransferAtATime
<1> QED BY <1>5, <1>6, <1>7, <1>8, <1>9 DEF IInv

LEMMA SetWindowStep ==
    ASSUME IInv, SetWindow
    PROVE  IInv'
<1>1. /\ UNCHANGED <<screen, filled, row, done, panel, spoilt, raced>> /\ dma' = Cut(dma)
      /\ ui = "flush" /\ ui' = "start"
  BY DEF SetWindow, shown
<1>2. PICK p \in bits : bits' = bits \ {p} /\ cell' = p BY DEF SetWindow
<1>3. p \in Cells /\ window' \in Cells /\ bits \subseteq {q \in Cells : q[1] = row}
  BY DEF SetWindow, IInv, TypeOK
<1>4. /\ dma' = Idle \/ dma' \in Transfers
      /\ dma'.busy = dma.busy
      /\ dma.busy => dma'.cells = dma.cells /\ ~dma'.intact
  BY <1>1, CutFacts DEF IInv, TypeOK
<1>5. TypeOK' BY <1>1, <1>2, <1>3, <1>4 DEF IInv, TypeOK
<1>6. Stages' BY <1>1, <1>2 DEF IInv, Stages
<1>7. Truthful' BY <1>4 DEF Truthful
<1>8. ShownOrMarked' BY <1>1, <1>2, <1>4 DEF IInv, ShownOrMarked, Pending
<1>9. OneTransferAtATime' BY <1>1, <1>4 DEF IInv, OneTransferAtATime
<1> QED BY <1>5, <1>6, <1>7, <1>8, <1>9 DEF IInv

LEMMA StartTransferStep ==
    ASSUME IInv, StartTransfer
    PROVE  IInv'
<1>1. /\ UNCHANGED <<screen, filled, row, bits, window, done, panel, raced>>
      /\ ui = "start" /\ filled /\ row < Rows
  BY DEF StartTransfer, IInv, Stages
<1>2. cell \in Cells /\ window \in Cells /\ spoilt \subseteq Cells /\ screen \in Screens
  BY DEF IInv, TypeOK
<1>3. CASE dma.busy
  <2>1. ui' = "flush" /\ cell' = Home /\ spoilt' = spoilt \union {cell} /\ dma' = dma
    BY <1>3 DEF StartTransfer
  <2>2. TypeOK' BY <1>1, <1>2, <2>1, CellFacts DEF IInv, TypeOK
  <2>3. Stages' BY <1>1, <2>1 DEF IInv, Stages
  <2>4. Truthful' BY <1>1, <1>3, <2>1 DEF IInv, Truthful
  <2>5. ShownOrMarked' BY <1>1, <2>1 DEF IInv, ShownOrMarked, Pending
  <2>6. OneTransferAtATime' BY <1>1, <1>3, <2>1 DEF IInv, OneTransferAtATime
  <2> QED BY <2>2, <2>3, <2>4, <2>5, <2>6 DEF IInv
<1>4. CASE ~dma.busy
  <2> DEFINE content == IF window = cell THEN screen.cell[cell] ELSE Garbage
  <2>1. /\ ui' = "wait" /\ cell' = cell /\ dma' = Transfer({window}, content)
        /\ spoilt' = IF window = cell THEN spoilt ELSE spoilt \union {cell, window}
    BY <1>4 DEF StartTransfer
  <2>2. content \in Shown BY <1>2 DEF Shown, Screens
  <2>3. /\ dma' \in Transfers /\ dma'.busy /\ dma'.intact
        /\ dma'.cells = {window} /\ dma'.content = content
    BY <1>2, <2>1, <2>2, TransferFacts
  <2>4. TypeOK' BY <1>1, <1>2, <2>1, <2>3 DEF IInv, TypeOK
  <2>5. Stages' BY <1>1, <2>1 DEF IInv, Stages
  <2>6. Truthful' BY <1>1, <2>1, <2>3 DEF Truthful
  <2>7. ShownOrMarked'
    <3> SUFFICES ASSUME NEW p \in Cells PROVE Pending(p)' \/ p \in spoilt' \/ panel[p] = screen.cell[p]
      BY <1>1 DEF ShownOrMarked
    <3>1. CASE p = cell BY <2>1, <2>3, <3>1 DEF Pending
    <3>2. CASE p # cell BY <1>1, <1>4, <2>1, <3>2 DEF IInv, ShownOrMarked, Pending
    <3> QED BY <3>1, <3>2
  <2>8. OneTransferAtATime' BY <1>1, <2>1, <2>3 DEF IInv, OneTransferAtATime
  <2> QED BY <2>4, <2>5, <2>6, <2>7, <2>8 DEF IInv
<1> QED BY <1>3, <1>4

\* The end of a wait: the type of what it changes, and the stage it leads to.
LEMMA ReturnsFacts ==
    ASSUME IInv, Returns, ui \in {"wait", "abort"}
    PROVE  /\ ui' \in {"fill", "flush"} /\ row' \in 0 .. Rows /\ cell' \in Cells
           /\ bits' \subseteq {p \in Cells : p[1] = row'}
           /\ Stages'
           /\ UNCHANGED <<screen, filled, bits, window>>
<1>1. row \in 0 .. Rows /\ row < Rows /\ Rows \in Nat /\ filled \in BOOLEAN
      /\ bits \subseteq {p \in Cells : p[1] = row} /\ cell' = Home
      /\ UNCHANGED <<screen, filled, bits, window>>
  BY CellFacts DEF IInv, TypeOK, Stages, Returns
<1>2. CASE filled
  <2>1. ui' = "flush" /\ row' = row BY <1>2 DEF Returns
  <2>2. Stages' BY <1>1, <1>2, <2>1 DEF IInv, Stages
  <2> QED BY <1>1, <2>1, <2>2, CellFacts
<1>3. CASE ~filled
  <2>1. ui' = "fill" /\ row' = row + 1 /\ bits = {} BY <1>3 DEF Returns, IInv, Stages
  <2>2. row' \in 0 .. Rows BY <1>1, <2>1
  <2>3. Stages' BY <1>1, <1>3, <2>1 DEF IInv, Stages
  <2> QED BY <1>1, <2>1, <2>2, <2>3, CellFacts
<1> QED BY <1>2, <1>3

LEMMA WaitStep ==
    ASSUME IInv, TakeDone \/ Timeout
    PROVE  IInv'
<1>1. CASE TakeDone
  <2>1. /\ UNCHANGED <<panel, spoilt, raced>> /\ done' = FALSE /\ done /\ ui = "wait"
        /\ dma' = IF filled THEN Cut(dma) ELSE dma
    BY <1>1 DEF TakeDone, shown
  <2>2. /\ ui' \in {"fill", "flush"} /\ row' \in 0 .. Rows /\ cell' \in Cells
        /\ bits' \subseteq {p \in Cells : p[1] = row'} /\ Stages'
        /\ UNCHANGED <<screen, filled, bits, window>>
    BY <1>1, <2>1, ReturnsFacts DEF TakeDone
  <2>3. /\ dma' = Idle \/ dma' \in Transfers
        /\ dma'.busy = dma.busy /\ (dma.busy => dma'.cells = dma.cells)
        /\ filled /\ dma.busy => ~dma'.intact
        /\ ~filled => dma' = dma
    <3>1. CASE filled BY <2>1, <3>1, CutFacts DEF IInv, TypeOK
    <3>2. CASE ~filled BY <2>1, <3>2 DEF IInv, TypeOK
    <3> QED BY <3>1, <3>2
  <2>4. TypeOK' BY <2>1, <2>2, <2>3 DEF IInv, TypeOK
  <2>5. Truthful'
    <3>1. CASE filled BY <2>3, <3>1 DEF Truthful
    <3>2. CASE ~filled BY <2>1, <2>2, <2>3, <3>2 DEF IInv, Truthful
    <3> QED BY <3>1, <3>2
  <2>6. ShownOrMarked' BY <2>1, <2>2, <2>3 DEF IInv, ShownOrMarked, Pending
  <2>7. OneTransferAtATime' BY <2>1, <2>3 DEF IInv, OneTransferAtATime
  <2> QED BY <2>2, <2>4, <2>5, <2>6, <2>7 DEF IInv
<1>2. CASE Timeout
  <2>1. /\ UNCHANGED <<screen, filled, row, bits, cell, window, dma, done, panel, spoilt, raced>>
        /\ ui = "wait" /\ ui' = "abort" /\ ~done
    BY <1>2 DEF Timeout, TimesOut, shown
  <2>2. TypeOK' BY <2>1 DEF IInv, TypeOK
  <2>3. Stages' BY <2>1 DEF IInv, Stages
  <2>4. Truthful' BY <2>1 DEF IInv, Truthful
  <2>5. ShownOrMarked' BY <2>1 DEF IInv, ShownOrMarked, Pending
  <2>6. OneTransferAtATime' BY <2>1 DEF IInv, OneTransferAtATime
  <2> QED BY <2>2, <2>3, <2>4, <2>5, <2>6 DEF IInv
<1> QED BY <1>1, <1>2

LEMMA SpoilsFacts ==
    ASSUME TypeOK, dma.busy, Spoils
    PROVE  /\ panel' \in [Cells -> Shown] /\ spoilt' \subseteq Cells
           /\ spoilt \subseteq spoilt' /\ dma.cells \subseteq spoilt'
           /\ \A p \in Cells \ dma.cells : panel'[p] = panel[p]
<1>1. dma \in Transfers /\ panel \in [Cells -> Shown] /\ spoilt \subseteq Cells
  BY DEF TypeOK, Idle
<1>2. dma.cells \subseteq Cells BY <1>1 DEF Transfers
<1> QED BY <1>1, <1>2 DEF Spoils, Shown

LEMMA AbortStep ==
    ASSUME IInv, Abort
    PROVE  IInv'
<1>1. /\ UNCHANGED <<done, raced>> /\ dma' = Idle /\ ui = "abort" /\ Returns
  BY DEF Abort, Aborted
<1>2. /\ ui' \in {"fill", "flush"} /\ row' \in 0 .. Rows /\ cell' \in Cells
      /\ bits' \subseteq {p \in Cells : p[1] = row'} /\ Stages'
      /\ UNCHANGED <<screen, filled, bits, window>>
  BY <1>1, ReturnsFacts
<1>3. ~dma'.busy BY <1>1 DEF Idle
<1>4. /\ panel' \in [Cells -> Shown] /\ spoilt' \subseteq Cells
      /\ ShownOrMarked'
  <2>1. CASE dma.busy
    <3>1. Spoils BY <2>1 DEF Abort
    <3>2. /\ panel' \in [Cells -> Shown] /\ spoilt' \subseteq Cells
          /\ spoilt \subseteq spoilt' /\ dma.cells \subseteq spoilt'
          /\ \A p \in Cells \ dma.cells : panel'[p] = panel[p]
      BY <2>1, <3>1, SpoilsFacts DEF IInv
    <3>3. ShownOrMarked'
      BY <1>1, <1>2, <3>2 DEF IInv, ShownOrMarked, Pending
    <3> QED BY <3>2, <3>3
  <2>2. CASE ~dma.busy
    <3>1. UNCHANGED <<panel, spoilt>> BY <2>2 DEF Abort
    <3>2. panel' \in [Cells -> Shown] /\ spoilt' \subseteq Cells BY <3>1 DEF IInv, TypeOK
    <3>3. ShownOrMarked' BY <1>1, <1>2, <2>2, <3>1 DEF IInv, ShownOrMarked, Pending
    <3> QED BY <3>2, <3>3
  <2> QED BY <2>1, <2>2
<1>5. TypeOK' BY <1>1, <1>2, <1>4 DEF IInv, TypeOK
<1>6. Truthful' BY <1>3 DEF Truthful
<1>7. OneTransferAtATime' BY <1>1, <1>3 DEF IInv, OneTransferAtATime
<1> QED BY <1>2, <1>4, <1>5, <1>6, <1>7 DEF IInv

\* A transfer that gets through shows what the screen has, or what will be drawn again.
LEMMA EndStep ==
    ASSUME IInv, Completes \/ Fails
    PROVE  IInv'
<1>1. /\ UNCHANGED <<screen, ui, filled, row, bits, cell, window>> /\ dma.busy
      /\ dma' = Idle /\ done' = TRUE /\ raced' = (raced \/ ui = "abort")
  BY DEF Completes, Fails, Ends, task
<1>2. dma \in Transfers /\ dma.cells \subseteq Cells /\ dma.content \in Shown
  <2>1. dma \in Transfers BY <1>1 DEF IInv, TypeOK, Idle
  <2> QED BY <2>1 DEF Transfers
<1>3. ~dma'.busy BY <1>1 DEF Idle
<1>4. panel' \in [Cells -> Shown] /\ spoilt' \subseteq Cells /\ ShownOrMarked'
  <2>1. CASE Spoils
    <3>1. /\ panel' \in [Cells -> Shown] /\ spoilt' \subseteq Cells
          /\ spoilt \subseteq spoilt' /\ dma.cells \subseteq spoilt'
          /\ \A p \in Cells \ dma.cells : panel'[p] = panel[p]
      BY <1>1, <2>1, SpoilsFacts DEF IInv
    <3>2. ShownOrMarked' BY <1>1, <3>1 DEF IInv, ShownOrMarked, Pending
    <3> QED BY <3>1, <3>2
  <2>2. CASE Completes /\ dma.intact /\ dma.content # Garbage
    <3>1. /\ panel' = [p \in Cells |-> IF p \in dma.cells THEN dma.content ELSE panel[p]]
          /\ spoilt' = spoilt \ dma.cells
      BY <2>2 DEF Completes
    <3>2. panel \in [Cells -> Shown] /\ spoilt \subseteq Cells BY DEF IInv, TypeOK
    <3>3. panel' \in [Cells -> Shown] /\ spoilt' \subseteq Cells BY <1>2, <3>1, <3>2
    <3>4. ShownOrMarked'
      <4> SUFFICES ASSUME NEW p \in Cells
                   PROVE  Pending(p)' \/ p \in spoilt' \/ panel'[p] = screen.cell[p]
        BY <1>1 DEF ShownOrMarked
      <4>1. CASE p \in dma.cells
        BY <1>1, <2>2, <3>1, <4>1 DEF IInv, Truthful, Pending
      <4>2. CASE p \notin dma.cells
        BY <1>1, <3>1, <4>2 DEF IInv, ShownOrMarked, Pending
      <4> QED BY <4>1, <4>2
    <3> QED BY <3>3, <3>4
  <2> QED BY <2>1, <2>2 DEF Completes, Fails
<1>5. TypeOK' BY <1>1, <1>4 DEF IInv, TypeOK
<1>6. Stages' BY <1>1 DEF IInv, Stages
<1>7. Truthful' BY <1>3 DEF Truthful
<1>8. OneTransferAtATime' BY <1>1, <1>3 DEF IInv, OneTransferAtATime
<1> QED BY <1>4, <1>5, <1>6, <1>7, <1>8 DEF IInv

LEMMA StutterStep ==
    ASSUME IInv, UNCHANGED vars
    PROVE  IInv'
BY DEF vars, IInv, TypeOK, Stages, Truthful, ShownOrMarked, Pending, OneTransferAtATime

LEMMA StepIInv ==
    ASSUME IInv, [Next]_vars
    PROVE  IInv'
BY InitStep, FillRowStep, FillEndsStep, RenderStep, FlushStep, SetWindowStep,
   StartTransferStep, WaitStep, AbortStep, EndStep, StutterStep
   DEF Next, UiTask

--------------------------------------------------------------------------------
(* Theorems *)

THEOREM Inductive == Spec => []IInv
BY InitIInv, StepIInv, PTL DEF Spec

\* The flush draws cells of one row at a time, and the panel shows nothing but contents of
\* the screen, the fill, or garbage, for every size of the screen.
THEOREM TypeCorrect == Spec => []TypeOK
<1>1. IInv => TypeOK BY DEF IInv
<1> QED BY <1>1, Inductive, PTL

\* No change of the screen is ever forgotten: put_char and rjs_ts_flush, over transfers
\* that time out, fail, miss their window or end late.
THEOREM NothingForgotten == Spec => []ShownOrMarked
<1>1. IInv => ShownOrMarked BY DEF IInv
<1> QED BY <1>1, Inductive, PTL

\* Transfers of spi_write_dma do not overlap, up to the one race of its timeout.
THEOREM TransfersExclude == Spec => []OneTransferAtATime
<1>1. IInv => OneTransferAtATime BY DEF IInv
<1> QED BY <1>1, Inductive, PTL

\* The ui task comes nearer to the end of its flush, or of the fill, with each of its
\* steps: at most Rows rows of Cols cells of three steps each, whatever the transfers do.
THEOREM SleepNears == Spec => NearsSleep
<1> DEFINE A == (ui \in DOMAIN Place) =>
                   \/ ui' \in {"render", "asleep"}
                   \/ Nearer
                   \/ UNCHANGED <<ui, filled, row, bits>> /\ ~UiTask
<1>1. /\ DOMAIN Place = {"start", "fill", "wait", "abort", "flush"}
      /\ Place["start"] = 0 /\ Place["fill"] = 0 /\ Place["wait"] = 1 /\ Place["abort"] = 2
      /\ Place["flush"] = 3
  BY DEF Place
<1>2. ASSUME IInv, [Next]_vars, ui \in DOMAIN Place
      PROVE  \/ ui' \in {"render", "asleep"}
             \/ Nearer
             \/ UNCHANGED <<ui, filled, row, bits>> /\ ~UiTask
  <2>1. filled \in BOOLEAN /\ (ui = "fill" => ~filled) /\ (ui \in {"flush", "start"} => filled)
    BY <1>2 DEF IInv, TypeOK, Stages
  <2>2. CASE InitFails \/ InitSucceeds \/ Render \/ StartFlush \/ Wakes
    BY <1>1, <1>2, <2>2 DEF InitFails, InitSucceeds, Render, StartFlush, Wakes
  <2>3. CASE FillRow
    <3>1. /\ ui = "fill" /\ bits' = bits /\ filled' = filled
          /\ (row' = row + 1 /\ ui' = "fill") \/ (row' = row /\ ui' = "wait")
      BY <2>3 DEF FillRow
    <3> QED BY <1>1, <3>1 DEF Nearer
  <2>4. CASE FillEnds BY <2>4 DEF FillEnds
  <2>5. CASE NextRow
    <3>1. /\ filled' = filled
          /\ (row' = row + 1 /\ ui' = "flush") \/ ui' = "asleep"
      BY <2>5 DEF NextRow
    <3> QED BY <1>1, <3>1 DEF Nearer
  <2>6. CASE SetWindow
    <3>1. ui' = "start" /\ row' = row /\ filled' = filled
          /\ \E p \in bits : bits' = bits \ {p}
      BY <2>6 DEF SetWindow
    <3>2. bits' \subseteq bits /\ bits' # bits BY <3>1
    <3> QED BY <1>1, <3>1, <3>2 DEF Nearer
  <2>7. CASE StartTransfer
    <3>1. ui = "start" /\ ui' \in {"flush", "wait"} /\ UNCHANGED <<filled, row, bits>>
      BY <2>7 DEF StartTransfer
    <3> QED BY <1>1, <3>1 DEF Nearer
  <2>8. CASE TakeDone \/ Abort
    <3>1. /\ ui \in {"wait", "abort"} /\ UNCHANGED <<filled, bits>>
          /\ ui' = (IF filled THEN "flush" ELSE "fill") /\ row' = (IF filled THEN row ELSE row + 1)
      BY <2>8 DEF TakeDone, Abort, Returns
    <3>2. CASE filled BY <1>1, <3>1, <3>2 DEF Nearer
    <3>3. CASE ~filled BY <1>1, <3>1, <3>3 DEF Nearer
    <3> QED BY <3>2, <3>3
  <2>9. CASE Timeout
    <3>1. ui = "wait" /\ ui' = "abort" /\ UNCHANGED <<filled, row, bits>>
      BY <2>9 DEF Timeout, TimesOut
    <3> QED BY <1>1, <3>1 DEF Nearer
  <2>10. CASE ~UiTask
    <3>1. UNCHANGED <<ui, filled, row, bits>>
      BY <1>2, <2>10 DEF Next, Completes, Fails, Ends, Deleted, vars, task
    <3> QED BY <2>10, <3>1
  <2> QED BY <2>2, <2>3, <2>4, <2>5, <2>6, <2>7, <2>8, <2>9, <2>10 DEF UiTask
<1>3. IInv /\ [Next]_vars => [A]_vars BY <1>2
<1> QED BY <1>3, Inductive, PTL DEF Spec, NearsSleep
================================================================================
