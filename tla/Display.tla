--------------------------------- MODULE Display --------------------------------
(***************************************************************************)
(* app/joint_node/ui.c on the ST7789 driver: the ui task fills the panel,   *)
(* then renders into the text screen and flushes the marked cells, one DMA   *)
(* transfer from s_chunk per cell.  The transfer runs beside the task; its   *)
(* interrupt gives the semaphore the task waits for, for 50 ms at most.      *)
(***************************************************************************)
EXTENDS TextScreen, FiniteSets

CONSTANTS
    Colours,    \* colours of the text
    BarRow,     \* the row with the bar; lines are printed in the other rows
    Strings     \* what render prints there

ASSUME DisplayAssumption ==
    Colours # {} /\ BarRow \in 0 .. Rows - 1 /\ Strings \subseteq Seq({Space, "#", "."})

VARIABLES
    screen,     \* s_screen
    ui,         \* where the ui task is: init, fill, render, flush, start, wait, abort,
                \* asleep, or deleted
    filled,     \* has board_display_init filled the panel?
    row,        \* the row the fill or the flush has come to
    bits,       \* cells of that row still to draw
    cell,       \* the cell being drawn, or Home
    window,     \* the cell the panel's window is set to
    dma,        \* the running transfer, or Idle
    done,       \* is s_done given?
    panel,      \* what the panel shows
    spoilt,     \* history: cells whose last transfer did not go through
    raced       \* history: has a transfer ended after its wait, before its abort?

vars == <<screen, ui, filled, row, bits, cell, window, dma, done, panel, spoilt, raced>>
task == <<ui, filled, row, bits, cell, window>>
shown == <<panel, spoilt, raced>>

Idle == [busy |-> FALSE]

\* A transfer of what s_chunk holds to some cells; intact as long as neither s_chunk is
\* written nor the panel deselected.
Transfer(ps, c) == [busy |-> TRUE, cells |-> ps, content |-> c, intact |-> TRUE]
Cut(d) == IF d.busy THEN [d EXCEPT !.intact = FALSE] ELSE d

Black == <<Space, "black">>
Garbage == <<"?", "?">>
Home == <<0, 0>>

\* ui_task starts; s_screen is not read before rjs_ts_init.
Init ==
    /\ \E c \in Colours : screen = Cleared(c)
    /\ ui = "init" /\ filled = FALSE
    /\ row = 0 /\ bits = {} /\ cell = Home /\ window = Home
    /\ dma = Idle /\ done = FALSE
    /\ panel = [p \in Cells |-> Garbage]
    /\ spoilt = {} /\ raced = FALSE

--------------------------------------------------------------------------------
(* board_display_init *)

\* HAL_SPI_Init or HAL_DMA_Init fails: the ui task deletes itself.
InitFails ==
    /\ ui = "init" /\ ui' = "deleted"
    /\ UNCHANGED <<screen, filled, row, bits, cell, window, dma, done, shown>>

InitSucceeds ==
    /\ ui = "init" /\ ui' = "fill"
    /\ UNCHANGED <<screen, filled, row, bits, cell, window, dma, done, shown>>

\* board_display_fill, the chunks of a row at once.  A row may land further up than it
\* should, when a chunk before it was lost, and is dropped while a transfer runs.
FillRow ==
    /\ ui = "fill" /\ row < Rows
    /\ IF dma.busy THEN row' = row + 1 /\ UNCHANGED <<ui, dma>>
       ELSE /\ \E r \in 0 .. row : dma' = Transfer({p \in Cells : p[1] = r}, Black)
            /\ ui' = "wait" /\ UNCHANGED row
    /\ UNCHANGED <<screen, filled, bits, cell, window, done, shown>>

\* The panel is deselected; ui_task goes on with rjs_ts_init.
FillEnds ==
    /\ ui = "fill" /\ row = Rows
    /\ ui' = "render" /\ filled' = TRUE /\ row' = 0
    /\ dma' = Cut(dma)
    /\ \E c \in Colours : screen' = Cleared(c)
    /\ UNCHANGED <<bits, cell, window, done, shown>>

--------------------------------------------------------------------------------
(* The loop of the ui task *)

\* render writes lines, a bar and blank rows in the colours it sets.
Rendered(s) ==
    LET lines == (0 .. Rows - 1) \ {BarRow}
    IN  {PrintLine(s, r, 0, str) : r \in lines, str \in Strings}
        \union {ClearRow(s, r) : r \in lines}
        \union {Bar(s, BarRow, 0, Cols, m) : m \in {0, 500, 1000}}

Render ==
    /\ ui = "render"
    /\ \E c \in Colours : screen' \in Rendered(SetColours(screen, c))
    /\ UNCHANGED <<task, dma, done, shown>>

StartFlush ==
    /\ ui = "render" /\ ui' = "flush"
    /\ row' = 0
    /\ bits' = MarksOf(screen, 0) /\ screen' = WithoutMarks(screen, 0)
    /\ UNCHANGED <<filled, cell, window, dma, done, shown>>

NextRow ==
    /\ ui = "flush" /\ bits = {}
    /\ IF row + 1 < Rows
       THEN /\ row' = row + 1
            /\ bits' = MarksOf(screen, row + 1) /\ screen' = WithoutMarks(screen, row + 1)
            /\ UNCHANGED ui
       ELSE ui' = "asleep" /\ UNCHANGED <<row, bits, screen>>
    /\ UNCHANGED <<filled, cell, window, dma, done, shown>>

Wakes ==
    /\ ui = "asleep" /\ ui' = "render"
    /\ UNCHANGED <<screen, filled, row, bits, cell, window, dma, done, shown>>

\* draw_cell for the leftmost cell of bits: set_window, whose blocking writes may fail
\* (they do while a transfer runs) and leave the window elsewhere, and the glyph goes to
\* s_chunk.
SetWindow ==
    /\ ui = "flush" /\ ui' = "start"
    /\ \E p \in bits :
        /\ \A q \in bits : p[2] <= q[2]
        /\ bits' = bits \ {p} /\ cell' = p
        /\ \E w \in Cells : (dma.busy => w # p) /\ window' = w
    /\ dma' = Cut(dma)
    /\ UNCHANGED <<screen, filled, row, done, shown>>

\* spi_write_dma: a transfer starts, unless one still runs.
StartTransfer ==
    /\ ui = "start"
    /\ IF dma.busy
       THEN /\ ui' = "flush" /\ cell' = Home /\ spoilt' = spoilt \union {cell}
            /\ UNCHANGED dma
       ELSE /\ ui' = "wait"
            /\ dma' = Transfer({window}, IF window = cell THEN screen.cell[cell] ELSE Garbage)
            /\ spoilt' = IF window = cell THEN spoilt ELSE spoilt \union {cell, window}
            /\ UNCHANGED cell
    /\ UNCHANGED <<screen, filled, row, bits, window, done, panel, raced>>

--------------------------------------------------------------------------------
(* The wait for the transfer, and its interrupts *)

\* Back to the loop over chunks or over cells; the latter deselects the panel.
Returns ==
    /\ ui' = IF filled THEN "flush" ELSE "fill"
    /\ row' = IF filled THEN row ELSE row + 1
    /\ cell' = Home
    /\ UNCHANGED <<screen, filled, bits, window>>

\* xSemaphoreTake returns: s_done was given ...
TakeDone ==
    /\ ui = "wait" /\ done
    /\ Returns /\ done' = FALSE
    /\ dma' = IF filled THEN Cut(dma) ELSE dma
    /\ UNCHANGED shown

\* ... or 50 ms have passed.  The mutant waits for ever (portMAX_DELAY).
WaitsForEver == FALSE
TimesOut == ui = "wait" /\ ~done
Timeout ==
    /\ TimesOut
    /\ ui' = "abort"
    /\ UNCHANGED <<screen, filled, row, bits, cell, window, dma, done, shown>>

\* What a transfer that does not get through leaves behind.
Spoils ==
    /\ panel' = [p \in Cells |-> IF p \in dma.cells THEN Garbage ELSE panel[p]]
    /\ spoilt' = spoilt \union dma.cells

\* HAL_SPI_Abort; the mutant goes on without it.
NotAborted == dma
Aborted == Idle
Abort ==
    /\ ui = "abort"
    /\ Returns
    /\ dma' = Aborted
    /\ IF dma.busy THEN Spoils ELSE UNCHANGED <<panel, spoilt>>
    /\ UNCHANGED <<done, raced>>

\* HAL_SPI_TxCpltCallback and HAL_SPI_ErrorCallback both give the semaphore.
Ends ==
    /\ dma.busy
    /\ dma' = Idle /\ done' = TRUE
    /\ raced' = (raced \/ ui = "abort")
    /\ UNCHANGED <<screen, task>>

Completes ==
    /\ Ends
    /\ IF dma.intact /\ dma.content # Garbage
       THEN /\ panel' = [p \in Cells |-> IF p \in dma.cells THEN dma.content ELSE panel[p]]
            /\ spoilt' = spoilt \ dma.cells
       ELSE Spoils

Fails == Ends /\ Spoils

UiTask ==
    \/ InitFails \/ InitSucceeds \/ FillRow \/ FillEnds
    \/ Render \/ StartFlush \/ NextRow \/ Wakes
    \/ SetWindow \/ StartTransfer \/ TakeDone \/ Timeout \/ Abort

\* A deleted task stays deleted.
Deleted == ui = "deleted" /\ UNCHANGED vars

Next == UiTask \/ Completes \/ Fails \/ Deleted

Spec == Init /\ [][Next]_vars

\* The ui task runs when it can, and render comes to an end.  Nothing is assumed of
\* the transfer: its interrupt may never come.
Fairness ==
    /\ WF_vars(InitFails \/ InitSucceeds) /\ WF_vars(FillRow \/ FillEnds)
    /\ WF_vars(StartFlush) /\ WF_vars(NextRow) /\ WF_vars(Wakes)
    /\ WF_vars(SetWindow) /\ WF_vars(StartTransfer)
    /\ WF_vars(TakeDone \/ Timeout) /\ WF_vars(Abort)

FairSpec == Spec /\ Fairness

--------------------------------------------------------------------------------
(* Properties *)

Contents == {Space, "#", "."} \X Colours
Screens == [cell : [Cells -> Contents], dirty : SUBSET Cells, colour : Colours]
Shown == Contents \union {Black, Garbage}
Transfers == [busy : {TRUE}, cells : SUBSET Cells, content : Shown, intact : BOOLEAN]

\* The type of every variable; the flush keeps to the marks of one row.
TypeOK ==
    /\ screen \in Screens
    /\ ui \in {"init", "deleted", "fill", "render", "flush", "start", "wait", "abort", "asleep"}
    /\ filled \in BOOLEAN
    /\ row \in 0 .. Rows /\ bits \subseteq {p \in Cells : p[1] = row}
    /\ cell \in Cells /\ window \in Cells
    /\ dma = Idle \/ dma \in Transfers
    /\ done \in BOOLEAN /\ raced \in BOOLEAN
    /\ panel \in [Cells -> Shown] /\ spoilt \subseteq Cells

\* The change marks are complete: a cell that is neither marked nor being drawn is
\* on the panel as it is on the screen, or its last transfer has failed or missed it.
Pending(p) ==
    \/ p \in screen.dirty \/ p \in bits
    \/ ui = "start" /\ p = cell
    \/ dma.busy /\ p \in dma.cells
ShownOrMarked ==
    \A p \in Cells : Pending(p) \/ p \in spoilt \/ panel[p] = screen.cell[p]

\* Unless a transfer ended between the timeout of its wait and the abort, s_chunk is
\* never written while the DMA reads it, and no completion is left over for a later
\* wait: while the task goes on, nothing is running and nothing is given.
OneTransferAtATime ==
    raced \/ (/\ dma.busy => dma.intact /\ ui \in {"wait", "abort"}
              /\ done => ui = "wait" /\ ~dma.busy)

\* The fill comes before the flush and leaves nothing of it; all cells are marked meanwhile.
Stages ==
    /\ ui \in {"init", "deleted", "fill"} => ~filled
    /\ ui \in {"render", "flush", "start", "asleep"} => filled
    /\ ~filled => bits = {} /\ screen.dirty = Cells
    /\ filled \/ ui \in {"wait", "abort"} => row < Rows
    /\ ui \in {"render", "asleep"} => bits = {}

\* What a running transfer carries is what the screen has, or will be drawn again.
Truthful ==
    dma.busy /\ dma.intact =>
        /\ filled => ui \in {"wait", "abort"}
        /\ dma.content # Garbage =>
              \A p \in dma.cells : p \in screen.dirty \/ screen.cell[p] = dma.content

\* These are inductive together (see DisplayProofs).
IInv == TypeOK /\ Stages /\ Truthful /\ ShownOrMarked /\ OneTransferAtATime

\* What makes UiKeepsRunning hold, step by step: between render and sleep every step of the
\* ui task goes to the next row, takes a cell from the row, or goes on within the transfer
\* of that cell; and the interrupts take none of it back.
Place == [start |-> 0, fill |-> 0, wait |-> 1, abort |-> 2, flush |-> 3]
Nearer ==
    /\ ui' \in DOMAIN Place /\ filled' = filled
    /\ \/ row' = row + 1
       \/ row' = row /\ bits' \subseteq bits /\ bits' # bits
       \/ row' = row /\ bits' = bits /\ Place[ui] < Place[ui']
NearsSleep ==
    [][(ui \in DOMAIN Place) =>
          \/ ui' \in {"render", "asleep"}
          \/ Nearer
          \/ UNCHANGED <<ui, filled, row, bits>> /\ ~UiTask]_vars

\* A screen whose SPI never answers does not hang the ui task: the fill and every flush
\* end, or the task has deleted itself.
UiKeepsRunning == []<>(ui \in {"asleep", "deleted"})

\* docs/display.md says of a cell that it "goes out by DMA; the task waits on a semaphore
\* that the completion interrupt gives": while a cell goes out, the task waits for it (or
\* has given it up and is about to abort it).  In the code the completion of a transfer
\* that ends between the 50 ms and the abort is taken for that of the next one.
CellGoesOut == dma.busy /\ dma.content # Black
WaitsForTransfer == CellGoesOut => ui \in {"wait", "abort"}
================================================================================
