------------------------------ MODULE Picture ------------------------------
(***************************************************************************)
(* The frame of the ULA: when the beam reaches each spot of the visible     *)
(* picture, and what it shows there (the geometry that video.c states above *)
(* paint_span).  A spot is the pair of pixels drawn in one T-state; the     *)
(* flashing of attributes and ULA snow are left out.                       *)
(***************************************************************************)
EXTENDS Integers

CONSTANTS
  Lines, LineT,        \* lines of a frame (312) and T-states of a line (224)
  FirstRow, Rows,      \* the line of row 0 (40), visible rows (240)
  TopDisplay,          \* the first display line (64)
  DisplayRows,         \* display lines (192)
  CharRows,            \* lines that share their attributes (8)
  Block, Blocks,       \* T-states of a fetch block (8), blocks of a line (16)
  RightEnd, LeftStart, \* where the right border ends (144), the left begins (208)
  Banks,               \* the pages that can be on display
  Colour, Byte,        \* border colours; the contents of a cell
  Overrun              \* how far the last instruction reaches into the next frame

Centre == Block * Blocks
LeftWidth == LineT - LeftStart
FrameT == Lines * LineT

ASSUME LineAssumption ==
  /\ Block \in Nat \ {0} /\ Blocks \in Nat
  /\ RightEnd \in Nat /\ LeftStart \in Nat /\ LineT \in Nat
  /\ Centre <= RightEnd /\ RightEnd <= LeftStart /\ LeftStart <= LineT

ASSUME FrameAssumption ==
  /\ FirstRow \in Nat \ {0} /\ Rows \in Nat /\ Lines \in Nat
  /\ FirstRow + Rows <= Lines
  /\ TopDisplay \in Nat /\ DisplayRows \in Nat /\ CharRows \in Nat \ {0}
  /\ FirstRow <= TopDisplay /\ TopDisplay + DisplayRows <= FirstRow + Rows
  /\ Overrun \in Nat /\ Overrun <= LeftStart
  /\ 0 \in Byte /\ 5 \in Banks /\ 7 \in Colour

\* Cells of display memory: the pixels and the attributes of a fetch block.
PixelCells == {"pixels"} \X (0 .. DisplayRows - 1) \X (0 .. Blocks - 1)
AttrCells == {"attr"} \X (0 .. DisplayRows - 1) \X (0 .. Blocks - 1)
Cells == PixelCells \cup AttrCells
Memory == [Banks -> [Cells -> Byte]]

Spots == (0 .. Rows - 1) \X (0 .. LeftWidth + RightEnd - 1)
Dark == <<>>

OnDisplay(line) == line >= TopDisplay /\ line < TopDisplay + DisplayRows

InPaper(p) == /\ OnDisplay(p[1] + FirstRow)
              /\ p[2] >= LeftWidth /\ p[2] - LeftWidth < Centre
BlockOf(p) == (p[2] - LeftWidth) \div Block

\* The line during which p is drawn, the left border of a row at the end of the line
\* before, and the T-state of that line at which the ULA has what it draws: the
\* border as it is drawn, the cells at the start of their fetch block.
LineOf(p) == IF p[2] < LeftWidth THEN p[1] + FirstRow - 1 ELSE p[1] + FirstRow

Offset(p) == IF p[2] < LeftWidth THEN LeftStart + p[2]
             ELSE IF InPaper(p) THEN BlockOf(p) * Block ELSE p[2] - LeftWidth

At(p) == LineOf(p) * LineT + Offset(p)

\* paint_cell, or the border.
Look(p, screen, border) ==
  LET y == p[1] + FirstRow - TopDisplay
  IN IF InPaper(p) THEN <<screen[<<"pixels", y, BlockOf(p)>>],
                          screen[<<"attr", y \div CharRows, BlockOf(p)>>]>>
                   ELSE <<border>>
=============================================================================
