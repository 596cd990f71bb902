---------------------------- MODULE OutputsProofs ----------------------------
(***************************************************************************)
(* What holds of the picture and the sound for every frame geometry, clock, *)
(* memory, chip and program: painting in arrears implements the hardware,  *)
(* synthesis in arrears loses and repeats no sample on its way out.        *)
(***************************************************************************)
EXTENDS OutputsProps, SequenceTheorems, WellFoundedInduction, TLAPS

-----------------------------------------------------------------------------
(* Induction over the naturals: a property is the set of the numbers that  *)
(* have it.                                                                *)

\* A set of naturals has a least member.
LEMMA LeastOf ==
  ASSUME NEW T, T \subseteq Nat, T # {}
  PROVE  \E m \in T : \A k \in T : m <= k
<1>1. PICK m \in T : \A k \in T : <<k, m>> \notin OpToRel(<, Nat)
  BY WFMin, NatLessThanWellFounded, Zenon
<1>2. \A k \in T : ~(k < m)
  BY <1>1, Zenon DEF OpToRel
<1> QED BY <1>2

\* Up to a bound: what holds of 0 and goes from each number to the next holds of
\* all, since there is no least number that it does not hold of.
LEMMA InductTo ==
  ASSUME NEW n \in Nat, NEW S, 0 \in S, \A k \in 1 .. n : k - 1 \in S => k \in S
  PROVE  0 .. n \subseteq S
<1> DEFINE T == {k \in 0 .. n : k \notin S}
<1>1. SUFFICES ASSUME T # {} PROVE FALSE
  OBVIOUS
<1>2. T \subseteq Nat
  OBVIOUS
<1>3. PICK m \in T : \A k \in T : m <= k
  <2> HIDE DEF T
  <2> QED BY <1>1, <1>2, LeastOf
<1>4. m \in 1 .. n /\ m - 1 \in 0 .. n /\ m \notin S
  BY <1>3
<1>5. m - 1 \in S
  <2>1. m - 1 \notin T
    BY <1>3, <1>4
  <2> QED BY <1>4, <2>1
<1> QED BY <1>4, <1>5

\* Two functions with the same value at 0 and the same steps agree.
LEMMA SameRecursion ==
  ASSUME NEW n \in Nat, NEW f, NEW h, f[0] = h[0], \A k \in 1 .. n : f[k - 1] = h[k - 1] => f[k] = h[k]
  PROVE  \A k \in 0 .. n : f[k] = h[k]
<1> DEFINE S == {k \in 0 .. n : f[k] = h[k]}
<1>1. 0 \in S /\ \A k \in 1 .. n : k - 1 \in S => k \in S
  OBVIOUS
<1>2. 0 .. n \subseteq S
  <2> HIDE DEF S
  <2> QED BY <1>1, InductTo
<1> QED BY <1>2

-----------------------------------------------------------------------------
(* The beam painter. *)

LEMMA Product == ASSUME NEW a \in Nat, NEW b \in Nat, NEW c \in Nat, a <= b
                 PROVE a * c <= b * c /\ a * c \in Nat
  BY SMT

LEMMA Quotient ==
  ASSUME NEW a \in Nat, NEW b \in Nat \ {0}
  PROVE a \div b \in Nat /\ (a \div b) * b <= a /\ a < (a \div b) * b + b
  BY SMT

LEMMA InQuotient ==
  ASSUME NEW a \in Nat, NEW b \in Nat \ {0}, NEW k \in Nat, k * b <= a, a < (k + 1) * b
  PROVE a \div b = k
  BY SMT

LEMMA NextProduct == ASSUME NEW a \in Int, NEW b \in Nat PROVE (a + 1) * b = a * b + b
  BY SMT

LEMMA Widths == /\ Centre \in Nat /\ LeftWidth \in Nat /\ FrameT \in Nat
                /\ LeftWidth + LeftStart = LineT
  BY LineAssumption, FrameAssumption DEF Centre, LeftWidth, FrameT

\* The block of a spot on the paper.
LEMMA BlockLemma ==
  ASSUME NEW p \in Spots, InPaper(p)
  PROVE /\ BlockOf(p) \in 0 .. Blocks - 1
        /\ BlockOf(p) * Block <= p[2] - LeftWidth
        /\ p[2] - LeftWidth < BlockOf(p) * Block + Block
  <1>1. p[2] - LeftWidth \in Nat /\ p[2] - LeftWidth < Centre
    BY Widths, LineAssumption, FrameAssumption DEF InPaper, Spots
  <1>2. BlockOf(p) \in Nat /\ BlockOf(p) * Block <= p[2] - LeftWidth
        /\ p[2] - LeftWidth < BlockOf(p) * Block + Block
    BY <1>1, Quotient, LineAssumption DEF BlockOf
  <1>3. BlockOf(p) < Blocks
    <2>1. CASE BlockOf(p) >= Blocks
      <3>1. Blocks * Block <= BlockOf(p) * Block
        BY <1>2, <2>1, Product, LineAssumption
      <3>2. QED
        BY <1>1, <1>2, <2>1, <3>1, LineAssumption DEF Centre
    <2>2. QED
      BY <1>2, <2>1, LineAssumption
  <1>4. QED
    BY <1>2, <1>3, LineAssumption

\* Where the lines begin.
LEMMA LineStart ==
  ASSUME NEW line \in Nat, line < Lines
  PROVE line * LineT \in Nat /\ line * LineT + LineT <= FrameT /\ (line > 0 => line * LineT >= LineT)
  <1>1. line + 1 \in Nat /\ line + 1 <= Lines /\ Lines \in Nat /\ LineT \in Nat
    BY LineAssumption, FrameAssumption
  <1>2. (line + 1) * LineT <= Lines * LineT /\ line * LineT \in Nat
    BY <1>1, Product
  <1>3. (line + 1) * LineT = line * LineT + LineT
    BY <1>1, NextProduct
  <1>4. ASSUME line > 0 PROVE 1 * LineT <= line * LineT
    BY <1>1, <1>4, Product
  <1> QED BY <1>1, <1>2, <1>3, <1>4 DEF FrameT

LEMMA LineRange ==
  ASSUME NEW p \in Spots
  PROVE /\ LineOf(p) \in Nat /\ LineOf(p) < Lines
        /\ Offset(p) \in Nat /\ Offset(p) < LineT
        /\ LineOf(p) = 0 => LeftStart <= Offset(p)
  <1>1. /\ p[1] \in Nat /\ p[1] < Rows /\ p[2] \in Nat /\ p[2] < LeftWidth + RightEnd
        /\ LeftWidth + RightEnd \in Nat
    BY Widths, LineAssumption, FrameAssumption DEF Spots
  <1>2. LineOf(p) \in Nat /\ LineOf(p) < Lines /\ (LineOf(p) = 0 => p[2] < LeftWidth)
    BY <1>1, Widths, FrameAssumption DEF LineOf
  <1>3. CASE p[2] < LeftWidth
    BY <1>1, <1>2, <1>3, Widths, LineAssumption DEF Offset
  <1>4. CASE p[2] >= LeftWidth /\ InPaper(p)
    <2>1. BlockOf(p) \in Nat /\ BlockOf(p) * Block <= p[2] - LeftWidth
      BY <1>4, BlockLemma, LineAssumption
    <2>2. BlockOf(p) * Block \in Nat
      BY <2>1, Product, LineAssumption
    <2>3. Offset(p) = BlockOf(p) * Block
      BY <1>1, <1>4, Widths DEF Offset
    <2> QED BY <1>1, <1>2, <1>4, <2>1, <2>2, <2>3, Widths, LineAssumption
  <1>5. CASE p[2] >= LeftWidth /\ ~InPaper(p)
    <2>1. Offset(p) = p[2] - LeftWidth
      BY <1>1, <1>5, Widths DEF Offset
    <2> QED BY <1>1, <1>2, <1>5, <2>1, Widths, LineAssumption
  <1> QED BY <1>1, <1>3, <1>4, <1>5, Widths

\* A spot is drawn within the frame, after the overrun of the last one.
LEMMA AtRange == ASSUME NEW p \in Spots
                 PROVE At(p) \in Nat /\ Overrun <= At(p) /\ At(p) < FrameT
  <1> DEFINE start == LineOf(p) * LineT
  <1>1. At(p) = start + Offset(p)
    BY DEF At
  <1>2. start \in Nat /\ start + LineT <= FrameT /\ (LineOf(p) > 0 => start >= LineT)
    BY LineRange, LineStart
  <1> HIDE DEF start
  <1> QED BY <1>1, <1>2, LineRange, Widths, LineAssumption, FrameAssumption

-----------------------------------------------------------------------------
(* paint_span: the blocks fetched and the border passed between two times   *)
(* are the spots whose time lies between them.                             *)

LEMMA CeilLemma ==
  ASSUME NEW a \in Nat, NEW k \in Nat
  PROVE CeilDiv(a) \in Nat /\ (CeilDiv(a) <= k <=> a <= k * Block)
  <1> DEFINE q == (a + Block - 1) \div Block
  <1>1. Block \in Nat \ {0} /\ a + Block - 1 \in Nat
    BY LineAssumption
  <1>2. q \in Nat /\ q * Block <= a + Block - 1 /\ a + Block - 1 < q * Block + Block
    BY <1>1, Quotient
  <1>3. CeilDiv(a) = q
    BY DEF CeilDiv
  <1> HIDE DEF q
  <1>4. ASSUME q <= k PROVE a <= k * Block
    <2>1. q * Block <= k * Block /\ q * Block \in Nat /\ k * Block \in Nat
      BY <1>1, <1>2, <1>4, Product
    <2> QED BY <1>1, <1>2, <2>1
  <1>5. ASSUME k < q PROVE k * Block < a
    <2>1. (k + 1) * Block <= q * Block /\ q * Block \in Nat /\ k * Block \in Nat
      BY <1>1, <1>2, <1>5, Product
    <2>2. (k + 1) * Block = k * Block + Block
      BY <1>1, NextProduct
    <2> QED BY <1>1, <1>2, <2>1, <2>2
  <1>6. k * Block \in Nat
    BY <1>1, Product
  <1> QED BY <1>2, <1>3, <1>4, <1>5, <1>6

LEMMA OnLineLemma ==
  ASSUME NEW p \in Spots, NEW line \in Nat, NEW lt \in Nat, NEW end \in Nat, end <= LineT
  PROVE OnLine(p, line, lt, end) <=> line = LineOf(p) /\ lt <= Offset(p) /\ Offset(p) < end
  <1>1. /\ p[1] \in Nat /\ p[2] \in Nat /\ p[2] < LeftWidth + RightEnd
        /\ Block \in Nat \ {0} /\ Blocks \in Nat /\ LeftStart \in Nat /\ FirstRow \in Nat
    BY Widths, LineAssumption, FrameAssumption DEF Spots
  <1>2. \A k \in Fetched(lt, end) : /\ k \in Nat /\ k < Blocks /\ lt <= k * Block /\ k * Block < end
                                    /\ k * Block \in Nat
    <2> TAKE k \in Fetched(lt, end)
    <2>1. CeilDiv(lt) \in Nat /\ CeilDiv(end) \in Nat
      BY CeilLemma, <1>1
    <2>2. k \in Nat /\ k < Blocks /\ CeilDiv(lt) <= k /\ ~(CeilDiv(end) <= k)
      BY <1>1, <2>1 DEF Fetched, Least
    <2>3. k * Block \in Nat
      BY <1>1, <2>2, Product
    <2> QED BY <2>2, <2>3, CeilLemma
  <1>3. \A k \in Nat : k < Blocks /\ lt <= k * Block /\ k * Block < end => k \in Fetched(lt, end)
    <2> SUFFICES ASSUME NEW k \in Nat, k < Blocks, lt <= k * Block, k * Block < end
                 PROVE k \in Fetched(lt, end)
      OBVIOUS
    <2>1. CeilDiv(lt) \in Nat /\ CeilDiv(end) \in Nat /\ k * Block \in Nat
      BY CeilLemma, Product, <1>1
    <2>2. CeilDiv(lt) <= k /\ ~(CeilDiv(end) <= k)
      BY <2>1, CeilLemma
    <2> QED BY <1>1, <2>1, <2>2 DEF Fetched, Least
  <1>4. CASE p[2] < LeftWidth
    <2>1. ~ \E k \in Fetched(lt, end) : InBlock(p, k)
      BY <1>1, <1>2, <1>4, Widths DEF InBlock
    <2>2. StripStart(line, lt) >= 0 /\ StripStart(line, lt) \in Int
      BY Widths DEF StripStart, Most
    <2>3. ~(p[2] - LeftWidth >= StripStart(line, lt))
      BY <1>1, <1>4, <2>2, Widths
    <2>4. LineOf(p) = p[1] + FirstRow - 1 /\ Offset(p) = LeftStart + p[2]
      BY <1>4 DEF LineOf, Offset
    <2>5. p[2] + LeftStart >= Most(lt, LeftStart) <=> lt <= LeftStart + p[2]
      BY <1>1 DEF Most
    <2>6. p[1] = LeftRow(line) <=> line = LineOf(p)
      BY <1>1, <2>4 DEF LeftRow
    <2> QED BY <1>1, <2>1, <2>3, <2>4, <2>5, <2>6 DEF OnLine
  <1>5. CASE p[2] >= LeftWidth
    <2>1. ~(p[2] + LeftStart < end)
      BY <1>1, <1>5, Widths
    <2>2. LineOf(p) = p[1] + FirstRow
      BY <1>1, <1>5, Widths DEF LineOf
    <2>3. p[1] = line - FirstRow <=> line = LineOf(p)
      BY <1>1, <2>2
    <2>4. CASE InPaper(p)
      <3>1. Offset(p) = BlockOf(p) * Block
        BY <1>1, <1>5, <2>4, Widths DEF Offset
      <3>2. BlockOf(p) \in Nat /\ BlockOf(p) < Blocks /\ p[2] - LeftWidth \in Nat
        BY <1>1, <1>5, <2>4, BlockLemma, Widths, LineAssumption
      <3>3. InBlock(p, BlockOf(p))
        BY <2>4, <3>2, <1>1, BlockLemma, NextProduct DEF InBlock
      <3>4. \A k \in Nat : InBlock(p, k) => k = BlockOf(p)
        BY <1>1, <3>2, InQuotient DEF InBlock, BlockOf
      <3>5. (\E k \in Fetched(lt, end) : InBlock(p, k)) <=> lt <= Offset(p) /\ Offset(p) < end
        BY <1>2, <1>3, <3>1, <3>2, <3>3, <3>4
      <3>6. line = LineOf(p) => OnDisplay(line)
        BY <2>2, <2>4 DEF InPaper
      <3>7. OnDisplay(line) => ~(p[2] - LeftWidth >= StripStart(line, lt))
        BY <1>1, <2>4, Widths DEF InPaper, StripStart, Most
      <3> QED BY <2>1, <2>3, <3>5, <3>6, <3>7 DEF OnLine
    <2>5. CASE ~InPaper(p)
      <3>1. Offset(p) = p[2] - LeftWidth
        BY <1>1, <1>5, <2>5, Widths DEF Offset
      <3>2. ASSUME line = LineOf(p), OnDisplay(line) PROVE p[2] - LeftWidth >= Centre
        BY <1>1, <1>5, <2>2, <2>5, <3>2, Widths DEF InPaper
      <3>3. ASSUME line = LineOf(p), OnDisplay(line), NEW k \in Fetched(lt, end) PROVE ~InBlock(p, k)
        <4>1. k + 1 \in Nat /\ k + 1 <= Blocks
          BY <1>1, <1>2
        <4>2. (k + 1) * Block <= Blocks * Block /\ (k + 1) * Block \in Nat
          BY <1>1, <4>1, Product
        <4>3. Blocks * Block = Centre
          BY <1>1 DEF Centre
        <4> QED BY <1>1, <3>2, <3>3, <4>2, <4>3, Widths DEF InBlock
      <3>4. line = LineOf(p) => (p[2] - LeftWidth >= StripStart(line, lt) <=> lt <= Offset(p))
        BY <1>1, <1>5, <3>1, <3>2, Widths DEF StripStart, Most
      <3>5. p[2] - LeftWidth < Least(end, RightEnd) <=> Offset(p) < end
        BY <1>1, <1>5, <3>1, Widths, LineAssumption DEF Least
      <3> QED BY <2>1, <2>3, <3>3, <3>4, <3>5 DEF OnLine
    <2> QED BY <2>4, <2>5
  <1> QED BY <1>1, <1>4, <1>5, Widths

LEMMA SpanLemma ==
  ASSUME NEW p \in Spots, NEW from \in Nat, NEW to \in Nat, to <= FrameT
  PROVE InSpan(p, from, to) <=> from <= At(p) /\ At(p) < to
  <1>1. \A line \in 0 .. Lines - 1 : line \in Nat /\ line < Lines
    BY FrameAssumption
  <1>2. LineT \in Nat /\ LineOf(p) \in 0 .. Lines - 1 /\ Offset(p) \in Nat /\ Offset(p) < LineT
    BY LineRange, LineAssumption, FrameAssumption
  <1>3. ASSUME NEW line \in 0 .. Lines - 1, from < line * LineT + LineT, line * LineT < to
        PROVE  OnLine(p, line, Most(from - line * LineT, 0), Least(to - line * LineT, LineT))
                 <=> line = LineOf(p) /\ from <= At(p) /\ At(p) < to
    <2> DEFINE start == line * LineT
               lt == Most(from - start, 0)
               end == Least(to - start, LineT)
    <2>1. start \in Nat
      BY <1>1, LineStart
    <2> HIDE DEF start
    <2>2. lt \in Nat /\ end \in Nat /\ end <= LineT
      BY <1>2, <1>3, <2>1 DEF Most, Least, start
    <2>3. OnLine(p, line, lt, end) <=> line = LineOf(p) /\ lt <= Offset(p) /\ Offset(p) < end
      BY <1>1, <2>2, OnLineLemma
    <2>4. line = LineOf(p) => At(p) = start + Offset(p)
      BY DEF At, start
    <2>5. lt <= Offset(p) <=> from <= start + Offset(p)
      BY <1>2, <2>1 DEF Most
    <2>6. Offset(p) < end <=> start + Offset(p) < to
      BY <1>2, <2>1 DEF Least
    <2> QED BY <2>3, <2>4, <2>5, <2>6 DEF start
  <1>4. from <= At(p) /\ At(p) < to => from < LineOf(p) * LineT + LineT /\ LineOf(p) * LineT < to
    <2> DEFINE start == LineOf(p) * LineT
    <2>1. start \in Nat /\ At(p) = start + Offset(p)
      BY <1>1, <1>2, LineStart DEF At
    <2> HIDE DEF start
    <2>2. from <= At(p) /\ At(p) < to => from < start + LineT /\ start < to
      BY <1>2, <2>1
    <2> QED BY <2>2 DEF start
  <1> QED BY <1>2, <1>3, <1>4, Zenon DEF InSpan

\* Painting the span from one time to another, not beyond the frame.
LEMMA PaintedLemma ==
  ASSUME NEW from \in Nat, NEW to \in Nat, NEW screen, NEW colour, NEW old
  PROVE  [p \in Spots |-> IF InSpan(p, from, Least(to, FrameT)) THEN Look(p, screen, colour) ELSE old[p]]
         = [p \in Spots |-> IF from <= At(p) /\ At(p) < to THEN Look(p, screen, colour) ELSE old[p]]
  <1>1. Least(to, FrameT) \in Nat /\ Least(to, FrameT) <= FrameT
    BY Widths DEF Least
  <1>2. \A p \in Spots : InSpan(p, from, Least(to, FrameT)) <=> from <= At(p) /\ At(p) < to
    <2> TAKE p \in Spots
    <2>1. At(p) < Least(to, FrameT) <=> At(p) < to
      BY AtRange, Widths DEF Least
    <2> QED BY <1>1, <2>1, SpanLemma
  <1> QED BY <1>2

-----------------------------------------------------------------------------
(* The invariant of the painter: it is never ahead of the clock, and the    *)
(* clock never further into a frame than one instruction reaches.           *)

BeamInv ==
  /\ now \in Nat /\ running \in BOOLEAN /\ fb_live \in BOOLEAN
  /\ mem \in Memory /\ page \in Banks /\ border \in Colour
  /\ fb = [p \in Spots |-> fb[p]]
  /\ render_pos \in Nat /\ render_pos <= FrameT
  /\ now <= (IF running THEN FrameT + Overrun ELSE Overrun)
  /\ running /\ fb_live => render_pos <= now

\* Spots that the beam has passed and the painter has not.
Late(p) == running /\ fb_live /\ render_pos <= At(p) /\ At(p) < now

LEMMA OwedLemma ==
  ASSUME BeamInv
  PROVE  Owed = [p \in Spots |-> IF Late(p) THEN Look(p, mem[page], border) ELSE fb[p]]
  BY PaintedLemma DEF BeamInv, Owed, Painted, Late

LEMMA OwedNextLemma ==
  ASSUME BeamInv'
  PROVE  Owed' = [p \in Spots |-> IF Late(p)' THEN Look(p, mem'[page'], border') ELSE fb'[p]]
  BY PaintedLemma DEF BeamInv, Owed, Painted, Late

\* The hardware and the painter mean the same picture.
LEMMA SamePicture ==
  /\ Ula!Spots = Spots /\ Ula!FrameT = FrameT /\ Ula!Memory = Memory /\ Ula!Dark = Dark
  /\ \A p : Ula!At(p) = At(p)
  /\ \A p, screen, colour : Ula!Look(p, screen, colour) = Look(p, screen, colour)
  <1>1. Ula!Centre = Centre /\ Ula!LeftWidth = LeftWidth /\ Ula!FrameT = FrameT /\ Ula!Dark = Dark
    BY DEF Ula!Centre, Centre, Ula!LeftWidth, LeftWidth, Ula!FrameT, FrameT, Ula!Dark, Dark
  <1>2. Ula!Spots = Spots /\ Ula!Memory = Memory
    BY <1>1 DEF Ula!Spots, Spots, Ula!Memory, Memory, Ula!Cells, Cells, Ula!PixelCells, PixelCells,
                Ula!AttrCells, AttrCells
  <1>3. \A p : (Ula!InPaper(p) <=> InPaper(p)) /\ Ula!BlockOf(p) = BlockOf(p)
    BY <1>1, Zenon DEF Ula!InPaper, InPaper, Ula!OnDisplay, OnDisplay, Ula!BlockOf, BlockOf
  <1>4. \A p : Ula!At(p) = At(p)
    BY <1>1, <1>3, Zenon DEF Ula!At, At, Ula!LineOf, LineOf, Ula!Offset, Offset
  <1>5. \A p, screen, colour : Ula!Look(p, screen, colour) = Look(p, screen, colour)
    BY <1>3, Zenon DEF Ula!Look, Look
  <1> QED BY <1>1, <1>2, <1>4, <1>5

\* Catching up paints what is late.
LEMMA CatchupLemma ==
  ASSUME BeamInv, NEW d \in Nat, Catchup(now + d), running, fb_live
  PROVE  /\ fb' = [p \in Spots |-> IF render_pos <= At(p) /\ At(p) < now + d
                                     THEN Look(p, mem[page], border) ELSE fb[p]]
         /\ render_pos' = Least(now + d, FrameT)
  <1>1. now + d \in Nat /\ render_pos \in Nat /\ render_pos <= now + d /\ render_pos <= FrameT /\ FrameT \in Nat
    BY Widths DEF BeamInv
  <1>2. CASE Least(now + d, FrameT) > render_pos
    BY <1>1, <1>2, PaintedLemma DEF Catchup, Painted
  <1>3. CASE ~(Least(now + d, FrameT) > render_pos)
    <2>1. render_pos = Least(now + d, FrameT)
      BY <1>1, <1>3 DEF Least
    <2>2. \A p \in Spots : ~(render_pos <= At(p) /\ At(p) < now + d)
      BY <1>1, <2>1, AtRange DEF Least
    <2>3. fb' = fb /\ render_pos' = render_pos
      BY <1>3 DEF Catchup
    <2> QED BY <2>1, <2>2, <2>3 DEF BeamInv
  <1> QED BY <1>2, <1>3

\* An access paints first, or changes nothing that shows.
LEMMA AccessDraws ==
  ASSUME BeamInv, NEW d \in Nat, Passes(d),
         mem' \in Memory, page' \in Banks, border' \in Colour,
         \/ fb_live /\ Catchup(now + d)
         \/ /\ UNCHANGED <<fb, render_pos>>
            /\ fb_live => \A p \in Spots : Look(p, mem'[page'], border') = Look(p, mem[page], border)
  PROVE  BeamInv' /\ Ula!Draw(d)
  <1>1. /\ running /\ running' = running /\ fb_live' = fb_live /\ fb_live \in BOOLEAN
        /\ now' = now + d /\ now \in Nat /\ now' \in Nat /\ now' <= FrameT + Overrun
        /\ render_pos \in Nat /\ render_pos <= FrameT /\ FrameT \in Nat
        /\ fb_live => render_pos <= now
    BY Widths DEF BeamInv, Passes
  <1>2. CASE fb_live /\ Catchup(now + d)
    <2>1. /\ fb' = [p \in Spots |-> IF render_pos <= At(p) /\ At(p) < now + d
                                     THEN Look(p, mem[page], border) ELSE fb[p]]
          /\ render_pos' = Least(now + d, FrameT)
      BY <1>1, <1>2, CatchupLemma
    <2>2. BeamInv'
      BY <1>1, <2>1 DEF BeamInv, Least
    <2>3. \A p \in Spots : ~Late(p)'
      BY <1>1, <2>1, AtRange DEF Late, Least
    <2>4. Owed' = fb'
      BY <2>1, <2>2, <2>3, OwedNextLemma
    <2>5. ASSUME NEW p \in Spots
          PROVE fb'[p] = IF now <= At(p) /\ At(p) < now + d THEN Look(p, mem[page], border) ELSE Owed[p]
      <3>1. Owed[p] = IF Late(p) THEN Look(p, mem[page], border) ELSE fb[p]
        BY OwedLemma
      <3>2. At(p) \in Nat
        BY AtRange
      <3> QED BY <1>1, <1>2, <2>1, <3>1, <3>2 DEF Late
    <2>6. Ula!Lit(d) = fb'
      BY <1>2, <2>1, <2>5, SamePicture DEF Ula!Lit
    <2> QED BY <1>1, <2>2, <2>4, <2>6, SamePicture DEF Ula!Draw
  <1>3. CASE /\ UNCHANGED <<fb, render_pos>>
             /\ fb_live => \A p \in Spots : Look(p, mem'[page'], border') = Look(p, mem[page], border)
    <2>1. BeamInv'
      BY <1>1, <1>3 DEF BeamInv
    <2>2. ASSUME NEW p \in Spots
          PROVE  Owed'[p] = IF fb_live /\ now <= At(p) /\ At(p) < now + d
                              THEN Look(p, mem[page], border) ELSE Owed[p]
      <3>1. Owed[p] = IF Late(p) THEN Look(p, mem[page], border) ELSE fb[p]
        BY OwedLemma
      <3>2. Owed'[p] = IF Late(p)' THEN Look(p, mem'[page'], border') ELSE fb'[p]
        BY <2>1, OwedNextLemma
      <3>3. At(p) \in Nat
        BY AtRange
      <3>4. Late(p)' <=> Late(p) \/ (fb_live /\ now <= At(p) /\ At(p) < now + d)
        BY <1>1, <1>3, <3>3 DEF Late
      <3>5. Late(p)' => fb_live
        BY <1>1 DEF Late
      <3> QED BY <1>3, <3>1, <3>2, <3>4, <3>5
    <2>3. Ula!Lit(d) = Owed'
      <3>1. Owed' = [p \in Spots |-> Owed'[p]]
        BY <2>1, OwedNextLemma
      <3> QED BY <2>2, <3>1, SamePicture DEF Ula!Lit
    <2> QED BY <1>1, <2>1, <2>3, SamePicture DEF Ula!Draw
  <1> QED BY <1>2, <1>3

LEMMA PokeDraws ==
  ASSUME BeamInv, NEW d \in Nat, NEW bank \in Banks, NEW cell \in Cells, NEW v \in Byte,
         WriteCell(d, bank, cell, v)
  PROVE  BeamInv' /\ Ula!Draw(d)
  <1>1. mem \in Memory /\ page \in Banks /\ border \in Colour
    BY DEF BeamInv
  <1>2. Passes(d) /\ page' = page /\ border' = border /\ mem' = [mem EXCEPT ![bank][cell] = v]
    BY DEF WriteCell
  <1>3. mem' \in Memory
    BY <1>1, <1>2 DEF Memory
  <1>4. CASE bank = page /\ mem[bank][cell] # v
    BY <1>1, <1>2, <1>3, <1>4, AccessDraws DEF WriteCell, Before
  <1>5. CASE ~(bank = page /\ mem[bank][cell] # v)
    <2>1. mem'[page] = mem[page]
      BY <1>1, <1>2, <1>5 DEF Memory
    <2> QED BY <1>1, <1>2, <1>3, <1>5, <2>1, AccessDraws DEF WriteCell, Before
  <1> QED BY <1>4, <1>5

LEMMA FlipDraws ==
  ASSUME BeamInv, NEW d \in Nat, NEW bank \in Banks, FlipPage(d, bank)
  PROVE  BeamInv' /\ Ula!Draw(d)
  BY AccessDraws DEF FlipPage, Before, BeamInv

LEMMA BorderDraws ==
  ASSUME BeamInv, NEW d \in Nat, NEW colour \in Colour, SetBorder(d, colour)
  PROVE  BeamInv' /\ Ula!Draw(d)
  BY AccessDraws DEF SetBorder, Before, BeamInv

LEMMA IdleDraws ==
  ASSUME BeamInv, NEW d \in Nat, BeamIdle(d)
  PROVE  BeamInv' /\ Ula!Draw(d)
  BY AccessDraws DEF BeamIdle, BeamInv

\* The end of the frame paints the rest of it and starts the clock of the next.
LEMMA FrameDraws ==
  ASSUME BeamInv, NEW d \in Nat, EndFrame(d)
  PROVE  BeamInv' /\ Ula!Draw(d)
  <1>1. /\ running /\ ~running' /\ running' \in BOOLEAN /\ fb_live' = fb_live /\ fb_live \in BOOLEAN
        /\ now + d >= FrameT /\ now + d <= FrameT + Overrun /\ now' = now + d - FrameT
        /\ now \in Nat /\ FrameT \in Nat /\ Overrun \in Nat
        /\ render_pos \in Nat /\ render_pos <= FrameT /\ (fb_live => render_pos <= now)
        /\ mem' = mem /\ page' = page /\ border' = border
    BY Widths, FrameAssumption DEF BeamInv, EndFrame
  <1>2. ASSUME fb_live
        PROVE  /\ fb' = [p \in Spots |-> IF render_pos <= At(p) THEN Look(p, mem[page], border) ELSE fb[p]]
               /\ render_pos' = FrameT
    <2>1. Finish
      BY <1>2 DEF EndFrame
    <2>2. CASE render_pos < FrameT
      <3>1. fb' = [p \in Spots |-> IF InSpan(p, render_pos, FrameT)
                                     THEN Look(p, mem[page], border) ELSE fb[p]]
        BY <2>1, <2>2 DEF Finish, Painted
      <3>2. \A p \in Spots : InSpan(p, render_pos, FrameT) <=> render_pos <= At(p)
        BY <1>1, SpanLemma, AtRange
      <3> QED BY <2>1, <3>1, <3>2 DEF Finish
    <2>3. CASE ~(render_pos < FrameT)
      <3>1. \A p \in Spots : ~(render_pos <= At(p))
        BY <1>1, <2>3, AtRange
      <3>2. fb' = fb
        BY <2>1, <2>3 DEF Finish
      <3> QED BY <2>1, <3>1, <3>2 DEF Finish, BeamInv
    <2> QED BY <2>2, <2>3
  <1>3. ~fb_live => fb' = fb /\ render_pos' = render_pos
    BY DEF EndFrame
  <1>4. fb' = [p \in Spots |-> fb'[p]] /\ render_pos' \in Nat /\ render_pos' <= FrameT
    <2>1. CASE fb_live
      BY <1>1, <1>2, <2>1
    <2>2. CASE ~fb_live
      BY <1>1, <1>3, <2>2 DEF BeamInv
    <2> QED BY <2>1, <2>2
  <1>5. BeamInv'
    BY <1>1, <1>4 DEF BeamInv
  <1>6. Owed' = fb'
    BY <1>1 DEF Owed
  <1>7. ASSUME NEW p \in Spots
        PROVE  fb'[p] = IF fb_live /\ now <= At(p) /\ At(p) < now + d
                          THEN Look(p, mem[page], border) ELSE Owed[p]
    <2>1. Owed[p] = IF Late(p) THEN Look(p, mem[page], border) ELSE fb[p]
      BY OwedLemma
    <2>2. At(p) \in Nat /\ At(p) < FrameT
      BY AtRange
    <2>3. CASE fb_live
      BY <1>1, <1>2, <2>1, <2>2, <2>3 DEF Late
    <2>4. CASE ~fb_live
      BY <1>3, <2>1, <2>4 DEF Late
    <2> QED BY <2>3, <2>4
  <1>8. Ula!Lit(d) = Owed'
    BY <1>4, <1>6, <1>7, SamePicture DEF Ula!Lit
  <1> QED BY <1>1, <1>5, <1>8, SamePicture DEF Ula!Draw, BeamInv

\* Between two frames the painter stands still: the beam has not reached the picture.
LEMMA BeginHosts ==
  ASSUME BeamInv, NEW live \in BOOLEAN, BeginFrame(live)
  PROVE  BeamInv' /\ Ula!Host
  <1>1. /\ ~running /\ running' = TRUE /\ fb_live' = live /\ now' = now /\ now \in Nat /\ now <= Overrun
        /\ mem' = mem /\ page' = page /\ border' = border /\ fb' = fb /\ render_pos' = 0
        /\ FrameT \in Nat /\ Overrun \in Nat
    BY Widths, FrameAssumption DEF BeginFrame, BeamInv
  <1>2. BeamInv'
    BY <1>1 DEF BeamInv
  <1>3. \A p \in Spots : ~Late(p)'
    BY <1>1, AtRange DEF Late
  <1>4. Owed' = fb
    BY <1>1, <1>2, <1>3, OwedNextLemma DEF BeamInv
  <1>5. Owed = fb
    BY <1>1 DEF Owed
  <1> QED BY <1>1, <1>2, <1>4, <1>5, SamePicture DEF Ula!Host, BeamInv

LEMMA LoadHosts ==
  ASSUME BeamInv, NEW m \in Memory, NEW bank \in Banks, NEW colour \in Colour, LoadState(m, bank, colour)
  PROVE  BeamInv' /\ Ula!Host
  <1>1. BeamInv'
    BY DEF BeamInv, LoadState, painter
  <1>2. Owed' = fb /\ Owed = fb
    BY DEF Owed, LoadState, painter
  <1> QED BY <1>1, <1>2, SamePicture DEF Ula!Host, LoadState, BeamInv, painter

LEMMA BeamStutters ==
  ASSUME BeamInv, UNCHANGED beamVars
  PROVE  BeamInv' /\ UNCHANGED Ula!rasterVars
  BY DEF BeamInv, beamVars, painter, Ula!rasterVars, Owed, Painted

-----------------------------------------------------------------------------
LEMMA BeamStart == Init => BeamInv /\ Ula!Init
  <1> SUFFICES ASSUME Init PROVE BeamInv /\ Ula!Init
    OBVIOUS
  <1>1. mem \in Memory
    BY FrameAssumption DEF Init, BeamInit, Memory
  <1>2. fb = [p \in Spots |-> fb[p]]
    BY DEF Init, BeamInit
  <1>3. now = 0 /\ render_pos = 0 /\ ~running /\ running \in BOOLEAN /\ fb_live \in BOOLEAN
    BY DEF Init, BeamInit
  <1>4. page \in Banks /\ border \in Colour
    BY FrameAssumption DEF Init, BeamInit
  <1>5. BeamInv
    BY <1>1, <1>2, <1>3, <1>4, Widths, FrameAssumption DEF BeamInv
  <1> QED BY <1>5, SamePicture DEF Init, BeamInit, Ula!Init, Owed, Ula!Cells, Cells, Ula!PixelCells,
             PixelCells, Ula!AttrCells, AttrCells

BeamStep == BeamInv' /\ [Ula!Next]_(Ula!rasterVars)

LEMMA StepDraws == ASSUME BeamInv, [Next]_vars PROVE BeamStep
  <1>1. ASSUME NEW d \in Nat, d <= FrameT + Overrun, BeamInv' /\ Ula!Draw(d) PROVE BeamStep
    BY <1>1, SamePicture, Widths, FrameAssumption DEF BeamStep, Ula!Next
  <1>2. BeamInv' /\ Ula!Host => BeamStep
    BY DEF BeamStep, Ula!Next
  <1>3. \A d \in Times : d \in Nat
    BY AccessAssumption
  <1>4. \A d \in Nat : Passes(d) \/ EndFrame(d) => d <= FrameT + Overrun
    BY Widths, FrameAssumption DEF Passes, EndFrame, BeamInv
  <1>5. ASSUME NEW d \in Times, Poke(d) PROVE BeamStep
    <2>1. PICK w \in Pokes : WriteCell(d, w[1], w[2], w[3])
      BY <1>5 DEF Poke
    <2>2. w[1] \in Banks /\ w[2] \in Cells /\ w[3] \in Byte
      BY AccessAssumption
    <2>3. Passes(d)
      BY <2>1 DEF WriteCell
    <2> QED BY <1>1, <1>3, <1>4, <2>1, <2>2, <2>3, PokeDraws
  <1>6. ASSUME NEW d \in Times, OutFE(d) PROVE BeamStep
    <2>1. PICK colour \in Colour : SetBorder(d, colour)
      BY <1>6 DEF OutFE
    <2>2. Passes(d)
      BY <2>1 DEF SetBorder
    <2> QED BY <1>1, <1>3, <1>4, <2>1, <2>2, BorderDraws
  <1>7. ASSUME NEW d \in Times, Out7FFD(d) PROVE BeamStep
    <2>1. PICK bank \in Banks : FlipPage(d, bank)
      BY <1>7 DEF Out7FFD
    <2>2. Passes(d)
      BY <2>1 DEF FlipPage
    <2> QED BY <1>1, <1>3, <1>4, <2>1, <2>2, FlipDraws
  <1>8. ASSUME NEW d \in Times, OutFFFD(d) \/ OutBFFD(d) PROVE BeamStep
    <2>1. BeamIdle(d) /\ Passes(d)
      BY <1>8 DEF OutFFFD, OutBFFD, BeamIdle
    <2> QED BY <1>1, <1>3, <1>4, <2>1, IdleDraws
  <1>9. ASSUME NEW d \in 0 .. FrameT + Overrun, FrameDone(d) PROVE BeamStep
    <2>1. d \in Nat /\ EndFrame(d)
      BY <1>9, Widths, FrameAssumption DEF FrameDone
    <2> QED BY <1>1, <1>4, <2>1, FrameDraws
  <1>10. CASE NextFrame
    <2>1. PICK live \in BOOLEAN : BeginFrame(live)
      BY <1>10 DEF NextFrame
    <2> QED BY <1>2, <2>1, BeginHosts
  <1>11. CASE HostLoads
    <2>1. PICK w \in Pokes, bank \in Banks, colour \in Colour :
            LoadState([mem EXCEPT ![w[1]][w[2]] = w[3]], bank, colour)
      BY <1>11 DEF HostLoads
    <2>2. w[1] \in Banks /\ w[2] \in Cells /\ w[3] \in Byte
      BY AccessAssumption
    <2>3. [mem EXCEPT ![w[1]][w[2]] = w[3]] \in Memory
      BY <2>2 DEF BeamInv, Memory
    <2> QED BY <1>2, <2>1, <2>3, LoadHosts
  <1>12. CASE Exit \/ UNCHANGED vars
    BY <1>12, BeamStutters DEF Exit, vars, BeamStep
  <1> QED BY <1>5, <1>6, <1>7, <1>8, <1>9, <1>10, <1>11, <1>12, Zenon DEF Next

LEMMA BeamInvariant == Spec => []BeamInv
  <1>1. BeamInv /\ [Next]_vars => BeamInv'
    BY StepDraws DEF BeamStep
  <1>2. Init => BeamInv
    BY BeamStart
  <1> QED BY <1>1, <1>2, PTL DEF Spec

\* Painting in arrears implements the hardware: for every frame geometry, program and
\* times of its accesses, memory contents and host, every change of the picture lands at the
\* beam's true position.
THEOREM PainterIsRaster == Spec => PictureIsRaster
  <1>1. BeamInv /\ [Next]_vars => [Ula!Next]_(Ula!rasterVars)
    BY StepDraws DEF BeamStep
  <1>2. Init => Ula!Init
    BY BeamStart
  <1> QED BY <1>1, <1>2, BeamInvariant, PTL DEF Spec, PictureIsRaster, Ula!Spec

-----------------------------------------------------------------------------

\* The two renderers agree on every frame that nothing changed in, whatever its geometry.
THEOREM PaintersAgree == Spec => RenderersAgree
  <1>1. ASSUME BeamInv, NEW d \in 0 .. FrameT + Overrun, FrameDone(d), fb_live, render_pos = 0
        PROVE  Rendered' = Fallback
    <2>0. Rendered' = fb'
      BY <1>1 DEF FrameDone, EndFrame, Finish, Rendered
    <2>1. Finish /\ fb = [p \in Spots |-> fb[p]] /\ FrameT \in Nat
      BY <1>1, Widths DEF FrameDone, EndFrame, BeamInv
    <2>2. CASE 0 < FrameT
      <3>1. fb' = [p \in Spots |-> IF InSpan(p, 0, FrameT) THEN Look(p, mem[page], border) ELSE fb[p]]
        BY <1>1, <2>1, <2>2 DEF Finish, Painted
      <3>2. \A p \in Spots : InSpan(p, 0, FrameT)
        BY <2>1, SpanLemma, AtRange
      <3> QED BY <2>0, <3>1, <3>2 DEF Fallback
    <2>3. CASE ~(0 < FrameT)
      <3>1. \A p \in Spots : FALSE
        BY <2>1, <2>3, AtRange
      <3>2. fb' = fb
        BY <1>1, <2>1, <2>3 DEF Finish
      <3> QED BY <2>0, <2>1, <3>1, <3>2 DEF Fallback
    <2> QED BY <2>2, <2>3
  <1> DEFINE Agree == \A d \in 0 .. FrameT + Overrun : FrameDone(d) /\ fb_live /\ render_pos = 0 => Rendered' = Fallback
  <1>2. BeamInv /\ [Next]_vars => [Agree]_vars
    BY <1>1
  <1> QED BY <1>2, BeamInvariant, PTL DEF Spec, RenderersAgree

-----------------------------------------------------------------------------
(* The sample buffer between synthesis, the audio device and the .wav file. *)

Sample == Nat \X ([Registers -> RegByte] \X (0 .. EnvEnd))

SoundTypes ==
  /\ level \in 0 .. 1 /\ pos \in 0 .. SampleLen - 1 /\ acc \in Nat /\ behind \in Nat
  /\ chip \in Chip
  /\ buf \in Seq(Sample) /\ queued \in Seq(Sample) /\ sent \in 0 .. Len(buf)

SoundInv == SoundTypes /\ DeviceHearsTheFile /\ BufferDrained

\* A sequence grows by what is appended to it, and what it had stays.
LEMMA Appended ==
  ASSUME NEW s \in Seq(Sample), NEW t \in Seq(Sample), NEW n \in 0 .. Len(s)
  PROVE  /\ s \o t \in Seq(Sample) /\ n \in 0 .. Len(s \o t)
         /\ SubSeq(s \o t, 1, n) = SubSeq(s, 1, n)
  <1>1. s \o t \in Seq(Sample) /\ Len(s \o t) = Len(s) + Len(t) /\ Len(s) \in Nat /\ Len(t) \in Nat
    BY ConcatProperties
  <1>2. n \in 0 .. Len(s \o t)
    BY <1>1
  <1>3. SubSeq(s \o t, 1, n) = SubSeq(s, 1, n)
    <2>1. CASE n = 0
      BY <2>1, SubSeqEmpty
    <2>2. CASE n # 0
      <3>1. n \in 1 .. Len(s) /\ 1 \in 1 .. Len(s)
        BY <1>1, <2>2
      <3> QED BY <3>1, SubSeqOfConcat1
    <2> QED BY <2>1, <2>2
  <1> QED BY <1>1, <1>2, <1>3

\* Cut at any place, a sequence is joined again.
LEMMA Rejoined ==
  ASSUME NEW all \in Seq(Sample), NEW n \in 0 .. Len(all)
  PROVE  SubSeq(all, 1, n) \o SubSeq(all, n + 1, Len(all)) = all
  <1>1. Len(all) \in Nat
    BY LenProperties
  <1>2. 1 \in 1 .. Len(all) + 1 /\ n \in 1 - 1 .. Len(all) /\ Len(all) \in n .. Len(all)
    BY <1>1
  <1>3. SubSeq(all, 1, n) \o SubSeq(all, n + 1, Len(all)) = SubSeq(all, 1, Len(all))
    BY <1>2, ConcatAdjacentSubSeq
  <1> QED BY <1>3, SubSeqFull

LEMMA Division ==
  ASSUME NEW a \in Nat, NEW b \in Nat \ {0}
  PROVE  a \div b \in Nat /\ a % b \in 0 .. b - 1
  BY SMT

LEMMA Multiplied == ASSUME NEW a \in Nat, NEW b \in Nat PROVE a * b \in Nat
  BY SMT

\* Synthesis yields samples and leaves the edge inside one.
LEMMA SynthTypes ==
  ASSUME SoundTypes, NEW d \in Nat
  PROVE  /\ Done(d) \in Nat /\ Synth(d) \in Seq(Sample)
         /\ Position(d) \in 0 .. SampleLen - 1 /\ Integral(d) \in Nat
         /\ Clocked(chip, Done(d)) \in Chip
  <1>1. /\ level \in Nat /\ pos \in Nat /\ acc \in Nat /\ behind + d \in Nat /\ SampleLen - pos \in Nat
        /\ SampleLen \in Nat \ {0} /\ TState \in Nat /\ EnvEnd \in Nat
    BY SampleAssumption, PsgAssumption DEF SoundTypes
  <1>2. Elapsed(d) \in Nat
    BY <1>1, Multiplied DEF Elapsed
  <1>3. pos + Elapsed(d) \in Nat
    BY <1>1, <1>2
  <1>4. Done(d) \in Nat /\ Position(d) \in 0 .. SampleLen - 1
    BY <1>1, <1>3, Division DEF Done, Position
  <1>5. Position(d) \in Nat /\ SampleLen \in Nat
    BY <1>1, <1>4
  <1>6. Integral(d) \in Nat
    <2>1. level * Elapsed(d) \in Nat /\ level * Position(d) \in Nat
      BY <1>1, <1>2, <1>5, Multiplied
    <2> QED BY <1>1, <2>1 DEF Integral
  <1>7. \A k \in Nat : Clocked(chip, k) \in Chip
    <2> TAKE k \in Nat
    <2>1. chip \in Chip /\ chip.env \in 0 .. EnvEnd
      BY DEF SoundTypes, Chip
    <2>2. (IF chip.env + k > EnvEnd THEN EnvEnd ELSE chip.env + k) \in 0 .. EnvEnd
      BY <1>1, <2>1
    <2> QED BY <2>1, <2>2 DEF Chip, Clocked
  <1>8. \A k \in Nat : DutyOf(k) \in Nat
    <2>1. level * (SampleLen - pos) \in Nat /\ level * SampleLen \in Nat
      BY <1>1, <1>5, Multiplied
    <2> QED BY <1>1, <2>1 DEF DutyOf
  <1>9. \A k \in Nat : <<DutyOf(k), Tone(Clocked(chip, k))>> \in Sample
    <2> TAKE k \in Nat
    <2>1. Tone(Clocked(chip, k)) \in [Registers -> RegByte] \X (0 .. EnvEnd)
      BY <1>7 DEF Tone, Chip
    <2> QED BY <1>8, <2>1 DEF Sample
  <1>10. Synth(d) \in Seq(Sample)
    BY <1>4, <1>9 DEF Synth
  <1> QED BY <1>4, <1>6, <1>7, <1>10

-----------------------------------------------------------------------------
\* Whatever appends to the buffer leaves what the device has heard at its front.
LEMMA AdvanceKeeps ==
  ASSUME SoundTypes, DeviceHearsTheFile, NEW d \in Nat, Advance(d),
         level' \in 0 .. 1, chip' \in Chip, UNCHANGED <<queued, sent, window, keep>>
  PROVE  SoundTypes' /\ DeviceHearsTheFile'
  <1>1. /\ buf' = buf \o Synth(d) /\ Synth(d) \in Seq(Sample) /\ buf \in Seq(Sample) /\ sent \in 0 .. Len(buf)
        /\ pos' = Position(d) /\ acc' = Integral(d) /\ behind' = 0
    BY SynthTypes DEF Advance, SoundTypes
  <1>2. buf' \in Seq(Sample) /\ sent \in 0 .. Len(buf') /\ SubSeq(buf', 1, sent) = SubSeq(buf, 1, sent)
    BY <1>1, Appended
  <1>3. pos' \in 0 .. SampleLen - 1 /\ acc' \in Nat /\ behind' \in Nat
    BY <1>1, SynthTypes
  <1> QED BY <1>2, <1>3 DEF SoundTypes, DeviceHearsTheFile

\* So does whatever leaves it alone.
LEMMA QuietKeeps ==
  ASSUME SoundTypes, DeviceHearsTheFile, behind' \in Nat, chip' \in Chip,
         UNCHANGED <<level, pos, acc, buf, queued, sent, window, keep>>
  PROVE  SoundTypes' /\ DeviceHearsTheFile'
  BY DEF SoundTypes, DeviceHearsTheFile

LEMMA ChipTypes ==
  /\ Silent \in Chip
  /\ \A reg \in [Registers -> RegByte], r \in Registers : Programmed(reg, r) \in Chip
  /\ \A c \in Chip, r \in Registers : Select(c, r) \in Chip
  /\ \A c \in Chip, v \in RegByte : WriteReg(c, v) \in Chip
  <1>1. 0 \in 0 .. EnvEnd /\ 0 \in Registers /\ 0 \in RegByte
    BY PsgAssumption
  <1>2. \A reg \in [Registers -> RegByte], r \in Registers : Programmed(reg, r) \in Chip
    BY <1>1 DEF Programmed, Chip
  <1>3. Silent \in Chip
    BY <1>1, <1>2 DEF Silent
  <1>4. \A c \in Chip, r \in Registers : Select(c, r) \in Chip
    BY DEF Select, Chip
  <1>5. \A c \in Chip, v \in RegByte : WriteReg(c, v) \in Chip
    BY <1>1 DEF WriteReg, Chip
  <1> QED BY <1>2, <1>3, <1>4, <1>5

LEMMA SilenceKeeps ==
  ASSUME SoundTypes, DeviceHearsTheFile, NEW d \in Nat, Silence(d), UNCHANGED <<queued, sent, window, keep>>
  PROVE  SoundTypes' /\ DeviceHearsTheFile'
  <1>1. behind' \in Nat /\ chip' \in Chip
    BY DEF SoundTypes, Silence
  <1> QED BY <1>1, QuietKeeps DEF Silence

\* The drain hands over what the device has not heard, and forgets it or notes it.
LEMMA FrameKeeps ==
  ASSUME SoundTypes, DeviceHearsTheFile, NEW d \in Nat, FrameSound(d), UNCHANGED <<window, keep>>
  PROVE  /\ SoundTypes' /\ DeviceHearsTheFile'
         /\ window /\ ~keep => buf' = <<>> /\ behind' = 0
  <1>1. CASE window
    <2> DEFINE new == Synth(d)
               all == buf \o new
    <2>1. /\ Drain(all) /\ pos' = Position(d) /\ acc' = Integral(d) /\ behind' = 0
          /\ chip' = Clocked(chip, Done(d)) /\ level' = level
      BY <1>1 DEF FrameSound
    <2>2. buf \in Seq(Sample) /\ new \in Seq(Sample) /\ sent \in 0 .. Len(buf) /\ queued \in Seq(Sample)
      BY SynthTypes DEF SoundTypes
    <2> HIDE DEF new
    <2>3. /\ all \in Seq(Sample)
          /\ SubSeq(all, sent + 1, Len(all)) \in Seq(Sample)
          /\ SubSeq(buf, 1, sent) \o SubSeq(all, sent + 1, Len(all)) = all
      <3>1. sent \in 0 .. Len(all) /\ SubSeq(all, 1, sent) = SubSeq(buf, 1, sent)
        BY <2>2, Appended
      <3>2. all \in Seq(Sample)
        BY <2>2, ConcatProperties
      <3>3. Len(all) \in Nat /\ sent + 1 \in Nat \ {0}
        BY <2>2, <3>2, LenProperties
      <3>4. \A i \in sent + 1 .. Len(all) : all[i] \in Sample
        BY <3>2, <3>3, ElementOfSeq
      <3>5. SubSeq(all, sent + 1, Len(all)) \in Seq(Sample)
        <4> HIDE DEF all
        <4> QED BY <3>3, <3>4, SubSeqProperties
      <3>6. SubSeq(buf, 1, sent) \o SubSeq(all, sent + 1, Len(all)) = all
        <4> HIDE DEF all
        <4>1. SubSeq(all, 1, sent) \o SubSeq(all, sent + 1, Len(all)) = all
          BY <3>1, <3>2, Rejoined
        <4> QED BY <3>1, <4>1
      <3> QED BY <3>2, <3>5, <3>6
    <2>4. pos' \in 0 .. SampleLen - 1 /\ acc' \in Nat /\ chip' \in Chip /\ level' \in 0 .. 1
      BY <2>1, SynthTypes DEF SoundTypes
    <2> HIDE DEF all
    <2>5. queued' = queued \o SubSeq(all, sent + 1, Len(all)) /\ queued' \in Seq(Sample)
      BY <2>1, <2>2, <2>3, ConcatProperties DEF Drain
    <2>6. Len(all) \in Nat /\ SubSeq(all, 1, Len(all)) = all
      BY <2>3, LenProperties, SubSeqFull
    <2>7. CASE keep
      <3>1. buf' = all /\ sent' = Len(all) /\ queued = SubSeq(buf, 1, sent)
        BY <1>1, <2>1, <2>7 DEF Drain, DeviceHearsTheFile
      <3>2. queued' = all
        BY <2>3, <2>5, <3>1
      <3>3. DeviceHearsTheFile'
        BY <2>6, <3>1, <3>2 DEF DeviceHearsTheFile
      <3>4. buf' \in Seq(Sample) /\ queued' \in Seq(Sample) /\ sent' \in 0 .. Len(buf') /\ behind' \in Nat
        BY <2>1, <2>3, <2>5, <2>6, <3>1
      <3> QED BY <2>4, <2>7, <3>3, <3>4 DEF SoundTypes
    <2>8. CASE ~keep
      <3>1. buf' = <<>> /\ sent' = 0
        BY <2>1, <2>8 DEF Drain
      <3>2. buf' \in Seq(Sample) /\ Len(buf') = 0
        BY <3>1, EmptySeq
      <3> QED BY <2>1, <2>4, <2>5, <2>8, <3>1, <3>2 DEF SoundTypes, DeviceHearsTheFile
    <2> QED BY <2>7, <2>8
  <1>2. CASE ~window
    BY <1>2, SilenceKeeps DEF FrameSound
  <1> QED BY <1>1, <1>2

-----------------------------------------------------------------------------
LEMMA SoundStep == ASSUME SoundInv, [Next]_vars PROVE SoundInv'
  <1>1. SoundTypes /\ DeviceHearsTheFile /\ BufferDrained
    BY DEF SoundInv
  <1>2. \A d \in Times : d \in Nat
    BY AccessAssumption
  <1>3. \A d \in 0 .. FrameT + Overrun : d \in Nat
    BY LineAssumption, FrameAssumption DEF FrameT
  <1>4. \A d \in Nat : Passes(d) => BufferDrained'
    BY DEF Passes, BufferDrained
  <1>5. ASSUME NEW d \in Times, Poke(d) \/ Out7FFD(d) PROVE SoundInv'
    <2>1. Silence(d) /\ Passes(d) /\ UNCHANGED <<queued, sent, window, keep>>
      BY <1>5 DEF Poke, Out7FFD, WriteCell, FlipPage, Access
    <2> QED BY <1>1, <1>2, <1>4, <2>1, SilenceKeeps DEF SoundInv
  <1>6. ASSUME NEW d \in Times, OutFE(d) PROVE SoundInv'
    <2>1. PICK v \in 0 .. 1 : Edge(d, v)
      BY <1>6 DEF OutFE
    <2>2. Passes(d) /\ UNCHANGED <<queued, sent, window, keep>>
      BY <1>6 DEF OutFE, SetBorder, Access
    <2>3. CASE v = level
      BY <1>1, <1>2, <1>4, <2>1, <2>2, <2>3, SilenceKeeps DEF Edge, SoundInv
    <2>4. CASE v # level
      <3>1. Advance(d) /\ level' = v /\ chip' = Clocked(chip, Done(d))
        BY <2>1, <2>4 DEF Edge
      <3>2. chip' \in Chip
        BY <1>1, <1>2, <3>1, SynthTypes
      <3> QED BY <1>1, <1>2, <1>4, <2>2, <3>1, <3>2, AdvanceKeeps DEF SoundInv
    <2> QED BY <2>3, <2>4
  <1>7. ASSUME NEW d \in Times, OutFFFD(d) PROVE SoundInv'
    <2>1. PICK r \in Registers : SelectOut(d, r)
      BY <1>7 DEF OutFFFD
    <2>2. Passes(d) /\ UNCHANGED <<queued, sent, window, keep>>
      BY <1>7 DEF OutFFFD, BeamIdle, Access
    <2>3. chip' \in Chip /\ behind' \in Nat /\ UNCHANGED <<level, pos, acc, buf>>
      BY <1>1, <1>2, <2>1, ChipTypes DEF SelectOut, SoundTypes
    <2> QED BY <1>1, <1>2, <1>4, <2>2, <2>3, QuietKeeps DEF SoundInv
  <1>8. ASSUME NEW d \in Times, OutBFFD(d) PROVE SoundInv'
    <2>1. PICK v \in RegByte : DataOut(d, v)
      BY <1>8 DEF OutBFFD
    <2>2. Passes(d) /\ UNCHANGED <<queued, sent, window, keep>>
      BY <1>8 DEF OutBFFD, BeamIdle, Access
    <2>3. Advance(d) /\ level' \in 0 .. 1 /\ chip' \in Chip
      BY <1>1, <1>2, <2>1, ChipTypes, SynthTypes DEF DataOut, SoundTypes
    <2> QED BY <1>1, <1>2, <1>4, <2>2, <2>3, AdvanceKeeps DEF SoundInv
  <1>9. ASSUME NEW d \in 0 .. FrameT + Overrun, FrameDone(d) PROVE SoundInv'
    <2>1. FrameSound(d) /\ UNCHANGED <<window, keep>>
      BY <1>9 DEF FrameDone
    <2> QED BY <1>1, <1>3, <2>1, FrameKeeps DEF SoundInv, BufferDrained
  <1>10. CASE NextFrame
    <2>1. UNCHANGED soundVars /\ running'
      BY <1>10 DEF NextFrame, BeginFrame
    <2> QED BY <1>1, <2>1 DEF SoundInv, SoundTypes, DeviceHearsTheFile, BufferDrained, soundVars, sound
  <1>11. CASE HostLoads
    <2>1. UNCHANGED <<window, keep, running, level, pos, acc, behind, buf, queued, sent>>
      BY <1>11 DEF HostLoads, LoadState, ChipReset, LoadChip, sound
    <2>2. chip' \in Chip
      <3>1. chip' = chip \/ chip' = Silent \/ \E v \in RegByte, r \in Registers : LoadChip([x \in Registers |-> v], r)
        BY <1>11 DEF HostLoads, ChipReset, sound
      <3> QED BY <1>1, <3>1, ChipTypes DEF LoadChip, SoundTypes
    <2>3. behind' \in Nat
      BY <1>1, <2>1 DEF SoundTypes
    <2> QED BY <1>1, <2>1, <2>2, <2>3, QuietKeeps DEF SoundInv, BufferDrained
  <1>12. CASE Exit
    <2>1. UNCHANGED <<window, keep, running>>
      BY <1>12 DEF Exit, beamVars
    <2>2. CASE keep
      <3>1. Advance(0) /\ chip' = Clocked(chip, Done(0)) /\ UNCHANGED <<level, queued, sent>>
        BY <1>12, <2>2 DEF Exit, SaveWav
      <3>2. chip' \in Chip /\ level' \in 0 .. 1
        BY <1>1, <3>1, SynthTypes DEF SoundTypes
      <3> QED BY <1>1, <2>1, <2>2, <3>1, <3>2, AdvanceKeeps DEF SoundInv, BufferDrained
    <2>3. CASE ~keep
      <3>1. UNCHANGED sound
        BY <1>12, <2>3 DEF Exit
      <3> QED BY <1>1, <2>1, <3>1 DEF SoundInv, SoundTypes, DeviceHearsTheFile, BufferDrained, sound
    <2> QED BY <2>2, <2>3
  <1>13. CASE UNCHANGED vars
    BY <1>1, <1>13 DEF SoundInv, SoundTypes, DeviceHearsTheFile, BufferDrained, vars, beamVars, soundVars, sound
  <1> QED BY <1>5, <1>6, <1>7, <1>8, <1>9, <1>10, <1>11, <1>12, <1>13, Zenon DEF Next

LEMMA SoundStart == Init => SoundInv
  <1> SUFFICES ASSUME Init PROVE SoundInv
    OBVIOUS
  <1>1. <<>> \in Seq(Sample) /\ Len(<<>>) = 0 /\ SubSeq(<<>>, 1, 0) = <<>>
    BY EmptySeq, SubSeqEmpty
  <1>2. 0 \in 0 .. SampleLen - 1
    BY SampleAssumption
  <1> QED BY <1>1, <1>2, ChipTypes DEF Init, SoundInit, SoundInv, SoundTypes, DeviceHearsTheFile, BufferDrained

LEMMA SoundInvariant == Spec => []SoundInv
  <1>1. SoundInv /\ [Next]_vars => SoundInv'
    BY SoundStep
  <1> QED BY <1>1, SoundStart, PTL DEF Spec

\* Whatever is played, the audio device has been given exactly the front of the buffer
\* that a --wav session will save.
THEOREM DeviceHears == Spec => []DeviceHearsTheFile
  <1>1. SoundInv => DeviceHearsTheFile
    BY DEF SoundInv
  <1> QED BY <1>1, SoundInvariant, PTL

\* A window without --wav keeps no sample beyond its frame.
THEOREM Drained == Spec => []BufferDrained
  <1>1. SoundInv => BufferDrained
    BY DEF SoundInv
  <1> QED BY <1>1, SoundInvariant, PTL

-----------------------------------------------------------------------------
(* The speaker. *)

\* What was heard before the edge, and what is heard e moments after it.
Played == IF keep THEN buf ELSE queued \o buf
Whole(e) == (pos + e) \div SampleLen
Rest(e) == (pos + e) % SampleLen
Up(e) == IF Whole(e) = 0 THEN acc + level * e ELSE level * Rest(e)
Note(k) == <<DutyOf(k), Tone(Clocked(chip, k))>>
Heard(e) == [filled |-> Rest(e), duty |-> Up(e), chip |-> Clocked(chip, Whole(e)),
             heard |-> Played \o [k \in 1 .. Whole(e) |-> Note(k)]]

\* One moment more stays in the sample or is the last of it.
LEMMA NextMoment ==
  ASSUME NEW q \in Nat, NEW n \in Nat \ {0}
  PROVE  IF (q % n) + 1 < n THEN (q + 1) % n = (q % n) + 1 /\ (q + 1) \div n = q \div n
         ELSE (q % n) + 1 = n /\ (q + 1) % n = 0 /\ (q + 1) \div n = (q \div n) + 1
  <1> DEFINE a == q \div n
             b == q % n
  <1>1. a \in Nat /\ b \in 0 .. n - 1 /\ q = a * n + b
    BY SMT
  <1>2. \A i \in Nat, j \in 0 .. n - 1 : (i * n + j) \div n = i /\ (i * n + j) % n = j
    BY SMT
  <1> HIDE DEF a, b
  <1>3. CASE b + 1 < n
    <2>1. q + 1 = a * n + (b + 1) /\ b + 1 \in 0 .. n - 1
      BY <1>1, <1>3
    <2>2. (q + 1) \div n = a /\ (q + 1) % n = b + 1
      BY <1>1, <1>2, <2>1
    <2> QED BY <1>3, <2>2 DEF a, b
  <1>4. CASE ~(b + 1 < n)
    <2>1. b + 1 = n /\ q + 1 = (a + 1) * n + 0 /\ a + 1 \in Nat /\ 0 \in 0 .. n - 1
      BY <1>1, <1>4, SMT
    <2>2. (q + 1) \div n = a + 1 /\ (q + 1) % n = 0
      BY <1>2, <2>1
    <2> QED BY <1>4, <2>1, <2>2 DEF a, b
  <1> QED BY <1>3, <1>4

\* The listener's chip is the machine's.
LEMMA OneChip ==
  /\ Ear!Silent = Silent
  /\ \A c, k : Ear!Clocked(c, k) = Clocked(c, k)
  /\ \A c : Ear!Tone(c) = Tone(c)
  /\ \A c, v : Ear!WriteReg(c, v) = WriteReg(c, v)
  /\ \A c, r : Ear!Select(c, r) = Select(c, r)
  /\ \A reg, r : Ear!Programmed(reg, r) = Programmed(reg, r)
  BY DEF Ear!Silent, Ear!Clocked, Ear!Tone, Ear!WriteReg, Ear!Select, Ear!Programmed,
         Silent, Clocked, Tone, WriteReg, Select, Programmed

\* Samples add up, and selecting a register is heard by nobody.
LEMMA ChipClock ==
  ASSUME NEW c \in Chip
  PROVE  /\ Clocked(c, 0) = c
         /\ \A k \in Nat : Clocked(c, k) \in Chip /\ Clocked(Clocked(c, k), 1) = Clocked(c, k + 1)
         /\ \A k \in Nat, r \in Registers : Clocked(Select(c, r), k) = Select(Clocked(c, k), r)
         /\ \A k \in Nat, r \in Registers : Tone(Clocked(Select(c, r), k)) = Tone(Clocked(c, k))
  <1>1. c.env \in 0 .. EnvEnd /\ EnvEnd \in Nat /\ c = [reg |-> c.reg, sel |-> c.sel, env |-> c.env]
        /\ c.reg \in [Registers -> RegByte] /\ c.sel \in Registers
    BY PsgAssumption DEF Chip
  <1> DEFINE Env(k) == IF c.env + k > EnvEnd THEN EnvEnd ELSE c.env + k
  <1>2. \A k \in Nat : Clocked(c, k) = [reg |-> c.reg, sel |-> c.sel, env |-> Env(k)]
    BY <1>1 DEF Clocked
  <1>3. \A k \in Nat : Env(k) \in 0 .. EnvEnd /\ Env(k + 1) = IF Env(k) + 1 > EnvEnd THEN EnvEnd ELSE Env(k) + 1
    BY <1>1
  <1>4. Env(0) = c.env
    BY <1>1
  <1> HIDE DEF Env
  <1>5. Clocked(c, 0) = c
    BY <1>1, <1>2, <1>4
  <1>6. ASSUME NEW k \in Nat
        PROVE  Clocked(c, k) \in Chip /\ Clocked(Clocked(c, k), 1) = Clocked(c, k + 1)
    <2>1. k + 1 \in Nat /\ Clocked(c, k + 1) = [reg |-> c.reg, sel |-> c.sel, env |-> Env(k + 1)]
      BY <1>2
    <2>2. Clocked(c, k) = [reg |-> c.reg, sel |-> c.sel, env |-> Env(k)]
      BY <1>2
    <2>3. Clocked(Clocked(c, k), 1) =
            [reg |-> c.reg, sel |-> c.sel, env |-> IF Env(k) + 1 > EnvEnd THEN EnvEnd ELSE Env(k) + 1]
      <3>1. \A reg, sel, e : Clocked([reg |-> reg, sel |-> sel, env |-> e], 1) =
              [reg |-> reg, sel |-> sel, env |-> IF e + 1 > EnvEnd THEN EnvEnd ELSE e + 1]
        BY DEF Clocked
      <3> QED BY <2>2, <3>1
    <2>4. Env(k) \in 0 .. EnvEnd /\ Env(k + 1) = IF Env(k) + 1 > EnvEnd THEN EnvEnd ELSE Env(k) + 1
      BY <1>3
    <2>5. Clocked(c, k) \in Chip
      BY <1>1, <2>2, <2>4 DEF Chip
    <2> QED BY <2>1, <2>3, <2>4, <2>5
  <1>7. ASSUME NEW k \in Nat, NEW r \in Registers
        PROVE  /\ Clocked(Select(c, r), k) = Select(Clocked(c, k), r)
               /\ Tone(Clocked(Select(c, r), k)) = Tone(Clocked(c, k))
    <2>1. Select(c, r) = [reg |-> c.reg, sel |-> r, env |-> c.env]
      BY <1>1 DEF Select
    <2>2. Clocked(Select(c, r), k) = [reg |-> c.reg, sel |-> r, env |-> Env(k)]
      BY <2>1 DEF Clocked, Env
    <2>3. Select(Clocked(c, k), r) = [reg |-> c.reg, sel |-> r, env |-> Env(k)]
      BY <1>2 DEF Select
    <2> QED BY <1>2, <2>2, <2>3 DEF Tone
  <1> QED BY <1>5, <1>6, <1>7

\* What SynthTypes says of each note and each chip.
LEMMA Notes ==
  ASSUME SoundTypes
  PROVE  /\ SampleLen \in Nat \ {0} /\ TState \in Nat /\ level \in 0 .. 1 /\ acc \in Nat /\ pos \in 0 .. SampleLen - 1
         /\ \A k \in Nat : DutyOf(k) \in Nat /\ Note(k) \in Sample
  <1>1. /\ level \in Nat /\ level \in 0 .. 1 /\ pos \in Nat /\ acc \in Nat /\ SampleLen - pos \in Nat
        /\ SampleLen \in Nat \ {0} /\ TState \in Nat /\ pos \in 0 .. SampleLen - 1
    BY SampleAssumption DEF SoundTypes
  <1>2. \A k \in Nat : DutyOf(k) \in Nat
    <2>1. level * (SampleLen - pos) \in Nat /\ level * SampleLen \in Nat
      BY <1>1, Multiplied
    <2> QED BY <1>1, <2>1 DEF DutyOf
  <1>3. ASSUME NEW k \in Nat PROVE Note(k) \in Sample
    <2>1. Clocked(chip, k) \in Chip
      BY ChipClock DEF SoundTypes
    <2>2. Tone(Clocked(chip, k)) \in [Registers -> RegByte] \X (0 .. EnvEnd)
      BY <2>1 DEF Tone, Chip
    <2> QED BY <1>2, <2>2 DEF Sample, Note
  <1> QED BY <1>1, <1>2, <1>3

\* A list of notes grows at its end.
LEMMA OneNoteMore ==
  ASSUME SoundTypes, NEW m \in Nat
  PROVE  /\ Played \in Seq(Sample) /\ [k \in 1 .. m |-> Note(k)] \in Seq(Sample)
         /\ Played \o [k \in 1 .. m + 1 |-> Note(k)]
              = Append(Played \o [k \in 1 .. m |-> Note(k)], Note(m + 1))
  <1>1. \A k \in Nat : Note(k) \in Sample
    BY Notes
  <1>2. Played \in Seq(Sample)
    BY ConcatProperties DEF Played, SoundTypes
  <1> DEFINE s == [k \in 1 .. m |-> Note(k)]
             t == [k \in 1 .. m + 1 |-> Note(k)]
  <1>3. s \in Seq(Sample) /\ Len(s) = m /\ t \in Seq(Sample) /\ Len(t) = m + 1
    BY <1>1
  <1>4. \A k \in 1 .. m : s[k] = Note(k) /\ t[k] = Note(k)
    OBVIOUS
  <1>5. t[m + 1] = Note(m + 1) /\ Note(m + 1) \in Sample
    BY <1>1
  <1>6. <<Note(m + 1)>> \in Seq(Sample)
    BY <1>5
  <1> HIDE DEF s, t
  <1>7. t = s \o <<Note(m + 1)>>
    <2>1. Append(s, Note(m + 1)) \in Seq(Sample) /\ Len(Append(s, Note(m + 1))) = m + 1
      BY <1>3, <1>5, AppendProperties
    <2>2. \A k \in 1 .. m + 1 : Append(s, Note(m + 1))[k] = t[k]
      BY <1>3, <1>4, <1>5, AppendProperties
    <2>3. t = Append(s, Note(m + 1))
      BY <1>3, <2>1, <2>2, SeqEqual
    <2> QED BY <1>3, <1>5, <2>3, AppendIsConcat
  <1>8. Played \o t = (Played \o s) \o <<Note(m + 1)>>
    BY <1>2, <1>3, <1>6, <1>7, ConcatAssociative
  <1>9. Played \o s \in Seq(Sample)
    BY <1>2, <1>3, ConcatProperties
  <1>10. Append(Played \o s, Note(m + 1)) = (Played \o s) \o <<Note(m + 1)>>
    BY <1>5, <1>9, AppendIsConcat
  <1> QED BY <1>2, <1>3, <1>8, <1>10 DEF s, t

\* One moment of the listener is one of the synthesiser's.
LEMMA OneMomentOn ==
  ASSUME SoundTypes, NEW e \in Nat
  PROVE  Ear!Moment(Heard(e)) = Heard(e + 1)
  <1> DEFINE q == pos + e
             n == SampleLen
             m == Whole(e)
             r == Rest(e)
             h == Played \o [k \in 1 .. m |-> Note(k)]
             u == Up(e)
             c == Clocked(chip, m)
  <1>1. /\ n \in Nat \ {0} /\ level \in 0 .. 1 /\ acc \in Nat /\ pos \in 0 .. n - 1 /\ q \in Nat /\ pos \in Nat
        /\ pos + (e + 1) = q + 1 /\ chip \in Chip
    BY Notes DEF SoundTypes
  <1>2. m \in Nat /\ r \in 0 .. n - 1 /\ (m = 0 => q = r)
    <2>1. \A a \in Nat, b \in Nat \ {0} : a \div b = 0 => a % b = a
      BY SMT
    <2>2. q \div n \in Nat /\ q % n \in 0 .. n - 1
      BY <1>1, Division
    <2>3. m = q \div n /\ r = q % n
      BY DEF Whole, Rest
    <2> QED BY <1>1, <2>1, <2>2, <2>3
  <1>3. IF r + 1 < n THEN Rest(e + 1) = r + 1 /\ Whole(e + 1) = m
        ELSE r + 1 = n /\ Rest(e + 1) = 0 /\ Whole(e + 1) = m + 1
    <2>1. IF (q % n) + 1 < n THEN (q + 1) % n = (q % n) + 1 /\ (q + 1) \div n = q \div n
          ELSE (q % n) + 1 = n /\ (q + 1) % n = 0 /\ (q + 1) \div n = (q \div n) + 1
      <3> HIDE DEF q, n
      <3> QED BY <1>1, NextMoment
    <2> QED BY <1>1, <2>1 DEF Whole, Rest
  <1>4. Heard(e) = [filled |-> r, duty |-> u, chip |-> c, heard |-> h]
    BY DEF Heard
  <1>5. Ear!Moment(Heard(e)) =
          IF r + 1 < n THEN [filled |-> r + 1, duty |-> u + level, chip |-> c, heard |-> h]
          ELSE [filled |-> 0, duty |-> 0, chip |-> Clocked(c, 1), heard |-> Append(h, <<u + level, Tone(Clocked(c, 1))>>)]
    <2> DEFINE t == [filled |-> r + 1, duty |-> u + level, chip |-> c, heard |-> h]
    <2>1. [Heard(e) EXCEPT !.filled = @ + 1, !.duty = @ + level] = t
      <3> DEFINE x == [Heard(e) EXCEPT !.filled = @ + 1]
      <3> HIDE DEF r, u, c, h
      <3>1. x = [filled |-> r + 1, duty |-> u, chip |-> c, heard |-> h]
        BY <1>4
      <3>2. Heard(e).duty = u
        BY <1>4
      <3> HIDE DEF x
      <3>3. [x EXCEPT !.duty = u + level] = t
        BY <3>1
      <3> QED BY <3>2, <3>3 DEF x
    <2>2. Ear!Moment(Heard(e)) =
            IF t.filled < SampleLen THEN t
            ELSE LET x == Ear!Clocked(t.chip, 1)
                 IN [filled |-> 0, duty |-> 0, chip |-> x, heard |-> Append(t.heard, <<t.duty, Ear!Tone(x)>>)]
      <3> HIDE DEF t
      <3> QED BY <2>1, Zenon DEF Ear!Moment
    <2>3. Ear!Clocked(c, 1) = Clocked(c, 1) /\ \A x : Ear!Tone(x) = Tone(x)
      BY OneChip
    <2>4. t.filled = r + 1 /\ t.chip = c /\ t.heard = h /\ t.duty = u + level
      OBVIOUS
    <2> HIDE DEF r, u, c, h
    <2> QED BY <2>2, <2>3, <2>4
  <1>6. CASE r + 1 < n
    <2>1. Up(e + 1) = u + level
      <3>1. Whole(e + 1) = m /\ Rest(e + 1) = r + 1
        BY <1>3, <1>6
      <3>2. \A x \in Nat : level * (x + 1) = level * x + level
        BY <1>1, SMT
      <3>3. level * e \in Nat /\ level \in Nat
        BY <1>1, Multiplied
      <3>4. CASE m = 0
        <4>1. Up(e + 1) = acc + level * (e + 1) /\ u = acc + level * e
          BY <3>1, <3>4 DEF Up
        <4> QED BY <1>1, <3>2, <3>3, <4>1
      <3>5. CASE m # 0
        <4>1. Up(e + 1) = level * (r + 1) /\ u = level * r /\ r \in Nat
          BY <1>1, <1>2, <3>1, <3>5 DEF Up
        <4> QED BY <3>2, <4>1
      <3> QED BY <3>4, <3>5
    <2>2. Heard(e + 1) = [filled |-> r + 1, duty |-> u + level, chip |-> c, heard |-> h]
      BY <1>3, <1>6, <2>1 DEF Heard
    <2> QED BY <1>5, <1>6, <2>2
  <1>7. CASE ~(r + 1 < n)
    <2>1. r + 1 = n /\ Rest(e + 1) = 0 /\ Whole(e + 1) = m + 1 /\ m + 1 # 0
      BY <1>2, <1>3, <1>7
    <2>2. Up(e + 1) = 0
      BY <1>1, <2>1 DEF Up
    <2>3. Clocked(c, 1) = Clocked(chip, m + 1)
      BY <1>1, <1>2, ChipClock
    <2>4. u + level = DutyOf(m + 1)
      <3>1. level = 0 \/ level = 1
        BY <1>1
      <3>2. CASE m = 0
        <4>1. u = acc + level * e /\ DutyOf(m + 1) = acc + level * (n - pos)
          BY <3>2 DEF Up, DutyOf
        <4>2. e + 1 = n - pos
          BY <1>1, <1>2, <2>1, <3>2
        <4> QED BY <1>1, <3>1, <4>1, <4>2
      <3>3. CASE m # 0
        <4>1. u = level * r /\ DutyOf(m + 1) = level * n
          BY <1>2, <3>3 DEF Up, DutyOf
        <4> QED BY <1>1, <1>2, <2>1, <3>1, <4>1
      <3> QED BY <3>2, <3>3
    <2>5. <<u + level, Tone(Clocked(c, 1))>> = Note(m + 1)
      BY <2>3, <2>4 DEF Note
    <2>6. Played \o [k \in 1 .. m + 1 |-> Note(k)] = Append(h, Note(m + 1))
      BY <1>2, OneNoteMore
    <2>7. Heard(e + 1) = [filled |-> 0, duty |-> 0, chip |-> Clocked(c, 1), heard |-> Append(h, Note(m + 1))]
      <3>1. Heard(e + 1) = [filled |-> 0, duty |-> 0, chip |-> Clocked(chip, m + 1),
                            heard |-> Played \o [k \in 1 .. m + 1 |-> Note(k)]]
        BY <2>1, <2>2 DEF Heard
      <3> QED BY <2>3, <2>6, <3>1
    <2> QED BY <1>5, <1>7, <2>5, <2>7
  <1> QED BY <1>6, <1>7

\* What the machine owes at once is what the listener hears moment by moment.
LEMMA Owing ==
  ASSUME NEW d \in Nat
  PROVE  Heard(Elapsed(d)) = [filled |-> Position(d), duty |-> Integral(d), chip |-> Clocked(chip, Done(d)),
                              heard |-> Played \o Synth(d)]
  BY DEF Heard, Rest, Whole, Up, Note, Position, Integral, Done, Synth

LEMMA Listening ==
  ASSUME SoundTypes, NEW d \in Nat
  PROVE  Ear!Moments(d * TState) = Heard(Elapsed(d))
  <1> DEFINE n == d * TState
             e == Elapsed(0)
             start == [filled |-> Position(0), duty |-> Integral(0), chip |-> Clocked(chip, Done(0)), heard |-> Sounded]
             h == [k \in 0 .. n |-> Heard(e + k)]
             x == CHOOSE x : x = [k \in 0 .. n |-> IF k = 0 THEN start ELSE Ear!Moment(x[k - 1])]
  <1>1. n \in Nat /\ e \in Nat /\ e + n = Elapsed(d) /\ e + 0 = e
    <2>1. behind \in Nat /\ TState \in Nat /\ behind + d \in Nat /\ behind + 0 = behind
      BY Notes DEF SoundTypes
    <2>2. \A a, b, c \in Nat : a * c + b * c = (a + b) * c
      BY SMT
    <2>3. n \in Nat /\ behind * TState \in Nat
      BY <2>1, Multiplied
    <2>4. e = behind * TState
      BY <2>1 DEF Elapsed
    <2>5. e + n = (behind + d) * TState
      BY <2>1, <2>2, <2>4
    <2> QED BY <2>3, <2>4, <2>5 DEF Elapsed
  <1>2. start = Heard(e)
    BY Owing DEF Sounded, Played
  <1> HIDE DEF n, e, start
  <1>3. \A k \in 0 .. n : h[k] = IF k = 0 THEN start ELSE Ear!Moment(h[k - 1])
    <2> TAKE k \in 0 .. n
    <2>1. CASE k = 0
      BY <1>1, <1>2, <2>1
    <2>2. CASE k # 0
      <3>1. k - 1 \in 0 .. n /\ e + (k - 1) \in Nat /\ (e + (k - 1)) + 1 = e + k
        BY <1>1, <2>2
      <3>2. Ear!Moment(Heard(e + (k - 1))) = Heard((e + (k - 1)) + 1)
        BY <3>1, OneMomentOn
      <3> QED BY <2>2, <3>1, <3>2
    <2> QED BY <2>1, <2>2
  <1>4. h = [k \in 0 .. n |-> IF k = 0 THEN start ELSE Ear!Moment(h[k - 1])]
    <2>1. h = [k \in 0 .. n |-> h[k]]
      OBVIOUS
    <2> HIDE DEF h
    <2> QED BY <1>3, <2>1, Zenon
  <1>5. x = [k \in 0 .. n |-> IF k = 0 THEN start ELSE Ear!Moment(x[k - 1])]
    <2> HIDE DEF h
    <2>1. \E f : f = [k \in 0 .. n |-> IF k = 0 THEN start ELSE Ear!Moment(f[k - 1])]
      BY <1>4, Zenon
    <2> QED BY <2>1, Zenon
  <1>6. Ear!Moments(n) = x[n]
    BY Zenon DEF Ear!Moments, start
  <1> HIDE DEF x
  <1>7. 0 \in 0 .. n /\ n \in 0 .. n /\ \A k \in 1 .. n : k \in 0 .. n /\ k # 0
    BY <1>1
  <1>8. x[0] = start /\ \A k \in 1 .. n : x[k] = Ear!Moment(x[k - 1])
    BY <1>5, <1>7, Zenon
  <1>9. h[0] = start /\ \A k \in 1 .. n : h[k] = Ear!Moment(h[k - 1])
    BY <1>3, <1>7, Zenon
  <1> HIDE DEF h
  <1>10. \A k \in 0 .. n : x[k] = h[k]
    BY <1>1, <1>8, <1>9, SameRecursion
  <1>11. h[n] = Heard(e + n)
    BY <1>7 DEF h
  <1> QED BY <1>1, <1>6, <1>7, <1>10, <1>11 DEF n

-----------------------------------------------------------------------------
\* Between frames a window owes nothing, and without a file its buffer is unsent.
Settled == (~keep => sent = 0) /\ (window /\ ~running => behind = 0) /\ frames \in Nat

EarInv == BeamInv /\ SoundInv /\ Settled

\* The chip when all that is owed is synthesised.
Current == Clocked(chip, Done(0))

\* What a step adds to the sound when d T-states pass.
Passed(d) ==
  /\ Position(0)' = Position(d) /\ Integral(0)' = Integral(d) /\ Sounded' = Played \o Synth(d)

\* A step that hears d T-states and then moves the speaker or writes to the chip.
LEMMA Hears ==
  ASSUME SoundTypes, NEW d \in Nat, d <= FrameT + Overrun, FrameT + Overrun \in Nat,
         Clock' = Clock + d, Passed(d), NEW c, c = Clocked(chip, Done(d)),
         \/ Current' = c /\ level' \in 0 .. 1
         \/ level' = level /\ \/ \E v \in RegByte : Current' = WriteReg(c, v)
                              \/ \E r \in Registers : Current' = Select(c, r)
                              \/ \E reg \in [Registers -> RegByte], r \in Registers : Current' = Programmed(reg, r)
  PROVE  [Ear!Next]_(Ear!speakerVars)
  <1> DEFINE s == Ear!Moments(d * TState)
  <1>1. s = [filled |-> Position(d), duty |-> Integral(d), chip |-> c, heard |-> Played \o Synth(d)]
    BY Listening, Owing
  <1>2. s.filled = Position(d) /\ s.duty = Integral(d) /\ s.chip = c /\ s.heard = Played \o Synth(d)
    BY <1>1
  <1> HIDE DEF s
  <1>3. Position(0)' = s.filled /\ Integral(0)' = s.duty /\ Sounded' = s.heard
    BY <1>2 DEF Passed
  <1>4. \/ Current' = s.chip /\ level' \in 0 .. 1
        \/ level' = level /\ \/ \E v \in RegByte : Current' = Ear!WriteReg(s.chip, v)
                             \/ \E r \in Registers : Current' = Ear!Select(s.chip, r)
                             \/ \E reg \in [Registers -> RegByte], r \in Registers : Current' = Ear!Programmed(reg, r)
    <2>1. /\ \A v : Ear!WriteReg(s.chip, v) = WriteReg(c, v)
          /\ \A r : Ear!Select(s.chip, r) = Select(c, r)
          /\ \A reg, r : Ear!Programmed(reg, r) = Programmed(reg, r)
      BY <1>2, OneChip
    <2> QED BY <1>2, <2>1
  <1>5. Ear!Pass(d)
    BY <1>3, <1>4, Zenon DEF Ear!Pass, Current, s
  <1>6. d \in 0 .. FrameT + Overrun
    OBVIOUS
  <1> QED BY <1>5, <1>6, Zenon DEF Ear!Next

\* Nothing is synthesised: the edge is further back.
LEMMA Waits ==
  ASSUME SoundTypes, NEW d \in Nat, behind' = behind + d, UNCHANGED <<level, pos, acc, buf, queued, keep>>,
         chip' = chip \/ \E r \in Registers : chip' = Select(chip, r)
  PROVE  /\ Passed(d) /\ Done(0)' = Done(d)
         /\ chip' = chip => Current' = Clocked(chip, Done(d))
         /\ \A r \in Registers : chip' = Select(chip, r) => Current' = Select(Clocked(chip, Done(d)), r)
  <1>1. behind' + 0 = behind + d /\ Done(d) \in Nat /\ chip \in Chip
    <2>1. behind \in Nat /\ chip \in Chip
      BY DEF SoundTypes
    <2>2. Done(d) \in Nat
      BY SynthTypes
    <2> QED BY <2>1, <2>2
  <1>2. Elapsed(0)' = Elapsed(d)
    BY <1>1 DEF Elapsed
  <1>3. Done(0)' = Done(d) /\ Position(0)' = Position(d)
    BY <1>2 DEF Done, Position
  <1>4. Integral(0)' = Integral(d)
    BY <1>2, <1>3 DEF Integral
  <1>5. \A k \in 1 .. Done(d) : Tone(Clocked(chip', k)) = Tone(Clocked(chip, k))
    <2>1. \A k \in Nat, r \in Registers : Tone(Clocked(Select(chip, r), k)) = Tone(Clocked(chip, k))
      BY <1>1, ChipClock
    <2>2. \A k \in 1 .. Done(d) : k \in Nat
      BY <1>1
    <2>3. CASE chip' = chip
      BY <2>3
    <2>4. CASE \E r \in Registers : chip' = Select(chip, r)
      BY <2>1, <2>2, <2>4, Zenon
    <2> QED BY <2>3, <2>4
  <1>6. \A k : DutyOf(k)' = DutyOf(k)
    BY DEF DutyOf
  <1>7. Synth(0)' = [k \in 1 .. Done(d) |-> <<DutyOf(k)', Tone(Clocked(chip', k))>>]
    BY <1>3 DEF Synth
  <1>8. Synth(0)' = Synth(d)
    BY <1>5, <1>6, <1>7 DEF Synth
  <1>9. Sounded' = Played \o Synth(d)
    BY <1>8 DEF Sounded, Played
  <1>10. Current' = Clocked(chip', Done(d))
    BY <1>3 DEF Current
  <1>11. \A r \in Registers : Clocked(Select(chip, r), Done(d)) = Select(Clocked(chip, Done(d)), r)
    BY <1>1, ChipClock
  <1> QED BY <1>3, <1>4, <1>9, <1>10, <1>11 DEF Passed

\* All that is owed is synthesised.
LEMMA Flushes ==
  ASSUME SoundTypes, NEW d \in Nat, pos' = Position(d), acc' = Integral(d), behind' = 0,
         level' \in 0 .. 1, chip' \in Chip, Played' = Played \o Synth(d)
  PROVE  Passed(d) /\ Current' = chip'
  <1>1. /\ Synth(d) \in Seq(Sample) /\ Position(d) \in 0 .. SampleLen - 1 /\ Integral(d) \in Nat
        /\ SampleLen \in Nat \ {0} /\ TState \in Nat
    BY SynthTypes, Notes
  <1>2. Played \o Synth(d) \in Seq(Sample)
    <2>1. Played \in Seq(Sample)
      BY OneNoteMore
    <2> QED BY <1>1, <2>1, ConcatProperties
  <1>3. Elapsed(0)' = 0
    <2>1. (0 + 0) * TState = 0
      BY <1>1
    <2> QED BY <2>1 DEF Elapsed
  <1>4. Done(0)' = 0 /\ Position(0)' = Position(d)
    <2>1. \A a \in Nat, b \in Nat \ {0} : a < b => a \div b = 0 /\ a % b = a
      BY SMT
    <2>2. pos' + 0 = pos' /\ pos' \in Nat /\ pos' < SampleLen
      BY <1>1
    <2>3. pos' \div SampleLen = 0 /\ pos' % SampleLen = pos'
      BY <1>1, <2>1, <2>2
    <2> QED BY <1>3, <2>2, <2>3 DEF Done, Position
  <1>5. Integral(0)' = Integral(d)
    <2>1. acc' + level' * 0 = acc'
      BY <1>1
    <2> QED BY <1>3, <1>4, <2>1 DEF Integral
  <1>6. Sounded' = Played' \o Synth(0)'
    BY DEF Sounded, Played
  <1>7. Synth(0)' = <<>>
    BY <1>4 DEF Synth
  <1>8. Sounded' = Played \o Synth(d)
    BY <1>2, <1>6, <1>7, ConcatEmptySeq
  <1>9. Current' = chip'
    <2>1. Current' = Clocked(chip', 0)
      BY <1>4 DEF Current
    <2>2. \A c \in Chip : Clocked(c, 0) = c
      BY ChipClock
    <2> QED BY <2>1, <2>2
  <1> QED BY <1>4, <1>5, <1>8, <1>9 DEF Passed

\* advance puts it behind what was heard.
LEMMA Flushed ==
  ASSUME SoundTypes, NEW d \in Nat, Advance(d), level' \in 0 .. 1, chip' \in Chip, UNCHANGED <<queued, keep>>
  PROVE  Passed(d) /\ Current' = chip'
  <1>1. buf' = buf \o Synth(d) /\ pos' = Position(d) /\ acc' = Integral(d) /\ behind' = 0
    BY DEF Advance
  <1>2. buf \in Seq(Sample) /\ queued \in Seq(Sample) /\ Synth(d) \in Seq(Sample)
    BY SynthTypes DEF SoundTypes
  <1>3. queued \o (buf \o Synth(d)) = (queued \o buf) \o Synth(d)
    BY <1>2, ConcatAssociative
  <1>4. Played' = Played \o Synth(d)
    BY <1>1, <1>3 DEF Played
  <1> QED BY <1>1, <1>4, Flushes

\* The frame ends: in a window all of it goes to the device.
LEMMA FrameHeard ==
  ASSUME SoundTypes, Settled, NEW d \in Nat, FrameSound(d), UNCHANGED <<keep, window>>
  PROVE  /\ Passed(d) /\ Current' = Clocked(chip, Done(d)) /\ level' = level
         /\ (~keep => sent' = 0) /\ (window => behind' = 0)
  <1>1. CASE window
    <2> DEFINE new == Synth(d)
               all == buf \o new
    <2>1. /\ Drain(all) /\ pos' = Position(d) /\ acc' = Integral(d) /\ behind' = 0
          /\ chip' = Clocked(chip, Done(d)) /\ level' = level
      BY <1>1 DEF FrameSound
    <2>2. buf \in Seq(Sample) /\ queued \in Seq(Sample) /\ new \in Seq(Sample) /\ chip' \in Chip /\ level \in 0 .. 1
      BY <2>1, SynthTypes DEF SoundTypes
    <2> HIDE DEF new
    <2>3. all \in Seq(Sample)
      BY <2>2, ConcatProperties
    <2>4. SubSeq(all, 1, Len(all)) = all
      BY <2>3, SubSeqFull
    <2>5. queued \o all = (queued \o buf) \o new
      BY <2>2, ConcatAssociative
    <2>6. Played' = Played \o new
      <3>1. CASE keep
        BY <2>1, <3>1 DEF Drain, Played
      <3>2. CASE ~keep
        <4>1. sent = 0 /\ buf' = <<>> /\ queued' = queued \o SubSeq(all, 0 + 1, Len(all))
          BY <2>1, <3>2 DEF Drain, Settled
        <4>2. queued' = queued \o all
          BY <2>4, <4>1
        <4>3. queued \o all \in Seq(Sample)
          <5> HIDE DEF all
          <5> QED BY <2>2, <2>3, ConcatProperties
        <4>4. queued' \o <<>> = queued'
          BY <4>2, <4>3, ConcatEmptySeq
        <4>5. Played' = queued' \o buf'
          BY <3>2 DEF Played
        <4>6. Played = queued \o buf
          BY <3>2 DEF Played
        <4> QED BY <2>5, <4>1, <4>2, <4>4, <4>5, <4>6
      <3> QED BY <3>1, <3>2
    <2>7. Passed(d) /\ Current' = chip'
      <3>1. Played' = Played \o Synth(d)
        BY <2>6 DEF new
      <3> HIDE DEF all
      <3> QED BY <2>1, <2>2, <3>1, Flushes
    <2>8. ~keep => sent' = 0
      BY <2>1 DEF Drain
    <2> QED BY <2>1, <2>7, <2>8
  <1>2. CASE ~window
    <2>1. Silence(d) /\ UNCHANGED <<queued, sent>>
      BY <1>2 DEF FrameSound
    <2>2. behind' = behind + d /\ UNCHANGED <<level, pos, acc, buf, queued, keep>> /\ chip' = chip
      BY <2>1 DEF Silence
    <2>3. Passed(d) /\ Current' = Clocked(chip, Done(d))
      BY <2>2, Waits
    <2> QED BY <1>2, <2>1, <2>2, <2>3 DEF Settled
  <1> QED BY <1>1, <1>2

\* The host gives the chip another state when a window owes nothing.
LEMMA HostHeard ==
  ASSUME SoundTypes, behind = 0, chip' \in Chip, UNCHANGED <<level, pos, acc, behind, buf, queued, keep>>
  PROVE  Passed(0) /\ Current' = chip' /\ Clocked(chip, Done(0)) = chip
  <1>1. /\ pos \in 0 .. SampleLen - 1 /\ SampleLen \in Nat \ {0} /\ TState \in Nat /\ acc \in Nat /\ level \in 0 .. 1
        /\ chip \in Chip
    BY Notes DEF SoundTypes
  <1>2. Elapsed(0) = 0
    <2>1. (0 + 0) * TState = 0
      BY <1>1
    <2> QED BY <2>1 DEF Elapsed
  <1>3. Done(0) = 0 /\ Position(0) = pos
    <2>1. \A a \in Nat, b \in Nat \ {0} : a < b => a \div b = 0 /\ a % b = a
      BY SMT
    <2>2. pos + 0 = pos /\ pos \in Nat /\ pos < SampleLen
      BY <1>1
    <2>3. pos \div SampleLen = 0 /\ pos % SampleLen = pos
      BY <1>1, <2>1, <2>2
    <2> QED BY <1>2, <2>2, <2>3 DEF Done, Position
  <1>4. Integral(0) = acc
    <2>1. acc + level * 0 = acc
      BY <1>1
    <2> QED BY <1>2, <1>3, <2>1 DEF Integral
  <1>5. Synth(0) = <<>>
    BY <1>3 DEF Synth
  <1>6. Played' = Played /\ Played \in Seq(Sample)
    BY OneNoteMore DEF Played
  <1>7. Played' = Played \o Synth(0)
    BY <1>5, <1>6, ConcatEmptySeq
  <1>8. Passed(0) /\ Current' = chip'
    BY <1>1, <1>3, <1>4, <1>7, Flushes
  <1>9. Clocked(chip, Done(0)) = chip
    BY <1>1, <1>3, ChipClock
  <1> QED BY <1>8, <1>9

\* The clock goes on over the end of a frame.
LEMMA ClockGoes ==
  ASSUME BeamInv, frames \in Nat
  PROVE  /\ \A d \in Nat : Passes(d) /\ frames' = frames => Clock' = Clock + d
         /\ \A d \in Nat : EndFrame(d) /\ frames' = frames => Clock' = Clock + d
         /\ \A live : BeginFrame(live) /\ frames' = frames + 1 => Clock' = Clock
         /\ UNCHANGED <<now, running, frames>> => Clock' = Clock /\ Clock' = Clock + 0
  <1>1. now \in Nat /\ FrameT \in Nat /\ frames \in Int /\ frames - 1 \in Int
    BY Widths DEF BeamInv
  <1>2. \A x, y \in Int : x * y \in Int /\ x * y - y = (x - 1) * y
    BY SMT
  <1>3. /\ frames * FrameT \in Int /\ (frames - 1) * FrameT \in Int
        /\ frames * FrameT - FrameT = (frames - 1) * FrameT /\ (frames + 1) - 1 = frames
    BY <1>1, <1>2
  <1>4. ASSUME NEW d \in Nat, Passes(d), frames' = frames PROVE Clock' = Clock + d
    <2>1. running /\ running' = running /\ now' = now + d
      BY <1>4 DEF Passes
    <2>2. Clock' = (frames - 1) * FrameT + (now + d) /\ Clock = (frames - 1) * FrameT + now
      BY <1>4, <2>1 DEF Clock
    <2> QED BY <1>1, <1>3, <2>2
  <1>5. ASSUME NEW d \in Nat, EndFrame(d), frames' = frames PROVE Clock' = Clock + d
    <2>1. running /\ ~running' /\ now' = now + d - FrameT
      BY <1>5 DEF EndFrame
    <2>2. Clock' = frames * FrameT + (now + d - FrameT) /\ Clock = (frames - 1) * FrameT + now
      BY <1>5, <2>1 DEF Clock
    <2> QED BY <1>1, <1>3, <2>2
  <1>6. ASSUME NEW live, BeginFrame(live), frames' = frames + 1 PROVE Clock' = Clock
    <2>1. ~running /\ running' /\ now' = now
      BY <1>6 DEF BeginFrame
    <2> QED BY <1>3, <1>6, <2>1 DEF Clock
  <1>7. Clock = Clock + 0
    BY <1>1, <1>3 DEF Clock
  <1>8. UNCHANGED <<now, running, frames>> => Clock' = Clock
    BY DEF Clock
  <1> QED BY <1>4, <1>5, <1>6, <1>7, <1>8

LEMMA EarStutters ==
  ASSUME Clock' = Clock, UNCHANGED sound, keep' = keep
  PROVE  [Ear!Next]_(Ear!speakerVars)
  <1>1. UNCHANGED <<level, pos, acc, behind, chip, buf, queued>>
    BY DEF sound
  <1>2. Elapsed(0)' = Elapsed(0)
    BY <1>1 DEF Elapsed
  <1>3. Done(0)' = Done(0) /\ Position(0)' = Position(0)
    BY <1>1, <1>2 DEF Done, Position
  <1>4. Integral(0)' = Integral(0)
    BY <1>1, <1>2, <1>3 DEF Integral
  <1>5. \A k : DutyOf(k)' = DutyOf(k)
    BY <1>1 DEF DutyOf
  <1>6. Synth(0)' = Synth(0)
    BY <1>1, <1>3, <1>5 DEF Synth
  <1>7. Sounded' = Sounded
    BY <1>1, <1>6 DEF Sounded
  <1>8. Clocked(chip, Done(0))' = Clocked(chip, Done(0))
    BY <1>1, <1>3
  <1> QED BY <1>1, <1>3, <1>4, <1>7, <1>8 DEF Ear!speakerVars

\* Every step is heard, d T-states of it and what the program does then, or not at all.
LEMMA EarStep == ASSUME EarInv, [Next]_vars PROVE Settled' /\ [Ear!Next]_(Ear!speakerVars)
  <1>1. SoundTypes /\ Settled /\ BeamInv /\ frames \in Nat /\ FrameT + Overrun \in Nat /\ level \in 0 .. 1
    BY Widths, FrameAssumption DEF EarInv, SoundInv, SoundTypes, Settled
  <1>2. \A d \in Times : d \in Nat
    BY AccessAssumption
  <1>3. ASSUME NEW d \in Nat, Passes(d)
        PROVE  d <= FrameT + Overrun
    BY <1>3, Widths, FrameAssumption DEF Passes, EarInv, BeamInv
  <1>4. ASSUME NEW d \in Nat, Passes(d), UNCHANGED <<sent, window, keep, frames>> PROVE Settled'
    BY <1>1, <1>4 DEF Passes, Settled
  <1>5. ASSUME NEW d \in Times, Poke(d) \/ Out7FFD(d) PROVE Settled' /\ [Ear!Next]_(Ear!speakerVars)
    <2>1. Silence(d) /\ Passes(d) /\ UNCHANGED <<queued, sent, window, keep, frames>>
      BY <1>5 DEF Poke, Out7FFD, WriteCell, FlipPage, Access
    <2>2. behind' = behind + d /\ UNCHANGED <<level, pos, acc, buf, queued, keep>> /\ chip' = chip
      BY <2>1 DEF Silence
    <2>3. Passed(d) /\ Current' = Clocked(chip, Done(d))
      BY <1>1, <1>2, <2>2, Waits
    <2>4. Clock' = Clock + d /\ d <= FrameT + Overrun
      BY <1>1, <1>2, <1>3, <2>1, ClockGoes
    <2> QED BY <1>1, <1>2, <1>4, <2>1, <2>2, <2>3, <2>4, Hears
  <1>6. ASSUME NEW d \in Times, OutFE(d) PROVE Settled' /\ [Ear!Next]_(Ear!speakerVars)
    <2>1. PICK v \in 0 .. 1 : Edge(d, v)
      BY <1>6 DEF OutFE
    <2>2. Passes(d) /\ UNCHANGED <<queued, sent, window, keep, frames>>
      BY <1>6 DEF OutFE, SetBorder, Access
    <2>3. Passed(d) /\ Current' = Clocked(chip, Done(d)) /\ level' \in 0 .. 1
      <3>1. CASE v = level
        <4>1. behind' = behind + d /\ UNCHANGED <<level, pos, acc, buf, queued, keep>> /\ chip' = chip
          BY <2>1, <2>2, <3>1 DEF Edge, Silence
        <4> QED BY <1>1, <1>2, <4>1, Waits
      <3>2. CASE v # level
        <4>1. Advance(d) /\ level' \in 0 .. 1 /\ chip' = Clocked(chip, Done(d))
          BY <2>1, <3>2 DEF Edge
        <4>2. chip' \in Chip
          BY <1>1, <1>2, <4>1, SynthTypes
        <4> QED BY <1>1, <1>2, <2>2, <4>1, <4>2, Flushed
      <3> QED BY <3>1, <3>2
    <2>4. Clock' = Clock + d /\ d <= FrameT + Overrun
      BY <1>1, <1>2, <1>3, <2>2, ClockGoes
    <2> QED BY <1>1, <1>2, <1>4, <2>2, <2>3, <2>4, Hears
  <1>7. ASSUME NEW d \in Times, OutFFFD(d) PROVE Settled' /\ [Ear!Next]_(Ear!speakerVars)
    <2>1. PICK r \in Registers : SelectOut(d, r)
      BY <1>7 DEF OutFFFD
    <2>2. Passes(d) /\ UNCHANGED <<queued, sent, window, keep, frames>>
      BY <1>7 DEF OutFFFD, BeamIdle, Access
    <2>3. behind' = behind + d /\ UNCHANGED <<level, pos, acc, buf, queued, keep>> /\ chip' = Select(chip, r)
      BY <2>1, <2>2 DEF SelectOut
    <2>4. Passed(d) /\ Current' = Select(Clocked(chip, Done(d)), r)
      BY <1>1, <1>2, <2>3, Waits
    <2>5. Clock' = Clock + d /\ d <= FrameT + Overrun
      BY <1>1, <1>2, <1>3, <2>2, ClockGoes
    <2> QED BY <1>1, <1>2, <1>4, <2>2, <2>3, <2>4, <2>5, Hears
  <1>8. ASSUME NEW d \in Times, OutBFFD(d) PROVE Settled' /\ [Ear!Next]_(Ear!speakerVars)
    <2>1. PICK v \in RegByte : DataOut(d, v)
      BY <1>8 DEF OutBFFD
    <2>2. Passes(d) /\ UNCHANGED <<queued, sent, window, keep, frames>>
      BY <1>8 DEF OutBFFD, BeamIdle, Access
    <2>3. Advance(d) /\ level' = level /\ chip' = WriteReg(Clocked(chip, Done(d)), v)
      BY <2>1 DEF DataOut
    <2>4. chip' \in Chip
      BY <1>1, <1>2, <2>3, ChipTypes, SynthTypes
    <2>5. Passed(d) /\ Current' = WriteReg(Clocked(chip, Done(d)), v)
      BY <1>1, <1>2, <2>2, <2>3, <2>4, Flushed
    <2>6. Clock' = Clock + d /\ d <= FrameT + Overrun
      BY <1>1, <1>2, <1>3, <2>2, ClockGoes
    <2> QED BY <1>1, <1>2, <1>4, <2>2, <2>3, <2>5, <2>6, Hears
  <1>9. ASSUME NEW d \in 0 .. FrameT + Overrun, FrameDone(d) PROVE Settled' /\ [Ear!Next]_(Ear!speakerVars)
    <2>1. d \in Nat /\ d <= FrameT + Overrun
      BY <1>1
    <2>2. EndFrame(d) /\ FrameSound(d) /\ UNCHANGED <<window, keep, frames>>
      BY <1>9 DEF FrameDone, counters
    <2>3. /\ Passed(d) /\ Current' = Clocked(chip, Done(d)) /\ level' = level
          /\ (~keep => sent' = 0) /\ (window => behind' = 0)
      BY <1>1, <2>1, <2>2, FrameHeard
    <2>4. Clock' = Clock + d
      BY <1>1, <2>1, <2>2, ClockGoes
    <2>5. Settled'
      BY <1>1, <2>2, <2>3 DEF Settled
    <2> QED BY <1>1, <2>1, <2>3, <2>4, <2>5, Hears
  <1>10. CASE NextFrame
    <2>1. UNCHANGED soundVars /\ frames' = frames + 1 /\ \E live : BeginFrame(live)
      BY <1>10 DEF NextFrame
    <2>2. Clock' = Clock /\ running'
      BY <1>1, <2>1, ClockGoes DEF BeginFrame
    <2>3. UNCHANGED sound /\ UNCHANGED <<keep, window, sent>>
      BY <2>1 DEF soundVars, sound
    <2>4. Settled'
      BY <1>1, <2>1, <2>2, <2>3 DEF Settled
    <2> QED BY <2>2, <2>3, <2>4, EarStutters
  <1>11. CASE HostLoads
    <2>1. window /\ ~running /\ UNCHANGED <<window, keep, frames, now, running>>
      BY <1>11 DEF HostLoads, LoadState
    <2>2. behind = 0
      BY <1>1, <2>1 DEF Settled
    <2>3. Clock' = Clock /\ Clock' = Clock + 0
      BY <1>1, <2>1, ClockGoes
    <2>4. CASE UNCHANGED sound
      <3>1. Settled'
        BY <1>1, <2>1, <2>4 DEF sound, Settled
      <3> QED BY <2>1, <2>3, <2>4, <3>1, EarStutters
    <2>5. ASSUME NEW reg \in [Registers -> RegByte], NEW r \in Registers, chip' = Programmed(reg, r),
                 UNCHANGED <<level, pos, acc, behind, buf, queued, sent>>
          PROVE  Settled' /\ [Ear!Next]_(Ear!speakerVars)
      <3>1. chip' \in Chip
        BY <2>5, ChipTypes
      <3>2. Passed(0) /\ Current' = chip' /\ Clocked(chip, Done(0)) = chip
        BY <1>1, <2>1, <2>2, <2>5, <3>1, HostHeard
      <3>3. Settled'
        BY <1>1, <2>1, <2>5 DEF Settled
      <3>4. 0 \in Nat /\ 0 <= FrameT + Overrun
        BY <1>1
      <3> QED BY <1>1, <2>3, <2>5, <3>2, <3>3, <3>4, Hears
    <2>6. CASE ChipReset
      <3>1. /\ chip' = Programmed([x \in Registers |-> 0], 0)
            /\ UNCHANGED <<level, pos, acc, behind, buf, queued, sent>>
        BY <2>6 DEF ChipReset, Silent
      <3>2. [x \in Registers |-> 0] \in [Registers -> RegByte] /\ 0 \in Registers
        BY PsgAssumption
      <3> QED BY <2>5, <3>1, <3>2
    <2>7. CASE \E v \in RegByte, r \in Registers : LoadChip([x \in Registers |-> v], r)
      <3>1. PICK v \in RegByte, r \in Registers : LoadChip([x \in Registers |-> v], r)
        BY <2>7
      <3>2. [x \in Registers |-> v] \in [Registers -> RegByte]
        OBVIOUS
      <3> QED BY <2>5, <3>1, <3>2 DEF LoadChip
    <2> QED BY <1>11, <2>4, <2>6, <2>7 DEF HostLoads
  <1>12. CASE Exit
    <2>1. UNCHANGED <<window, keep, frames, now, running>>
      BY <1>12 DEF Exit, beamVars
    <2>2. Clock' = Clock /\ Clock' = Clock + 0
      BY <1>1, <2>1, ClockGoes
    <2>3. CASE keep
      <3>1. Advance(0) /\ chip' = Clocked(chip, Done(0)) /\ UNCHANGED <<level, queued, sent>>
        BY <1>12, <2>3 DEF Exit, SaveWav
      <3>2. chip' \in Chip /\ behind' = 0
        BY <1>1, <3>1, SynthTypes DEF Advance
      <3>3. Passed(0) /\ Current' = Clocked(chip, Done(0))
        BY <1>1, <2>1, <3>1, <3>2, Flushed
      <3>4. Settled'
        BY <1>1, <2>1, <3>1, <3>2 DEF Settled
      <3>5. 0 \in Nat /\ 0 <= FrameT + Overrun
        BY <1>1
      <3> QED BY <1>1, <2>2, <3>1, <3>3, <3>4, <3>5, Hears
    <2>4. CASE ~keep
      <3>1. UNCHANGED sound
        BY <1>12, <2>4 DEF Exit
      <3>2. Settled'
        BY <1>1, <2>1, <3>1 DEF sound, Settled
      <3> QED BY <2>1, <2>2, <3>1, <3>2, EarStutters
    <2> QED BY <2>3, <2>4
  <1>13. CASE UNCHANGED vars
    <2>1. UNCHANGED <<window, keep, frames, now, running>> /\ UNCHANGED sound
      BY <1>13 DEF vars, beamVars, soundVars, counters
    <2>2. Clock' = Clock
      BY <1>1, <2>1, ClockGoes
    <2>3. Settled'
      BY <1>1, <2>1 DEF sound, Settled
    <2> QED BY <2>1, <2>2, <2>3, EarStutters
  <1> QED BY <1>5, <1>6, <1>7, <1>8, <1>9, <1>10, <1>11, <1>12, <1>13, Zenon DEF Next

LEMMA EarStart == Init => EarInv /\ Ear!Init
  <1> SUFFICES ASSUME Init PROVE EarInv /\ Ear!Init
    OBVIOUS
  <1>1. BeamInv /\ SoundInv
    BY BeamStart, SoundStart
  <1>2. /\ behind = 0 /\ pos = 0 /\ acc = 0 /\ level = 0 /\ buf = <<>> /\ queued = <<>> /\ sent = 0
        /\ chip = Silent /\ frames = 0 /\ now = 0 /\ ~running
    BY DEF Init, SoundInit, BeamInit
  <1>3. EarInv
    BY <1>1, <1>2 DEF EarInv, Settled
  <1>4. SampleLen \in Nat \ {0} /\ TState \in Nat /\ FrameT \in Nat
    BY SampleAssumption, Widths
  <1>5. Elapsed(0) = 0 /\ Done(0) = 0 /\ Position(0) = 0
    <2>1. (0 + 0) * TState = 0
      BY <1>4
    <2>2. (0 + 0) \div SampleLen = 0 /\ (0 + 0) % SampleLen = 0
      BY <1>4, SMT
    <2>3. Elapsed(0) = 0
      BY <1>2, <2>1 DEF Elapsed
    <2> QED BY <1>2, <2>2, <2>3 DEF Done, Position
  <1>6. Integral(0) = 0
    BY <1>2, <1>5 DEF Integral
  <1>7. Clocked(chip, Done(0)) = Ear!Silent
    BY <1>2, <1>5, ChipTypes, ChipClock, OneChip
  <1>8. Sounded = <<>>
    <2>1. Synth(0) = <<>>
      BY <1>5 DEF Synth
    <2> QED BY <1>2, <2>1 DEF Sounded
  <1>9. Clock = 0
    BY <1>2, <1>4 DEF Clock
  <1> QED BY <1>2, <1>3, <1>5, <1>6, <1>7, <1>8, <1>9 DEF Ear!Init

\* Synthesis in arrears implements a listener: for every length of a sample, program, times
\* of its accesses and host, with --wav and without, every moment of the speaker and every
\* sample of the chip is heard once, in order, at the level and with the registers it had.
THEOREM SynthesisIsSpeaker == Spec => SoundIsSpeaker
  <1>1. EarInv /\ [Next]_vars => EarInv' /\ [Ear!Next]_(Ear!speakerVars)
    BY EarStep, SoundStep, StepDraws DEF EarInv, BeamStep
  <1> QED BY <1>1, EarStart, PTL DEF Spec, SoundIsSpeaker, Ear!Spec
=============================================================================
