-------------------------------- MODULE Beam --------------------------------
(***************************************************************************)
(* The beam painter (video.c) and its clients in machine.c.  The frame is  *)
(* painted in arrears: nothing is drawn while time passes, and whoever is   *)
(* about to change memory on display, the page or the border first has the  *)
(* painter catch up with the clock.                                        *)
(*                                                                         *)
(* Every action takes the time d that went by since the one before it.     *)
(***************************************************************************)
EXTENDS Picture

VARIABLES
  now,                 \* cpu.tstates - frame_start_ts
  running,             \* inside machine_run_frame or rzx_play_frame
  mem, page, border,   \* the display memory, m->screen, m->border
  fb, render_pos, fb_live, fb_valid

painter == <<fb, render_pos, fb_live, fb_valid>>
beamVars == <<now, running, mem, page, border, painter>>

Least(a, b) == IF a < b THEN a ELSE b
Most(a, b) == IF a > b THEN a ELSE b

BeamInit ==
  /\ now = 0 /\ running = FALSE
  /\ mem = [b \in Banks |-> [c \in Cells |-> 0]]
  /\ page = 5 /\ border = 7
  /\ fb = [p \in Spots |-> Dark] /\ render_pos = 0
  /\ fb_live = FALSE /\ fb_valid = FALSE

-----------------------------------------------------------------------------
(* paint_span: the spots of one line between its T-states lt and end. *)

CeilDiv_Floor(a) == a \div Block
CeilDiv(a) == (a + Block - 1) \div Block

\* Blocks whose fetch slot lies in [lt, end).
Fetched(lt, end) == CeilDiv(lt) .. Least(CeilDiv(end), Blocks) - 1

InBlock(p, k) == p[2] - LeftWidth >= k * Block /\ p[2] - LeftWidth < (k + 1) * Block

StripStart_Display(line, lt) == Most(lt, Centre)

StripStart(line, lt) == IF OnDisplay(line) THEN Most(lt, Centre) ELSE lt

\* The left border that the line draws belongs to the row below it.
LeftRow(line) == line - FirstRow + 1

OnLine(p, line, lt, end) ==
  \/ /\ p[1] = line - FirstRow /\ OnDisplay(line)
     /\ \E k \in Fetched(lt, end) : InBlock(p, k)
  \/ /\ p[1] = line - FirstRow
     /\ p[2] - LeftWidth >= StripStart(line, lt)
     /\ p[2] - LeftWidth < Least(end, RightEnd)
  \/ /\ p[1] = LeftRow(line)
     /\ p[2] + LeftStart >= Most(lt, LeftStart) /\ p[2] + LeftStart < end

InSpan(p, from, to) ==
  \E line \in 0 .. Lines - 1 :
    LET start == line * LineT
    IN /\ from < start + LineT /\ start < to
       /\ OnLine(p, line, Most(from - start, 0), Least(to - start, LineT))

Painted(from, to) ==
  [p \in Spots |-> IF InSpan(p, from, to) THEN Look(p, mem[page], border) ELSE fb[p]]

\* video_beam_catchup at T-state t.
Catchup(t) ==
  LET target == Least(t, FrameT)
  IN IF target > render_pos THEN fb' = Painted(render_pos, target) /\ render_pos' = target
                            ELSE UNCHANGED <<fb, render_pos>>

Before(t, changes) == IF fb_live /\ changes THEN Catchup(t) ELSE UNCHANGED <<fb, render_pos>>

-----------------------------------------------------------------------------
(* The accesses that change the picture, each d after the last. *)

Passes(d) == /\ running /\ now + d <= FrameT + Overrun
             /\ now' = now + d /\ UNCHANGED <<running, fb_live, fb_valid>>

\* bus_mem_write, by the physical page it ends up in.
WriteCell(d, bank, cell, v) ==
  /\ Passes(d)
  /\ Before(now + d, bank = page /\ mem[bank][cell] # v)
  /\ mem' = [mem EXCEPT ![bank][cell] = v]
  /\ UNCHANGED <<page, border>>

\* The display bit of port 0x7FFD, or of 0x7E on the HC-2000.
FlipPage(d, bank) ==
  /\ Passes(d)
  /\ Before(now + d, bank # page)
  /\ page' = bank
  /\ UNCHANGED <<mem, border>>

\* Port 0xFE, the border.
SetBorder(d, colour) ==
  /\ Passes(d)
  /\ Before(now + d, colour # border)
  /\ border' = colour
  /\ UNCHANGED <<mem, page>>

\* An access that leaves the picture alone.
BeamIdle(d) == Passes(d) /\ UNCHANGED <<mem, page, border, fb, render_pos>>

-----------------------------------------------------------------------------
(* The frame loop and the host around it. *)

BeginFrame(live) ==
  /\ ~running /\ running' = TRUE
  /\ render_pos' = 0 /\ fb_live' = live
  /\ UNCHANGED <<now, mem, page, border, fb, fb_valid>>

Finish == /\ fb' = IF render_pos < FrameT THEN Painted(render_pos, FrameT) ELSE fb
          /\ render_pos' = FrameT /\ fb_valid' = TRUE

EndFrame(d) ==
  /\ running /\ running' = FALSE
  /\ now + d >= FrameT /\ now + d <= FrameT + Overrun
  /\ now' = now + d - FrameT
  /\ IF fb_live THEN Finish ELSE UNCHANGED <<fb, render_pos, fb_valid>>
  /\ UNCHANGED <<mem, page, border, fb_live>>

\* A snapshot, a reset or a screen file between two frames.
LoadState(m, bank, colour) ==
  /\ ~running
  /\ mem' = m /\ page' = bank /\ border' = colour
  /\ UNCHANGED <<now, running, painter>>

\* video_render.
Fallback == [p \in Spots |-> Look(p, mem[page], border)]
Rendered == IF fb_valid THEN fb ELSE Fallback
=============================================================================
