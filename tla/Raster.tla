------------------------------- MODULE Raster -------------------------------
(***************************************************************************)
(* The screen as the hardware draws it: at every T-state the beam lights    *)
(* the spot it has reached with what memory, page and border hold then.    *)
(* This is what a program that changes them in mid-frame counts on.        *)
(***************************************************************************)
EXTENDS Picture

VARIABLES
  picture,             \* what the last pass of the beam left at each spot
  beam,                \* where it is, in T-states from the top of the frame
  watched,             \* somebody looks at this frame
  mem, page, border

rasterVars == <<picture, beam, watched, mem, page, border>>

Init ==
  /\ picture = [p \in Spots |-> Dark]
  /\ beam = 0 /\ watched = FALSE
  /\ mem = [b \in Banks |-> [c \in Cells |-> 0]]
  /\ page = 5 /\ border = 7

\* The spots that d T-states light.
Lit(d) == [p \in Spots |-> IF watched /\ beam <= At(p) /\ At(p) < beam + d
                             THEN Look(p, mem[page], border) ELSE picture[p]]

\* Time passes, then the program may change what is displayed.
Draw(d) ==
  /\ \/ beam' = beam + d
     \/ beam + d >= FrameT /\ beam' = beam + d - FrameT
  /\ picture' = Lit(d)
  /\ mem' \in Memory /\ page' \in Banks /\ border' \in Colour
  /\ UNCHANGED watched

\* Between two frames no time passes; the host may load another state.
Host ==
  /\ beam <= Overrun
  /\ watched' \in BOOLEAN
  /\ mem' \in Memory /\ page' \in Banks /\ border' \in Colour
  /\ UNCHANGED <<picture, beam>>

Next == (\E d \in 0 .. FrameT + Overrun : Draw(d)) \/ Host

Spec == Init /\ [][Next]_rasterVars
=============================================================================
