-------------------------------- MODULE Psg --------------------------------
(***************************************************************************)
(* The AY-3-8912 as the sound path sees it (ay.c): registers, the selected *)
(* one, and generators that move on by one sample at a time.  Of the        *)
(* generators only the envelope can be told apart from outside, because    *)
(* writing its shape restarts it; the tone and noise counters, the volume   *)
(* curve and the bits a register lacks are left out.                       *)
(***************************************************************************)
EXTENDS Integers

CONSTANTS
  Registers, Shape,    \* the registers, and the one that holds the envelope's shape (13)
  RegByte,             \* what programs write to them
  EnvEnd               \* the last position of the envelope (63)

ASSUME PsgAssumption == {0, Shape} \subseteq Registers /\ 0 \in RegByte /\ EnvEnd \in Nat

Chip == [reg : [Registers -> RegByte], sel : Registers, env : 0 .. EnvEnd]

\* Every register written, the shape among them.
Programmed(reg, sel) == [reg |-> reg, sel |-> sel, env |-> 0]

\* ay_reset.  (The mixer, register 7, starts at 0xFF; it is not among an instance's registers.)
Silent == Programmed([r \in Registers |-> 0], 0)

Select(chip, r) == [chip EXCEPT !.sel = r]

WriteReg(chip, v) ==
  [chip EXCEPT !.reg[chip.sel] = v, !.env = IF chip.sel = Shape THEN 0 ELSE @]

\* ay_sample, k times.
Clocked(chip, k) == [chip EXCEPT !.env = IF @ + k > EnvEnd THEN EnvEnd ELSE @ + k]

\* What is heard of it.
Tone(chip) == <<chip.reg, chip.env>>
=============================================================================
