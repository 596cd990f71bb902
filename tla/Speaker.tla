------------------------------ MODULE Speaker ------------------------------
(***************************************************************************)
(* The sound a listener is owed: at every moment the speaker is where the  *)
(* program put it, and every SampleLen moments a sample is heard, the time  *)
(* it was up in them and what the sound chip plays at their end.  A T-state *)
(* is TState moments, so that a sample (79.37 T-states) is a whole number.  *)
(***************************************************************************)
EXTENDS Psg, Sequences

CONSTANTS SampleLen, TState,
  Longest              \* the longest time without an access, in T-states

VARIABLES clock, up, filled, duty, chip, heard

speakerVars == <<clock, up, filled, duty, chip, heard>>

Init == /\ clock = 0 /\ up \in 0 .. 1 /\ filled = 0 /\ duty = 0 /\ heard = <<>> /\ chip = Silent

\* One moment.
Moment(s) ==
  LET t == [s EXCEPT !.filled = @ + 1, !.duty = @ + up]
  IN IF t.filled < SampleLen THEN t
     ELSE LET c == Clocked(t.chip, 1)
          IN [filled |-> 0, duty |-> 0, chip |-> c, heard |-> Append(t.heard, <<t.duty, Tone(c)>>)]

Moments(n) ==
  LET after[k \in 0 .. n] ==
        IF k = 0 THEN [filled |-> filled, duty |-> duty, chip |-> chip, heard |-> heard]
                 ELSE Moment(after[k - 1])
  IN after[n]

\* d T-states pass, then the program moves the speaker or writes to the chip.
Pass(d) ==
  /\ clock' = clock + d
  /\ LET s == Moments(d * TState)
     IN
     /\ filled' = s.filled /\ duty' = s.duty /\ heard' = s.heard
     /\ \/ chip' = s.chip /\ up' \in 0 .. 1
        \/ UNCHANGED up /\ \/ \E v \in RegByte : chip' = WriteReg(s.chip, v)
                           \/ \E r \in Registers : chip' = Select(s.chip, r)
                           \/ \E reg \in [Registers -> RegByte], r \in Registers :
                                chip' = Programmed(reg, r)

Next == \E d \in 0 .. Longest : Pass(d)

Spec == Init /\ [][Next]_speakerVars
=============================================================================
