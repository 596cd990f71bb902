----------------------------- MODULE TapeProofs -----------------------------
(***************************************************************************)
(* What holds of the cassette player for every set of tapes, every polling *)
(* pattern and every window, of the two sides of the deck, and of what is  *)
(* taken for polling there.                                                *)
(***************************************************************************)
EXTENDS TapePolls, TLAPS

\* The running player never waits longer than the pulse under its head.
DueInPulse == Running => due <= Pulse(idx)

Inv == TypeOK /\ NextBoundaryAhead /\ LevelIsParity /\ DueInPulse

\* The contents of every tape are well formed.
LEMMA TapeFacts ==
  ASSUME NEW t \in Tapes
  PROVE  /\ t.len \in Nat /\ t.nb \in Nat
         /\ t.at \in [0 .. t.len -> Nat]
         /\ \A i, j \in 0 .. t.len : i <= j => t.at[i] <= t.at[j]
         /\ t.bound \in [0 .. t.nb - 1 -> 0 .. t.len]
         /\ \A b, c \in 0 .. t.nb - 1 : b < c => t.bound[b] < t.bound[c]
         /\ \A k \in 0 .. t.len : t.at[k] <= MaxLate
<1>1. IsTape(t)
  BY TapesAssumption
<1>2. t.at[t.len] <= MaxLate
  BY BoundsAssumption
<1>3. MaxLate \in Nat
  BY BoundsAssumption
<1> HIDE TapesAssumption, BoundsAssumption
<1>4. \A k \in 0 .. t.len : t.at[k] \in Nat /\ t.at[k] <= t.at[t.len]
  BY <1>1 DEF IsTape
<1>5. \A k \in 0 .. t.len : t.at[k] <= MaxLate
  <2>1. t.at[t.len] \in Nat
    BY <1>1, <1>4 DEF IsTape
  <2> QED BY <1>2, <1>3, <1>4, <2>1
<1> QED BY <1>1, <1>5 DEF IsTape

\* The pulses of the tape in the deck: how long they are.
LEMMA PulseFacts ==
  ASSUME TypeOK, NEW k \in 0 .. tape.len - 1
  PROVE  Pulse(k) \in 0 .. MaxLate
<1>1. /\ tape.len \in Nat /\ tape.at \in [0 .. tape.len -> Nat]
      /\ tape.at[k] <= tape.at[k + 1] /\ tape.at[k + 1] <= MaxLate
  BY TapeFacts DEF TypeOK
<1>2. MaxLate \in Nat
  BY BoundsAssumption
<1> QED BY <1>1, <1>2 DEF Pulse

\* Reads and waits leave the rate window typed.
LEMMA RateTyped ==
  ASSUME TypeOK, NEW d \in Gaps
  PROVE  /\ Aged(d) \in 0 .. MaxAge /\ HotNow(d) \in BOOLEAN
         /\ \A s \in BOOLEAN : CountRead(d, s) \in 0 .. HotReads
<1>1. d \in Nat /\ MaxAge \in Nat /\ HotReads \in Nat /\ HotWindow \in Nat
  BY BoundsAssumption, RateAssumption
<1>2. winAge \in 0 .. MaxAge /\ winReads \in 0 .. HotReads /\ hot \in BOOLEAN
  BY DEF TypeOK
<1>3. Aged(d) \in 0 .. MaxAge
  BY <1>1, <1>2 DEF Aged, Least
<1>4. HotNow(d) \in BOOLEAN
  <2>1. (winReads >= HotReads) \in BOOLEAN
    OBVIOUS
  <2> QED BY <1>2, <2>1, Zenon DEF HotNow
<1>5. \A s \in BOOLEAN : CountRead(d, s) \in 0 .. HotReads
  <2> TAKE s \in BOOLEAN
  <2> DEFINE had == IF Rolled(d) THEN 0 ELSE winReads
             one == IF s THEN 0 ELSE 1
  <2>1. had \in Nat /\ one \in Nat
    BY <1>1, <1>2
  <2>2. CountRead(d, s) = Least(had + one, HotReads)
    BY DEF CountRead
  <2> HIDE DEF had, one
  <2> QED BY <1>1, <2>1, <2>2 DEF Least
<1> QED BY <1>3, <1>4, <1>5

LEMMA RatePolled ==
  ASSUME TypeOK, NEW d \in Gaps, NEW s \in BOOLEAN, PollRate(d, s)
  PROVE  winAge' \in 0 .. MaxAge /\ winReads' \in 0 .. HotReads /\ hot' \in BOOLEAN
<1>1. MaxAge \in Nat
  BY BoundsAssumption
<1> QED BY <1>1, RateTyped DEF PollRate

LEMMA RateElapsed ==
  ASSUME TypeOK, NEW d \in Gaps, Elapse(d)
  PROVE  winAge' \in 0 .. MaxAge /\ winReads' \in 0 .. HotReads /\ hot' \in BOOLEAN
BY RateTyped DEF Elapse, TypeOK

\* The boundary looked for next lies beyond the pulse it is looked for from.
LEMMA AheadFacts ==
  ASSUME TypeOK, NEW from \in Nat, NEW j, NEW b, AheadFrom(from, j, b)
  PROVE  b \in Nat /\ (b < tape.nb => tape.bound[b] > j)
BY TapeFacts DEF AheadFrom, Most, TypeOK

-----------------------------------------------------------------------------
LEMMA InitInv == Init => Inv
<1> SUFFICES ASSUME Init PROVE Inv
  OBVIOUS
<1>1. MaxLate \in Nat /\ MaxAge \in Nat /\ HotReads \in Nat
  BY BoundsAssumption, RateAssumption
<1>2. tape.len \in Nat
  BY TapeFacts DEF Init
<1>3. TypeOK
  <2>1. due \in -MaxLate .. MaxLate /\ winAge \in 0 .. MaxAge /\ winReads \in 0 .. HotReads
    BY <1>1 DEF Init
  <2>2. idx \in 0 .. tape.len /\ ear \in 0 .. 1 /\ nextb \in Nat
    BY <1>2 DEF Init
  <2> QED BY <2>1, <2>2 DEF Init, TypeOK
<1> QED BY <1>3 DEF Init, Inv, NextBoundaryAhead, LevelIsParity, DueInPulse, Running

\* The arithmetic of edge_ts += pulses[idx]: either the head moved, and the
\* edge it moved past was due, or it stayed in a pulse not yet over.
LEMMA EdgeArith ==
  ASSUME NEW was \in Int, NEW d \in Nat, NEW a0 \in Nat, NEW a1 \in Nat,
         NEW j0 \in Nat, NEW j1 \in Nat, NEW M \in Nat, j1 <= M,
         was - d + j1 - a1 > 0,
         \/ was - d + j0 - a1 <= 0
         \/ j0 = a0 /\ j1 = a1 /\ was <= a1 - a0
  PROVE  /\ was - d + j1 - a1 \in 0 .. M
         /\ was - d + j1 - a1 <= j1 - j0
OBVIOUS

\* What the catch-up loop leaves behind when it stays on the tape.
LEMMA LandInv ==
  ASSUME Inv, playing, ~paused, NEW d \in Gaps, tape' = tape,
         NEW j \in idx .. tape.len, j # tape.len, LandsOn(d, j), Land(d, j)
  PROVE  /\ idx' \in 0 .. tape.len /\ ear' \in 0 .. 1 /\ nextb' \in Nat
         /\ due' \in -MaxLate .. MaxLate
         /\ paused' \in BOOLEAN /\ playing' \in BOOLEAN
         /\ NextBoundaryAhead' /\ LevelIsParity' /\ DueInPulse'
<1>1. /\ tape \in Tapes /\ tape.len \in Nat /\ tape.nb \in Nat /\ idx \in Nat
      /\ nextb \in Nat /\ ear \in 0 .. 1 /\ due \in Int
  BY TapeFacts DEF Inv, TypeOK
<1>2. d \in Nat /\ MaxLate \in Nat
  BY BoundsAssumption
<1>3. j \in Nat /\ idx <= j /\ j < tape.len /\ idx < tape.len
  BY <1>1
<1>4. TypeOK
  BY DEF Inv
<1>5. idx' = j /\ playing' = playing
  BY DEF Land
<1>6. idx' \in 0 .. tape.len
  BY <1>1, <1>3, <1>5
<1>7. nextb' \in Nat /\ (nextb' < tape.nb => tape.bound[nextb'] > j)
  <2>1. PICK b \in nextb .. Most(nextb, tape.nb) : AheadFrom(nextb, j, b) /\ nextb' = b
    BY DEF NextBoundary, Land
  <2> QED BY <1>1, <1>4, <2>1, AheadFacts
<1>8. NextBoundaryAhead'
  BY <1>1, <1>3, <1>5, <1>7 DEF NextBoundaryAhead
<1>9. ear' = idx' % 2 /\ ear' \in 0 .. 1
  <2>1. ear = idx % 2
    BY DEF Inv, LevelIsParity
  <2>2. ear' = (ear + (j - idx)) % 2
    BY DEF Toggled, Land
  <2> QED BY <1>1, <1>3, <1>5, <2>1, <2>2
<1>10. LevelIsParity'
  BY <1>9 DEF LevelIsParity
<1>11. CASE j > idx /\ StopsAt(d, j)
  <2>1. paused' = TRUE /\ due' = 0
    BY <1>11 DEF Land
  <2>2. DueInPulse'
    BY <2>1 DEF DueInPulse, Running
  <2>3. due' \in -MaxLate .. MaxLate
    BY <2>1, <1>2
  <2> QED BY <1>5, <1>6, <1>7, <1>8, <1>9, <1>10, <2>1, <2>2, <2>3
<1>12. CASE ~(j > idx /\ StopsAt(d, j))
  <2>1. paused' = FALSE /\ due' = NextEdge(d, j)
    BY <1>12 DEF Land
  <2>2. due' = due - d + tape.at[j + 1] - tape.at[idx + 1]
    BY <2>1 DEF NextEdge, EdgeIn
  <2>3. due - d + tape.at[j + 1] - tape.at[idx + 1] > 0
    <3>1. EdgeIn(d, j + 1) > 0
      BY <1>3, <1>12 DEF LandsOn
    <3> QED BY <3>1 DEF EdgeIn
  <2>4. /\ tape.at[idx] \in Nat /\ tape.at[idx + 1] \in Nat
        /\ tape.at[j] \in Nat /\ tape.at[j + 1] \in Nat /\ tape.at[j + 1] <= MaxLate
    <3>1. \A k \in 0 .. tape.len : tape.at[k] \in Nat /\ tape.at[k] <= MaxLate
      BY <1>1, TapeFacts
    <3>2. {idx, idx + 1, j, j + 1} \subseteq 0 .. tape.len
      BY <1>1, <1>3
    <3> QED BY <3>1, <3>2
  <2>5. \/ due - d + tape.at[j] - tape.at[idx + 1] <= 0
        \/ tape.at[j] = tape.at[idx] /\ tape.at[j + 1] = tape.at[idx + 1] /\ due <= tape.at[idx + 1] - tape.at[idx]
    <3>1. CASE j = idx
      <4>1. due <= tape.at[idx + 1] - tape.at[idx]
        BY DEF Inv, DueInPulse, Running, Pulse
      <4> QED BY <4>1, <3>1
    <3>2. CASE j > idx
      <4>1. EdgeIn(d, j) <= 0
        BY <3>2 DEF LandsOn
      <4> QED BY <4>1 DEF EdgeIn
    <3> QED BY <1>1, <1>3, <3>1, <3>2
  <2>6. due' \in 0 .. MaxLate /\ due' <= tape.at[j + 1] - tape.at[j]
    BY <1>1, <1>2, <2>2, <2>3, <2>4, <2>5, EdgeArith
  <2>7. DueInPulse'
    BY <1>5, <2>6 DEF DueInPulse, Running, Pulse
  <2>8. due' \in -MaxLate .. MaxLate
    BY <1>2, <2>6
  <2> QED BY <1>5, <1>6, <1>7, <1>8, <1>9, <1>10, <2>1, <2>7, <2>8
<1> QED BY <1>11, <1>12

\* The second boundary lies beyond the start, so a rewound player that looks for
\* it looks ahead.
LEMMA SecondBoundary ==
  ASSUME NEW t \in Tapes
  PROVE  1 < t.nb => t.bound[1] > 0
<1>1. /\ t.nb \in Nat /\ t.len \in Nat /\ t.bound \in [0 .. t.nb - 1 -> 0 .. t.len]
      /\ \A b, c \in 0 .. t.nb - 1 : b < c => t.bound[b] < t.bound[c]
  BY TapeFacts
<1> SUFFICES ASSUME 1 < t.nb PROVE t.bound[1] > 0
  OBVIOUS
<1>2. 0 \in 0 .. t.nb - 1 /\ 1 \in 0 .. t.nb - 1
  BY <1>1
<1>3. t.bound[0] \in Nat /\ t.bound[1] \in Nat /\ t.bound[0] < t.bound[1]
  BY <1>1, <1>2
<1> QED BY <1>3

\* A stopped or rewound player is in order.
LEMMA RestInv ==
  ASSUME tape' \in Tapes, idx' \in 0 .. tape'.len, ear' = 0, due' = 0, nextb' \in Nat,
         playing' \in BOOLEAN, paused' \in BOOLEAN, winAge' \in 0 .. MaxAge,
         winReads' \in 0 .. HotReads, hot' \in BOOLEAN,
         playing' => /\ paused' /\ idx' = 0 /\ 0 < tape'.len
                     /\ nextb' < tape'.nb => tape'.bound[nextb'] > 0
  PROVE  Inv'
<1>1. due' \in -MaxLate .. MaxLate /\ ear' \in 0 .. 1
  BY BoundsAssumption
<1>2. TypeOK'
  BY <1>1 DEF TypeOK
<1>3. NextBoundaryAhead'
  BY DEF NextBoundaryAhead
<1>4. LevelIsParity'
  BY DEF LevelIsParity
<1>5. DueInPulse'
  BY DEF DueInPulse, Running
<1> QED BY <1>2, <1>3, <1>4, <1>5 DEF Inv

LEMMA EarReadInv ==
  ASSUME Inv, NEW d \in Gaps, NEW s \in BOOLEAN, EarRead(d, s)
  PROVE  Inv'
<1>1. /\ TypeOK /\ playing /\ tape' = tape /\ tape \in Tapes /\ tape.len \in Nat
      /\ idx \in Nat /\ idx < tape.len
  BY TapeFacts DEF Inv, TypeOK, NextBoundaryAhead, EarRead
<1>2. winAge' \in 0 .. MaxAge /\ winReads' \in 0 .. HotReads /\ hot' \in BOOLEAN
  BY <1>1, RatePolled DEF EarRead
<1>3. CASE paused
  <2>1. Resume(d)
    BY <1>3 DEF EarRead
  <2>2. CASE HotNow(d)
    <3>1. paused' = FALSE /\ due' = Pulse(idx) /\ idx' = idx /\ ear' = ear /\ playing' = playing /\ nextb' = nextb
      BY <2>1, <2>2 DEF Resume
    <3>2. Pulse(idx) \in 0 .. MaxLate
      BY <1>1, PulseFacts
    <3>3. due' \in -MaxLate .. MaxLate
      BY <3>1, <3>2, BoundsAssumption
    <3>4. TypeOK'
      BY <1>1, <1>2, <3>1, <3>3 DEF TypeOK
    <3>5. DueInPulse'
      <4>1. Pulse(idx)' = Pulse(idx)
        BY <1>1, <3>1 DEF Pulse
      <4> QED BY <4>1, <3>1, <3>2 DEF DueInPulse
    <3> QED BY <1>1, <3>1, <3>4, <3>5 DEF Inv, NextBoundaryAhead, LevelIsParity
  <2>3. CASE ~HotNow(d)
    <3>1. paused' = paused /\ due' = due /\ idx' = idx /\ ear' = ear /\ playing' = playing /\ nextb' = nextb
      BY <2>1, <2>3 DEF Resume
    <3>2. TypeOK'
      BY <1>1, <1>2, <3>1 DEF TypeOK
    <3> QED BY <1>1, <1>3, <3>1, <3>2 DEF Inv, NextBoundaryAhead, LevelIsParity, DueInPulse, Running
  <2> QED BY <2>2, <2>3
<1>4. CASE ~paused
  <2>1. PICK j \in idx .. tape.len :
          LandsOn(d, j) /\ IF j = tape.len THEN EndOfTape(d) /\ due' = 0 ELSE Land(d, j)
    BY <1>4 DEF EarRead, CatchUp
  <2>2. CASE j # tape.len
    <3>1. Land(d, j)
      BY <2>1, <2>2
    <3>2. /\ idx' \in 0 .. tape.len /\ ear' \in 0 .. 1 /\ nextb' \in Nat
          /\ due' \in -MaxLate .. MaxLate
          /\ paused' \in BOOLEAN /\ playing' \in BOOLEAN
          /\ NextBoundaryAhead' /\ LevelIsParity' /\ DueInPulse'
      BY <1>1, <1>4, <2>1, <2>2, <3>1, LandInv
    <3>3. TypeOK'
      BY <1>1, <1>2, <3>2 DEF TypeOK
    <3> QED BY <3>2, <3>3 DEF Inv
  <2>3. CASE j = tape.len /\ HotNow(d)
    <3>1. /\ idx' = 0 /\ ear' = 0 /\ due' = 0 /\ nextb' = 1 /\ paused' = TRUE /\ playing' = playing
      BY <2>1, <2>3 DEF EndOfTape, Rewind
    <3>2. idx' \in 0 .. tape'.len /\ 0 < tape'.len /\ nextb' \in Nat
      BY <1>1, <3>1
    <3>3. playing' \in BOOLEAN /\ paused' \in BOOLEAN
      BY <1>1, <3>1 DEF TypeOK
    <3>4. nextb' < tape'.nb => tape'.bound[nextb'] > 0
      BY <1>1, <3>1, SecondBoundary
    <3> QED BY <1>1, <1>2, <3>1, <3>2, <3>3, <3>4, RestInv
  <2>4. CASE j = tape.len /\ ~HotNow(d)
    <3>1. /\ idx' = tape.len /\ ear' = 0 /\ due' = 0 /\ paused' = paused /\ playing' = FALSE
          /\ NextBoundary(nextb, tape.len - 1)
      BY <2>1, <2>4 DEF EndOfTape
    <3>2. nextb' \in Nat
      <4>1. PICK b \in nextb .. Most(nextb, tape.nb) : AheadFrom(nextb, tape.len - 1, b) /\ nextb' = b
        BY <3>1 DEF NextBoundary
      <4> QED BY <1>1, <4>1, AheadFacts DEF TypeOK
    <3>3. playing' \in BOOLEAN /\ paused' \in BOOLEAN
      BY <1>1, <3>1 DEF TypeOK
    <3>4. idx' \in 0 .. tape'.len
      BY <1>1, <3>1
    <3> QED BY <1>1, <1>2, <3>1, <3>2, <3>3, <3>4, RestInv
  <2> QED BY <2>2, <2>3, <2>4
<1> QED BY <1>3, <1>4

LEMMA PlayStartInv ==
  ASSUME Inv, NEW d, PlayStart(d)
  PROVE  Inv'
<1>1. /\ TypeOK /\ tape' = tape /\ tape \in Tapes /\ tape.len \in Nat /\ tape.len > 0
      /\ idx' = 0 /\ ear' = 0 /\ playing' = TRUE /\ paused' = FALSE
      /\ winAge' = 0 /\ winReads' = 0 /\ hot' = FALSE /\ due' = Pulse(0)
  BY TapeFacts DEF Inv, TypeOK, PlayStart
<1>2. Pulse(0) \in 0 .. MaxLate
  BY <1>1, PulseFacts
<1>3. Pulse(idx)' = Pulse(0)
  BY <1>1 DEF Pulse
<1>4. nextb' \in Nat /\ (nextb' < tape.nb => tape.bound[nextb'] > 0)
  <2>1. PICK b \in 0 .. Most(0, tape.nb) : AheadFrom(0, 0, b) /\ nextb' = b
    BY DEF PlayStart, NextBoundary
  <2> QED BY <1>1, <2>1, AheadFacts
<1>5. TypeOK'
  <2>1. due' \in -MaxLate .. MaxLate /\ winAge' \in 0 .. MaxAge /\ winReads' \in 0 .. HotReads
    BY <1>1, <1>2, BoundsAssumption, RateAssumption
  <2>2. idx' \in 0 .. tape'.len /\ ear' \in 0 .. 1
    BY <1>1
  <2> QED BY <1>1, <1>4, <2>1, <2>2 DEF TypeOK
<1>6. LevelIsParity'
  BY <1>1 DEF LevelIsParity
<1>7. DueInPulse'
  BY <1>1, <1>2, <1>3 DEF DueInPulse
<1>8. NextBoundaryAhead'
  BY <1>1, <1>4 DEF NextBoundaryAhead
<1> QED BY <1>5, <1>6, <1>7, <1>8 DEF Inv

LEMMA ToggleKeyInv ==
  ASSUME Inv, NEW d \in Gaps, ToggleKey(d)
  PROVE  Inv'
<1>1. /\ TypeOK /\ playing /\ tape' = tape /\ tape \in Tapes /\ tape.len \in Nat
      /\ idx \in Nat /\ idx < tape.len
      /\ idx' = idx /\ ear' = ear /\ playing' = playing /\ nextb' = nextb /\ paused' = ~paused
  BY TapeFacts DEF Inv, TypeOK, NextBoundaryAhead, ToggleKey
<1>2. winAge' \in 0 .. MaxAge /\ winReads' \in 0 .. HotReads /\ hot' \in BOOLEAN
  BY <1>1, RateElapsed DEF ToggleKey
<1>3. Pulse(idx) \in 0 .. MaxLate /\ Pulse(idx)' = Pulse(idx)
  <2>1. Pulse(idx)' = Pulse(idx)
    BY <1>1 DEF Pulse
  <2> QED BY <1>1, <2>1, PulseFacts
<1>4. due' \in -MaxLate .. MaxLate /\ DueInPulse'
  <2>1. CASE paused
    <3>1. due' = Pulse(idx)
      BY <2>1 DEF ToggleKey
    <3> QED BY <1>3, <3>1, BoundsAssumption DEF DueInPulse
  <2>2. CASE ~paused
    <3>1. due' = 0
      BY <2>2 DEF ToggleKey
    <3> QED BY <1>3, <3>1, BoundsAssumption DEF DueInPulse
  <2> QED BY <2>1, <2>2
<1>5. TypeOK'
  BY <1>1, <1>2, <1>4 DEF TypeOK
<1> QED BY <1>1, <1>4, <1>5 DEF Inv, NextBoundaryAhead, LevelIsParity

LEMMA RewindKeyInv ==
  ASSUME Inv, NEW d \in Gaps, RewindKey(d)
  PROVE  Inv'
<1>1. /\ TypeOK /\ tape' = tape /\ tape \in Tapes /\ tape.len \in Nat /\ tape.len > 0
      /\ idx' = 0 /\ ear' = 0 /\ due' = 0 /\ nextb' = 1 /\ playing' = TRUE /\ paused' = TRUE
  BY TapeFacts DEF Inv, TypeOK, RewindKey, Rewind
<1>2. winAge' \in 0 .. MaxAge /\ winReads' \in 0 .. HotReads /\ hot' \in BOOLEAN
  BY <1>1, RateElapsed DEF RewindKey
<1>3. idx' \in 0 .. tape'.len /\ nextb' \in Nat
  BY <1>1
<1>4. nextb' < tape'.nb => tape'.bound[nextb'] > 0
  BY <1>1, SecondBoundary
<1> QED BY <1>1, <1>2, <1>3, <1>4, RestInv

LEMMA ResetInv ==
  ASSUME Inv, NEW d \in Gaps, Reset(d)
  PROVE  Inv'
<1>1. /\ TypeOK /\ tape' = tape /\ tape \in Tapes /\ tape.len \in Nat
      /\ idx' = 0 /\ ear' = 0 /\ due' = 0 /\ nextb' = 1 /\ playing' = FALSE /\ paused' = FALSE
      /\ winAge' = Aged(d) /\ winReads' = 0 /\ hot' = FALSE
  BY TapeFacts DEF Inv, TypeOK, Reset
<1>2. winAge' \in 0 .. MaxAge /\ winReads' \in 0 .. HotReads
  BY <1>1, RateTyped, RateAssumption
<1>3. idx' \in 0 .. tape'.len /\ nextb' \in Nat
  BY <1>1
<1> QED BY <1>1, <1>2, <1>3, RestInv

LEMMA WaitInv ==
  ASSUME Inv, NEW d \in Gaps, Wait(d)
  PROVE  Inv'
<1>1. /\ TypeOK /\ tape' = tape /\ tape \in Tapes /\ idx' = idx /\ ear' = ear
      /\ playing' = playing /\ paused' = paused /\ nextb' = nextb /\ due' = Later(d)
  BY DEF Inv, TypeOK, Wait
<1>2. winAge' \in 0 .. MaxAge /\ winReads' \in 0 .. HotReads /\ hot' \in BOOLEAN
  BY <1>1, RateElapsed DEF Wait
<1>3. d \in Nat /\ MaxLate \in Nat /\ due \in -MaxLate .. MaxLate
  BY <1>1, BoundsAssumption DEF TypeOK
<1>4. due' \in -MaxLate .. MaxLate /\ DueInPulse'
  <2>1. CASE playing /\ ~paused
    <3>1. due' = Most(due - d, -MaxLate)
      BY <1>1, <2>1 DEF Later
    <3>2. due' \in -MaxLate .. MaxLate
      BY <1>3, <3>1 DEF Most
    <3>3. due <= Pulse(idx) /\ Pulse(idx) \in 0 .. MaxLate
      <4>1. due <= Pulse(idx)
        BY <2>1 DEF Inv, DueInPulse, Running
      <4>2. tape.len \in Nat /\ idx \in Nat /\ idx < tape.len
        BY <2>1, TapeFacts DEF Inv, TypeOK, NextBoundaryAhead
      <4>3. idx \in 0 .. tape.len - 1
        BY <4>2
      <4> QED BY <1>1, <4>1, <4>3, PulseFacts
    <3>4. Pulse(idx)' = Pulse(idx)
      BY <1>1 DEF Pulse
    <3>5. due' <= Pulse(idx)
      BY <1>3, <3>1, <3>3 DEF Most
    <3> QED BY <3>2, <3>4, <3>5 DEF DueInPulse
  <2>2. CASE ~(playing /\ ~paused)
    <3>1. due' = 0
      BY <1>1, <2>2 DEF Later
    <3> QED BY <1>1, <1>3, <2>2, <3>1 DEF DueInPulse, Running
  <2> QED BY <2>1, <2>2
<1>5. TypeOK'
  BY <1>1, <1>2, <1>4 DEF TypeOK
<1> QED BY <1>1, <1>4, <1>5 DEF Inv, NextBoundaryAhead, LevelIsParity

\* A new tape finds the player at rest, or paused before its first block.
LEMMA InsertInv ==
  ASSUME Inv, NEW t \in Tapes, Insert(t)
  PROVE  Inv'
<1>1. /\ tape' = t /\ idx' = 0 /\ ear' = 0 /\ due' = 0 /\ nextb' = 0
      /\ playing' = FALSE /\ paused' = FALSE /\ winAge' = MaxAge /\ winReads' = 0 /\ hot' = FALSE
  BY DEF Insert
<1>2. winAge' \in 0 .. MaxAge /\ winReads' \in 0 .. HotReads
  BY <1>1, BoundsAssumption, RateAssumption
<1>3. idx' \in 0 .. tape'.len /\ nextb' \in Nat
  BY <1>1, TapeFacts
<1> QED BY <1>1, <1>2, <1>3, RestInv

LEMMA InsertPausedInv ==
  ASSUME Inv, NEW t \in Tapes, InsertPaused(t)
  PROVE  Inv'
<1>1. CASE t.len = 0
  BY <1>1, InsertInv DEF InsertPaused
<1>2. CASE t.len # 0
  <2>1. /\ tape' = t /\ idx' = 0 /\ ear' = 0 /\ due' = 0
        /\ nextb' = IF t.nb > 0 /\ t.bound[0] = 0 THEN 1 ELSE 0
        /\ playing' = TRUE /\ paused' = TRUE /\ winAge' = 0 /\ winReads' = 0 /\ hot' = FALSE
    BY <1>2 DEF InsertPaused
  <2>2. /\ t.len \in Nat /\ t.nb \in Nat /\ t.bound \in [0 .. t.nb - 1 -> 0 .. t.len]
        /\ \A b, c \in 0 .. t.nb - 1 : b < c => t.bound[b] < t.bound[c]
    BY TapeFacts
  <2>3. MaxAge \in Nat /\ HotReads \in Nat /\ MaxLate \in Nat
    BY BoundsAssumption, RateAssumption
  <2>4. TypeOK'
    <3>1. idx' \in 0 .. tape'.len /\ ear' \in 0 .. 1 /\ due' \in -MaxLate .. MaxLate /\ nextb' \in Nat
      BY <2>1, <2>2, <2>3
    <3>2. winAge' \in 0 .. MaxAge /\ winReads' \in 0 .. HotReads
      BY <2>1, <2>3, RateAssumption
    <3> QED BY <2>1, <3>1, <3>2 DEF TypeOK
  <2>5. NextBoundaryAhead'
    <3>1. idx' < tape'.len
      BY <1>2, <2>1, <2>2
    <3>2. ASSUME nextb' < tape'.nb PROVE tape'.bound[nextb'] > 0
      <4>1. CASE t.bound[0] = 0
        <5>1. nextb' = 1 /\ 0 \in 0 .. t.nb - 1 /\ 1 \in 0 .. t.nb - 1
          BY <2>1, <2>2, <3>2, <4>1
        <5> QED BY <2>1, <2>2, <4>1, <5>1
      <4>2. CASE t.bound[0] # 0
        <5>1. nextb' = 0 /\ 0 \in 0 .. t.nb - 1
          BY <2>1, <2>2, <3>2, <4>2
        <5>2. t.bound[0] \in 0 .. t.len
          BY <2>2, <5>1
        <5> QED BY <2>1, <2>2, <4>2, <5>1, <5>2
      <4> QED BY <4>1, <4>2
    <3> QED BY <2>1, <3>1, <3>2 DEF NextBoundaryAhead
  <2>6. LevelIsParity' /\ DueInPulse'
    BY <2>1 DEF LevelIsParity, DueInPulse, Running
  <2> QED BY <2>4, <2>5, <2>6 DEF Inv
<1> QED BY <1>1, <1>2

LEMMA StepInv == Inv /\ [Next]_vars => Inv'
<1> SUFFICES ASSUME Inv, [Next]_vars PROVE Inv'
  OBVIOUS
<1>1. ASSUME NEW d \in Gaps, NEW s \in BOOLEAN, EarRead(d, s) PROVE Inv'
  BY <1>1, EarReadInv
<1>2. ASSUME NEW d \in Gaps, PlayStart(d) PROVE Inv'
  BY <1>2, PlayStartInv
<1>3. ASSUME NEW d \in Gaps, ToggleKey(d) PROVE Inv'
  BY <1>3, ToggleKeyInv
<1>4. ASSUME NEW d \in Gaps, RewindKey(d) PROVE Inv'
  BY <1>4, RewindKeyInv
<1>5. ASSUME NEW d \in Gaps, Reset(d) PROVE Inv'
  BY <1>5, ResetInv
<1>6. ASSUME NEW d \in Gaps, Wait(d) PROVE Inv'
  BY <1>6, WaitInv
<1>7. ASSUME NEW t \in Tapes, Insert(t) \/ InsertPaused(t) PROVE Inv'
  BY <1>7, InsertInv, InsertPausedInv
<1>8. CASE UNCHANGED vars
  BY <1>8 DEF vars, rate, Inv, TypeOK, NextBoundaryAhead, LevelIsParity, DueInPulse, Running, Pulse
<1> QED BY <1>1, <1>2, <1>3, <1>4, <1>5, <1>6, <1>7, <1>8 DEF Next

\* The whole inductive invariant holds in every behaviour.
THEOREM InvHolds == Spec => []Inv
<1>1. Init => Inv
  BY InitInv
<1>2. Inv /\ [Next]_vars => Inv'
  BY StepInv
<1> QED BY <1>1, <1>2, PTL DEF Spec

\* The player's registers keep their types and the head stays on the tape.
THEOREM TypeCorrect == Spec => []TypeOK
<1>1. Inv => TypeOK
  BY DEF Inv
<1> QED BY <1>1, InvHolds, PTL

\* The boundary looked for never slips behind the head unmatched, whatever the tape.
THEOREM BoundaryStaysAhead == Spec => []NextBoundaryAhead
<1>1. Inv => NextBoundaryAhead
  BY DEF Inv
<1> QED BY <1>1, InvHolds, PTL

\* The level the CPU reads is the parity of the pulse, for every tape.
THEOREM LevelCorrect == Spec => []LevelIsParity
<1>1. Inv => LevelIsParity
  BY DEF Inv
<1> QED BY <1>1, InvHolds, PTL

-----------------------------------------------------------------------------
\* However late a read comes, it leaves the running player exactly where the
\* tape is at that moment.
THEOREM TimeKept == Spec => KeepsTime
<1>1. ASSUME Inv, NEW d \in Gaps, NEW s \in BOOLEAN, EarRead(d, s), Running, Running'
      PROVE  /\ due' > 0 /\ due' <= Pulse(idx)'
             /\ due' - tape.at[idx' + 1] = due - d - tape.at[idx + 1]
  <2>1. ~paused /\ playing /\ playing' /\ ~paused' /\ tape' = tape
    BY <1>1 DEF Running, EarRead
  <2>2. PICK j \in idx .. tape.len :
          LandsOn(d, j) /\ IF j = tape.len THEN EndOfTape(d) /\ due' = 0 ELSE Land(d, j)
    BY <1>1, <2>1 DEF EarRead, CatchUp
  <2>3. j # tape.len
    BY <2>1, <2>2 DEF EndOfTape
  <2>4. Land(d, j) /\ idx' = j /\ ~(j > idx /\ StopsAt(d, j)) /\ due' = NextEdge(d, j)
    BY <2>1, <2>2, <2>3 DEF Land
  <2>5. EdgeIn(d, j + 1) > 0
    <3>1. tape.len \in Nat /\ idx \in Nat
      BY <1>1, TapeFacts DEF Inv, TypeOK
    <3>2. j < tape.len
      BY <2>3, <3>1
    <3> QED BY <2>2, <2>4, <3>2 DEF LandsOn
  <2>6. due' > 0
    BY <2>4, <2>5 DEF NextEdge
  <2>7. due' <= Pulse(idx)'
    <3>1. Inv'
      BY <1>1, EarReadInv
    <3> QED BY <1>1, <3>1 DEF Inv, DueInPulse
  <2>8. due' = due - d + tape.at[j + 1] - tape.at[idx + 1]
    BY <2>4 DEF NextEdge, EdgeIn
  <2>9. due \in Int /\ d \in Int /\ tape.at[j + 1] \in Int /\ tape.at[idx + 1] \in Int
    <3>1. tape.len \in Nat /\ idx \in Nat /\ tape.at \in [0 .. tape.len -> Nat] /\ due \in Int
      BY <1>1, TapeFacts DEF Inv, TypeOK
    <3>2. j + 1 \in 0 .. tape.len /\ idx + 1 \in 0 .. tape.len
      BY <2>3, <3>1
    <3> QED BY <3>1, <3>2, BoundsAssumption
  <2> QED BY <2>4, <2>6, <2>7, <2>8, <2>9
<1>2. Inv => ReadKeepsTime
  BY <1>1 DEF ReadKeepsTime
<1> QED BY <1>2, InvHolds, PTL DEF KeepsTime

-----------------------------------------------------------------------------
(***************************************************************************)
(* The two cassette sides, for every set of files, readable or not: the    *)
(* deck is a player, and its name is the name of its tape.                 *)
(***************************************************************************)

DeckInv ==
  /\ cur \in Names \cup {NoSide} /\ next \in Names \cup {NoSide}
  /\ tape \in Tapes
  /\ DeckHoldsCur

\* Whatever a name's file turns out to be, it is a tape, and the right one while
\* the name is the program's own.
LEMMA ReadableFacts ==
  ASSUME NEW name \in Names
  PROVE  /\ Content[name] \in Tapes
         /\ \A t \in Readable(name) : t \in Tapes /\ (name \in Argument => t = Content[name])
<1>1. \A n \in Names : Content[n] \in Tapes
  BY SidesAssumption
<1>2. name \in Argument => name \notin Dropped
  BY SidesAssumption
<1> QED BY <1>1, <1>2 DEF Readable

\* Each move of the deck is a move of the player, or none.
LEMMA DeckStep ==
  ASSUME DeckInv, [DeckNext]_deckVars
  PROVE  [Next]_vars
<1>1. Blank \in Tapes
  BY TapesAssumption
<1>2. ASSUME NEW t \in Tapes, Insert(t) \/ InsertPaused(t) PROVE Next
  BY <1>2 DEF Next
<1>3. LeaveEmpty => Next
  BY <1>1, <1>2 DEF LeaveEmpty
<1>4. CASE Swap
  <2>1. next \in Names
    BY <1>4 DEF Swap, DeckInv
  <2> QED BY <1>2, <1>3, <1>4, <2>1, ReadableFacts DEF Swap
<1>5. ASSUME NEW name \in Dropped, Drop(name) PROVE Next
  <2>1. Content[name] \in Tapes
    BY ReadableFacts DEF Names
  <2> QED BY <1>2, <1>3, <1>5, <2>1 DEF Drop, LoadDropped
<1>6. CASE ScheduledStart
  BY <1>6 DEF ScheduledStart, Next
<1>7. CASE DeckReset
  BY <1>7 DEF DeckReset, Next
<1>8. CASE Player
  BY <1>8 DEF Player, Next
<1>9. CASE UNCHANGED deckVars
  BY <1>9 DEF deckVars
<1> QED BY <1>4, <1>5, <1>6, <1>7, <1>8, <1>9 DEF DeckNext

\* Only a swap or a drop changes the tape, and each changes the name with it.
LEMMA DeckInvStep ==
  ASSUME DeckInv, [DeckNext]_deckVars
  PROVE  DeckInv'
<1>1. Blank \in Tapes
  BY TapesAssumption
<1>2. NoSide \notin Names /\ Argument \subseteq Names /\ Dropped \subseteq Names /\ Argument \cap Dropped = {}
  BY SidesAssumption DEF Names
<1>3. ASSUME tape' = tape, cur' = cur, next' = next PROVE DeckInv'
  BY <1>3 DEF DeckInv, DeckHoldsCur
<1>4. LeaveEmpty => tape' = Blank
  BY DEF LeaveEmpty, Insert
<1>5. CASE Swap
  <2>1. next \in Names /\ cur' = next /\ next' \in {cur, next}
    BY <1>5 DEF Swap, DeckInv, OtherSide
  <2>2. tape' = Blank \/ tape' \in Readable(next)
    BY <1>4, <1>5 DEF Swap, InsertPaused, Insert
  <2>3. tape' \in Tapes /\ (tape' # Blank /\ cur' \in Argument => tape' = Content[cur'])
    BY <1>1, <2>1, <2>2, ReadableFacts
  <2>4. cur' # NoSide
    BY <1>2, <2>1
  <2> QED BY <2>1, <2>3, <2>4 DEF DeckInv, DeckHoldsCur
<1>6. ASSUME NEW name \in Dropped, Drop(name) PROVE DeckInv'
  <2>1. cur' = name /\ next' = next /\ name \in Names
    BY <1>2, <1>6 DEF Drop
  <2>2. tape' \in Tapes
    BY <1>1, <1>4, <1>6, <2>1, ReadableFacts DEF Drop, LoadDropped, Insert
  <2>3. cur' # NoSide /\ cur' \notin Argument
    BY <1>2, <2>1
  <2> QED BY <2>1, <2>2, <2>3 DEF DeckInv, DeckHoldsCur
<1>7. CASE ScheduledStart
  BY <1>3, <1>7 DEF ScheduledStart, PlayStart, vars
<1>8. CASE DeckReset
  BY <1>3, <1>8 DEF DeckReset, Reset
<1>9. CASE Player
  BY <1>3, <1>9 DEF Player, EarRead, ToggleKey, RewindKey, Wait, deck
<1>10. CASE UNCHANGED deckVars
  BY <1>3, <1>10 DEF deckVars, deck, vars
<1> QED BY <1>5, <1>6, <1>7, <1>8, <1>9, <1>10 DEF DeckNext

LEMMA DeckInvInit == DeckInit => DeckInv
<1> SUFFICES ASSUME DeckInit PROVE DeckInv
  OBVIOUS
<1>1. tape \in Tapes /\ cur \in Argument \cup {NoSide} /\ next \in Argument \cup {NoSide}
  BY DEF DeckInit, Init
<1>2. tape # Blank => cur # NoSide /\ tape = Content[cur]
  BY DEF DeckInit
<1> QED BY <1>1, <1>2 DEF DeckInv, DeckHoldsCur, Names

\* Whatever is swapped or dropped and whatever cannot be read, the tape in the deck is
\* the one its name stands for.
THEOREM DeckNamesItsTape == DeckSpec => []DeckHoldsCur
<1>1. DeckInv /\ [DeckNext]_deckVars => DeckInv'
  BY DeckInvStep
<1>2. DeckInv => DeckHoldsCur
  BY DEF DeckInv
<1> QED BY <1>1, <1>2, DeckInvInit, PTL DEF DeckSpec

\* The deck implements the player, so every theorem about the player holds in it.
THEOREM DeckImplementsPlayer == DeckSpec => DeckIsPlayer
<1>1. DeckInv /\ [DeckNext]_deckVars => DeckInv'
  BY DeckInvStep
<1>2. DeckInv /\ [DeckNext]_deckVars => [Next]_vars
  BY DeckStep
<1>3. DeckInit => Init
  BY DEF DeckInit
<1> QED BY <1>1, <1>2, <1>3, DeckInvInit, PTL DEF DeckSpec, DeckIsPlayer, Spec

-----------------------------------------------------------------------------
\* A tape put in waits before its first block: nothing of it has been looked for but the
\* boundary it stands on.
LEMMA WaitsAtStart ==
  ASSUME NEW t \in Tapes, InsertPaused(t), t.len > 0
  PROVE  idx' = 0 /\ paused' /\ AheadFrom(0, 0, nextb)'
<1>1. /\ tape' = t /\ idx' = 0 /\ paused' = TRUE
      /\ nextb' = IF t.nb > 0 /\ t.bound[0] = 0 THEN 1 ELSE 0
  BY TapeFacts DEF InsertPaused
<1>2. /\ t.nb \in Nat /\ t.bound \in [0 .. t.nb - 1 -> 0 .. t.len] /\ t.len \in Nat
      /\ \A b, c \in 0 .. t.nb - 1 : b < c => t.bound[b] < t.bound[c]
  BY TapeFacts
<1>3. Most(0, t.nb) = t.nb
  BY <1>2 DEF Most
<1>4. CASE t.nb > 0 /\ t.bound[0] = 0
  <2>1. nextb' = 1 /\ 0 \in 0 .. t.nb - 1
    BY <1>1, <1>2, <1>4
  <2>2. 1 < t.nb => t.bound[1] > 0
    <3>1. 1 < t.nb => 1 \in 0 .. t.nb - 1
      BY <1>2
    <3> QED BY <1>2, <1>4, <2>1, <3>1
  <2>3. \A c \in 0 .. 1 - 1 : t.bound[c] <= 0
    BY <1>4
  <2> QED BY <1>1, <1>2, <1>3, <1>4, <2>1, <2>2, <2>3 DEF AheadFrom, Most
<1>5. CASE ~(t.nb > 0 /\ t.bound[0] = 0)
  <2>1. nextb' = 0
    BY <1>1, <1>5
  <2>2. 0 < t.nb => t.bound[0] > 0
    <3>1. 0 < t.nb => t.bound[0] \in 0 .. t.len
      BY <1>2
    <3> QED BY <1>2, <1>5, <3>1
  <2> QED BY <1>1, <1>2, <1>3, <2>1, <2>2 DEF AheadFrom, Most
<1> QED BY <1>4, <1>5

\* A swap that ends with a tape in the deck exchanged the two names: no side is lost, and
\* the new one waits at its start, for every pair of files.
THEOREM SidesExchanged == DeckSpec => SwapExchanges
<1>1. ASSUME DeckInv, Swap, tape' # Blank
      PROVE  /\ cur' = next /\ next' = cur
             /\ tape'.len > 0 => idx' = 0 /\ paused' /\ AheadFrom(0, 0, nextb)'
  <2>1. next \in Names /\ cur' = next
    BY <1>1 DEF Swap, DeckInv
  <2>2. PICK t \in Readable(next) : InsertPaused(t) /\ next' = cur
    BY <1>1 DEF Swap, LeaveEmpty, Insert, OtherSide
  <2>3. t \in Tapes /\ tape' = t
    BY <2>1, <2>2, ReadableFacts DEF InsertPaused, Insert
  <2> QED BY <2>1, <2>2, <2>3, WaitsAtStart
<1>2. DeckInv /\ [DeckNext]_deckVars => DeckInv'
  BY DeckInvStep
<1>3. DeckInv => (Swap /\ tape' # Blank =>
        /\ cur' = next /\ next' = cur
        /\ tape'.len > 0 => idx' = 0 /\ paused' /\ AheadFrom(0, 0, nextb)')
  BY <1>1
<1> QED BY <1>2, <1>3, DeckInvInit, PTL DEF DeckSpec, SwapExchanges

-----------------------------------------------------------------------------
(***************************************************************************)
(* What the player takes for polling, and the polling there was: the rate  *)
(* window against the history of TapePolls, for every tape and every       *)
(* pattern of reads, keys, swaps, drops and resets.                        *)
(***************************************************************************)

PollTypes ==
  /\ heard \in [Earlier -> 0 .. MaxAge] /\ lull \in 0 .. HotWindow
  /\ since \in 0 .. Far /\ rewound \in BOOLEAN

\* The reads counted in the window that runs were made since it began.
CountedInWindow == \A k \in Earlier : k <= winReads => heard[k] <= winAge

\* A count that will make the player hot was reached in the window that runs.
FullWindow == winReads >= HotReads =>
  /\ since <= HotWindow
  /\ winAge <= HotWindow => since + lull <= winAge

\* A hot player has its count from the window before, and a silence may lie between
\* and another behind.
HotHeard == hot =>
  /\ since <= 3 * HotWindow
  /\ winAge <= HotWindow => since + lull <= 2 * HotWindow + winAge

PollsInv == PollTypes /\ CountedInWindow /\ FullWindow /\ HotHeard

\* Two and three windows, whatever follows them.
LEMMA Windows ==
  ASSUME NEW w \in Nat
  PROVE  /\ 2 * w \in Nat /\ 3 * w \in Nat /\ 3 * w + 1 \in Nat
         /\ \A n \in Nat : n <= 2 * w => n <= 3 * w
         /\ \A n, m \in Nat : m <= w /\ n <= 2 * w + m => n <= 3 * w
OBVIOUS

LEMMA PollFacts ==
  ASSUME TypeOK, PollsInv, NEW d \in Gaps
  PROVE  /\ d \in Nat /\ HotWindow \in Nat /\ HotReads \in Nat /\ HotReads > 0
         /\ MaxAge \in Nat /\ MaxAge > HotWindow
         /\ winAge \in 0 .. MaxAge /\ winReads \in 0 .. HotReads /\ hot \in BOOLEAN
         /\ lull \in 0 .. HotWindow /\ since \in Nat /\ since <= 3 * HotWindow + 1
         /\ Silence(d) \in 0 .. HotWindow /\ Silence(d) <= lull + d
         /\ Aged(d) \in 0 .. MaxAge /\ Aged(d) >= winAge
         /\ Aged(d) <= HotWindow => Aged(d) = winAge + d
         /\ \A k \in Earlier : Older(d, k) \in 0 .. MaxAge /\ heard[k] \in 0 .. MaxAge
         /\ \A k \in Earlier : heard[k] <= winAge => Older(d, k) <= Aged(d)
<1>1. /\ d \in Nat /\ HotWindow \in Nat /\ HotReads \in Nat /\ HotReads > 0
      /\ MaxAge \in Nat /\ MaxAge > HotWindow
  BY BoundsAssumption, RateAssumption
<1>2. /\ winAge \in 0 .. MaxAge /\ winReads \in 0 .. HotReads /\ hot \in BOOLEAN
      /\ lull \in 0 .. HotWindow /\ since \in Nat /\ since <= 3 * HotWindow + 1
  BY <1>1 DEF TypeOK, PollsInv, PollTypes, Far
<1>3. \A k \in Earlier : heard[k] \in 0 .. MaxAge
  BY DEF PollsInv, PollTypes
<1>4. Silence(d) \in 0 .. HotWindow /\ Silence(d) <= lull + d
  BY <1>1, <1>2 DEF Silence, Least
<1>5. /\ Aged(d) \in 0 .. MaxAge /\ Aged(d) >= winAge
      /\ Aged(d) <= HotWindow => Aged(d) = winAge + d
  BY <1>1, <1>2 DEF Aged, Least
<1>6. \A k \in Earlier : /\ Older(d, k) \in 0 .. MaxAge
                         /\ heard[k] <= winAge => Older(d, k) <= Aged(d)
  BY <1>1, <1>2, <1>3 DEF Older, Aged, Least
<1> QED BY <1>1, <1>2, <1>3, <1>4, <1>5, <1>6

\* Of what a read remembers: the ages of the reads, whoever made the last one.
LEMMA HeardTyped ==
  ASSUME TypeOK, PollsInv, NEW d \in Gaps, NEW s \in BOOLEAN, Remember(d, s)
  PROVE  /\ heard' \in [Earlier -> 0 .. MaxAge]
         /\ \A k \in Earlier : heard'[k] = IF s THEN Older(d, k)
                                           ELSE IF k = 1 THEN 0 ELSE Older(d, k - 1)
<1> DEFINE age(k) == IF s THEN Older(d, k) ELSE IF k = 1 THEN 0 ELSE Older(d, k - 1)
<1>1. heard' = [k \in Earlier |-> age(k)]
  BY DEF Remember
<1>2. ASSUME NEW k \in Earlier PROVE age(k) \in 0 .. MaxAge
  <2>1. MaxAge \in Nat /\ HotReads \in Nat
    BY PollFacts
  <2>2. k = 1 \/ k - 1 \in Earlier
    BY <2>1 DEF Earlier
  <2> QED BY <2>1, <2>2, PollFacts
<1> HIDE DEF age
<1>3. heard' \in [Earlier -> 0 .. MaxAge] /\ \A k \in Earlier : heard'[k] = age(k)
  BY <1>1, <1>2
<1> QED BY <1>3 DEF age

\* A read that reaches the count is the last of HotReads of them within the window.
LEMMA CountIsHeard ==
  ASSUME TypeOK, PollsInv, NEW d \in Gaps, ~Rolled(d), winReads + 1 >= HotReads
  PROVE  \A k \in Earlier : Older(d, k) <= HotWindow
<1> TAKE k \in Earlier
<1>1. Aged(d) <= HotWindow
  BY PollFacts DEF Rolled
<1>2. k <= winReads
  BY PollFacts DEF Earlier
<1>3. heard[k] <= winAge
  BY <1>2 DEF PollsInv, CountedInWindow
<1>4. Older(d, k) <= Aged(d)
  BY <1>3, PollFacts
<1> QED BY <1>1, <1>4, PollFacts

\* A read keeps the windows and the history in step.
LEMMA ReadHeard ==
  ASSUME TypeOK, PollsInv, NEW d \in Gaps, NEW s \in BOOLEAN,
         PollRate(d, s), Remember(d, s), rewound' \in BOOLEAN
  PROVE  PollsInv'
<1> DEFINE sil == Silence(d)
           later == Least(since + sil, Far)
<1>1. /\ d \in Nat /\ HotWindow \in Nat /\ HotReads \in Nat /\ HotReads > 0
      /\ winAge \in Nat /\ winReads \in 0 .. HotReads
      /\ lull \in Nat /\ since \in Nat /\ since <= 3 * HotWindow + 1
      /\ sil \in 0 .. HotWindow /\ sil <= lull + d /\ Aged(d) \in Nat
      /\ Aged(d) <= HotWindow => Aged(d) = winAge + d /\ winAge <= HotWindow
  BY PollFacts
<1>2. /\ hot' = HotNow(d) /\ winReads' = CountRead(d, s)
      /\ winAge' = IF Rolled(d) THEN 0 ELSE Aged(d)
  BY DEF PollRate
<1>3. lull' = 0 /\ (since' = 0 \/ since' = later)
  BY DEF Remember
<1>4. /\ later \in Nat /\ later <= since + sil /\ later <= 3 * HotWindow + 1
      /\ FullWindow /\ HotHeard /\ CountedInWindow
  BY <1>1 DEF Least, Far, PollsInv
<1>5. Rolled(d) <=> Aged(d) > HotWindow
  BY DEF Rolled
<1> HIDE DEF sil, later
<1>6. PollTypes'
  <2>1. since' \in 0 .. Far /\ lull' \in 0 .. HotWindow
    BY <1>1, <1>3, <1>4 DEF Far
  <2> QED BY <2>1, HeardTyped DEF PollTypes
<1>7. CASE Rolled(d)
  <2>1. winAge' = 0 /\ winReads' = Least(IF s THEN 0 ELSE 1, HotReads)
    BY <1>2, <1>7 DEF CountRead
  <2>2. CountedInWindow'
    <3>1. ASSUME NEW k \in Earlier, k <= winReads' PROVE heard'[k] <= winAge'
      <4>1. k = 1 /\ ~s
        BY <1>1, <2>1, <3>1 DEF Earlier, Least
      <4>2. heard'[k] = 0
        BY <4>1, HeardTyped
      <4> QED BY <2>1, <4>2
    <3> QED BY <3>1 DEF CountedInWindow
  <2>3. FullWindow'
    <3>1. ASSUME winReads' >= HotReads PROVE since' = 0
      <4>1. ~s /\ Earlier = {}
        BY <1>1, <2>1, <3>1 DEF Earlier, Least
      <4> QED BY <4>1 DEF Remember
    <3> QED BY <1>1, <1>3, <2>1, <3>1 DEF FullWindow
  <2>4. ASSUME hot' PROVE since' <= 2 * HotWindow
    <3>1. since <= HotWindow
      BY <1>2, <1>4, <1>7, <2>4 DEF HotNow, FullWindow
    <3> QED BY <1>1, <1>3, <1>4, <3>1
  <2>5. since' \in Nat
    BY <1>3, <1>4
  <2>6. HotHeard'
    <3>1. ASSUME hot' PROVE since' <= 3 * HotWindow /\ since' + 0 <= 2 * HotWindow + 0
      <4> DEFINE w == HotWindow  two == 2 * w  three == 3 * w  n == since'
      <4>1. two \in Nat /\ three \in Nat /\ n \in Nat /\ n <= two /\ (n <= two => n <= three)
        BY <1>1, <2>4, <2>5, <3>1, Windows
      <4> HIDE DEF two, three, n
      <4>2. n <= three /\ n + 0 <= two + 0
        BY <4>1
      <4> QED BY <4>2 DEF two, three, n
    <3> QED BY <1>3, <2>1, <3>1 DEF HotHeard
  <2> QED BY <1>6, <2>2, <2>3, <2>6 DEF PollsInv
<1>8. CASE ~Rolled(d)
  <2>1. /\ winAge' = winAge + d /\ winAge' <= HotWindow /\ winAge <= HotWindow /\ hot' = hot
        /\ winReads' = Least(winReads + (IF s THEN 0 ELSE 1), HotReads)
    BY <1>1, <1>2, <1>5, <1>8 DEF CountRead, HotNow
  <2>2. CountedInWindow'
    <3>1. ASSUME NEW k \in Earlier, k <= winReads' PROVE heard'[k] <= winAge'
      <4>1. Aged(d) = winAge'
        BY <1>2, <1>8
      <4>2. CASE s
        <5>1. k <= winReads
          BY <1>1, <2>1, <3>1, <4>2 DEF Least
        <5>2. heard[k] <= winAge
          BY <1>4, <5>1 DEF CountedInWindow
        <5> QED BY <4>1, <4>2, <5>2, HeardTyped, PollFacts
      <4>3. CASE ~s /\ k = 1
        BY <1>1, <2>1, <4>3, HeardTyped
      <4>4. CASE ~s /\ k # 1
        <5>1. k - 1 \in Earlier /\ k - 1 <= winReads
          BY <1>1, <2>1, <3>1, <4>4 DEF Least, Earlier
        <5>2. heard[k - 1] <= winAge
          BY <1>4, <5>1 DEF CountedInWindow
        <5>3. Older(d, k - 1) <= Aged(d)
          BY <5>1, <5>2, PollFacts
        <5> QED BY <4>1, <4>4, <5>3, HeardTyped
      <4> QED BY <4>2, <4>3, <4>4
    <3> QED BY <3>1 DEF CountedInWindow
  <2>3. FullWindow'
    <3>1. ASSUME winReads' >= HotReads PROVE since' <= winAge'
      <4>1. CASE winReads >= HotReads
        <5>1. since + lull <= winAge
          BY <1>4, <2>1, <4>1 DEF FullWindow
        <5> QED BY <1>1, <1>3, <1>4, <2>1, <5>1
      <4>2. CASE ~(winReads >= HotReads)
        <5>1. ~s /\ winReads + 1 >= HotReads
          BY <1>1, <2>1, <3>1, <4>2 DEF Least
        <5>2. \A k \in Earlier : Older(d, k) <= HotWindow
          BY <1>8, <5>1, CountIsHeard
        <5>3. since' = 0
          BY <5>1, <5>2 DEF Remember
        <5> QED BY <1>1, <2>1, <5>3
      <4> QED BY <4>1, <4>2
    <3>2. since' \in Nat
      BY <1>3, <1>4
    <3>3. ASSUME winReads' >= HotReads PROVE since' <= HotWindow /\ since' + 0 <= winAge'
      <4> DEFINE n == since'  m == winAge'
      <4>1. n \in Nat /\ m \in Nat /\ n <= m /\ m <= HotWindow /\ HotWindow \in Nat
        BY <1>1, <2>1, <3>1, <3>2, <3>3
      <4> HIDE DEF n, m
      <4>2. n <= HotWindow /\ n + 0 <= m
        BY <4>1
      <4> QED BY <4>2 DEF n, m
    <3> QED BY <1>3, <3>3 DEF FullWindow
  <2>4. ASSUME hot' PROVE since' <= 2 * HotWindow + winAge'
    <3>1. since + lull <= 2 * HotWindow + winAge
      BY <1>4, <2>1, <2>4 DEF HotHeard
    <3> QED BY <1>1, <1>3, <1>4, <2>1, <3>1
  <2>5. since' \in Nat
    BY <1>3, <1>4
  <2>6. HotHeard'
    <3>1. ASSUME hot' PROVE since' <= 3 * HotWindow /\ since' + 0 <= 2 * HotWindow + winAge'
      <4> DEFINE w == HotWindow  two == 2 * w  three == 3 * w  n == since'  m == winAge'
      <4>1. m \in Nat /\ m <= w
        BY <1>1, <2>1
      <4>2. n \in Nat /\ n <= two + m
        BY <2>4, <2>5, <3>1
      <4>3. two \in Nat /\ three \in Nat /\ n <= three
        BY <1>1, <4>1, <4>2, Windows
      <4> HIDE DEF two, three, n, m
      <4>4. n <= three /\ n + 0 <= two + m
        BY <4>1, <4>2, <4>3
      <4> QED BY <4>4 DEF two, three, n, m
    <3> QED BY <1>3, <3>1 DEF HotHeard
  <2> QED BY <1>6, <2>2, <2>3, <2>6 DEF PollsInv
<1> QED BY <1>7, <1>8

\* The window and the silence grow by the same time, which a silence may cut short.
LEMMA GrowAlike ==
  ASSUME NEW w \in Nat, NEW n \in Nat, NEW l \in Nat, NEW a \in Nat, NEW e \in Nat,
         NEW sil \in Nat, NEW age \in Nat, NEW bound \in Nat,
         sil <= l + e, age <= w => age = a + e /\ a <= w, a <= w => n + l <= bound + a
  PROVE  age <= w => n + sil <= bound + age
OBVIOUS

\* Time that goes by without a read makes every read older.
LEMMA PassHeard ==
  ASSUME TypeOK, PollsInv, NEW d \in Gaps, Elapse(d), Pass(d), rewound' \in BOOLEAN
  PROVE  PollsInv'
<1>1. /\ d \in Nat /\ HotWindow \in Nat /\ winAge \in Nat /\ lull \in Nat /\ since \in Nat
      /\ Silence(d) \in 0 .. HotWindow /\ Silence(d) <= lull + d
      /\ Aged(d) \in Nat
      /\ Aged(d) <= HotWindow => Aged(d) = winAge + d /\ winAge <= HotWindow
  BY PollFacts
<1>2. /\ winAge' = Aged(d) /\ winReads' = winReads /\ hot' = hot
      /\ lull' = Silence(d) /\ since' = since /\ heard' = [k \in Earlier |-> Older(d, k)]
  BY DEF Elapse, Pass
<1>3. PollTypes'
  BY <1>1, <1>2, PollFacts DEF PollTypes, PollsInv
<1>4. CountedInWindow'
  BY <1>2, PollFacts DEF CountedInWindow, PollsInv
<1>5. Silence(d) \in Nat /\ winAge' = Aged(d) /\ lull' = Silence(d)
  <2>1. \A x \in 0 .. HotWindow : x \in Nat
    BY <1>1
  <2> QED BY <1>1, <1>2, <2>1, Zenon
<1>6. FullWindow'
  <2>1. ASSUME winReads >= HotReads
        PROVE  since <= HotWindow /\ (Aged(d) <= HotWindow => since + Silence(d) <= 0 + Aged(d))
    <3>1. since <= HotWindow /\ (winAge <= HotWindow => since + lull <= winAge)
      BY <2>1 DEF FullWindow, PollsInv
    <3>2. winAge <= HotWindow => since + lull <= 0 + winAge
      BY <1>1, <3>1
    <3>3. 0 \in Nat
      OBVIOUS
    <3> QED BY <1>1, <1>5, <3>1, <3>2, <3>3, GrowAlike, Zenon
  <2>2. Aged(d) \in Nat => 0 + Aged(d) = Aged(d)
    OBVIOUS
  <2> QED BY <1>1, <1>2, <1>5, <2>1, <2>2, Zenon DEF FullWindow
<1>7. HotHeard'
  <2>1. ASSUME hot
        PROVE  since <= 3 * HotWindow
               /\ (Aged(d) <= HotWindow => since + Silence(d) <= 2 * HotWindow + Aged(d))
    <3>1. since <= 3 * HotWindow /\ (winAge <= HotWindow => since + lull <= 2 * HotWindow + winAge)
      BY <2>1 DEF HotHeard, PollsInv
    <3> DEFINE two == 2 * HotWindow
    <3>2. two \in Nat
      BY <1>1, Windows
    <3>3. winAge <= HotWindow => since + lull <= two + winAge
      BY <3>1, Zenon
    <3> HIDE DEF two
    <3>4. Aged(d) <= HotWindow => since + Silence(d) <= two + Aged(d)
      BY <1>1, <1>5, <3>2, <3>3, GrowAlike, Zenon
    <3> QED BY <3>1, <3>4, Zenon DEF two
  <2> QED BY <1>2, <1>5, <2>1, Zenon DEF HotHeard
<1> QED BY <1>3, <1>4, <1>6, <1>7 DEF PollsInv

\* Where nothing was read the player has counted nothing.
LEMMA NothingHeard ==
  ASSUME winReads' = 0, hot' = FALSE, Forget
  PROVE  PollsInv'
<1>1. MaxAge \in Nat /\ HotWindow \in Nat /\ HotReads \in Nat \ {0}
  BY BoundsAssumption, RateAssumption
<1>2. /\ heard' = [k \in Earlier |-> MaxAge] /\ lull' = 0 /\ since' = 3 * HotWindow + 1
      /\ rewound' = FALSE
  BY DEF Forget, Far
<1>3. PollTypes'
  <2>1. heard' \in [Earlier -> 0 .. MaxAge]
    <3>1. MaxAge \in 0 .. MaxAge
      BY <1>1
    <3> QED BY <1>2, <3>1
  <2>2. lull' \in 0 .. HotWindow /\ since' \in 0 .. Far /\ rewound' \in BOOLEAN
    <3> DEFINE far == 3 * HotWindow + 1
    <3>1. far \in Nat
      BY <1>1, Windows
    <3>2. since' = far /\ Far = far /\ lull' = 0 /\ rewound' = FALSE
      BY <1>2 DEF Far
    <3>3. far \in 0 .. far /\ 0 \in 0 .. HotWindow
      <4> HIDE DEF far
      <4> QED BY <1>1, <3>1
    <3> HIDE DEF far
    <3> QED BY <3>2, <3>3, Zenon
  <2> QED BY <2>1, <2>2 DEF PollTypes
<1> QED BY <1>1, <1>2, <1>3 DEF PollsInv, CountedInWindow, FullWindow, HotHeard, Earlier

\* The history is one: what the deck does with it is what it does without.
LEMMA PolledIsDeck == [PolledNext]_pollVars => [DeckNext]_deckVars
BY DEF PolledNext, PolledPlayer, PolledRead, DeckNext, Player, pollVars

LEMMA PollsStep ==
  ASSUME TypeOK, PollsInv, [PolledNext]_pollVars
  PROVE  PollsInv'
<1>1. rewound \in BOOLEAN
  BY DEF PollsInv, PollTypes
<1>2. ASSUME UNCHANGED polls, UNCHANGED rate PROVE PollsInv'
  BY <1>2 DEF polls, rate, PollsInv, PollTypes, CountedInWindow, FullWindow, HotHeard
<1>3. CASE (Swap \/ (\E name \in Dropped : Drop(name)) \/ DeckReset) /\ Forget
  <2>1. winReads' = 0 /\ hot' = FALSE
    BY <1>3 DEF Swap, Drop, LoadDropped, LeaveEmpty, DeckReset, Reset, Insert, InsertPaused
  <2> QED BY <1>3, <2>1, NothingHeard
<1>4. CASE ScheduledStart /\ IF tape.len > 0 THEN Forget ELSE UNCHANGED polls
  <2>1. CASE tape.len > 0
    <3>1. winReads' = 0 /\ hot' = FALSE
      BY <1>4, <2>1 DEF ScheduledStart, PlayStart
    <3> QED BY <1>4, <2>1, <3>1, NothingHeard
  <2>2. CASE ~(tape.len > 0)
    BY <1>2, <1>4, <2>2 DEF ScheduledStart, vars
  <2> QED BY <2>1, <2>2
<1>5. CASE PolledPlayer
  <2>1. ASSUME NEW d \in Gaps, NEW s \in BOOLEAN, PolledRead(d, s) PROVE PollsInv'
    <3>1. rewound' \in BOOLEAN
      BY <2>1 DEF PolledRead
    <3> QED BY <2>1, <3>1, ReadHeard DEF PolledRead, EarRead
  <2>2. ASSUME NEW d \in Gaps, ToggleKey(d) \/ Wait(d) \/ RewindKey(d), Pass(d), rewound' \in BOOLEAN
        PROVE  PollsInv'
    <3>1. Elapse(d)
      BY <2>2 DEF ToggleKey, Wait, RewindKey
    <3> QED BY <2>2, <3>1, PassHeard
  <2> QED BY <1>1, <1>5, <2>1, <2>2 DEF PolledPlayer
<1>6. CASE UNCHANGED pollVars
  BY <1>2, <1>6 DEF pollVars, deckVars, vars
<1> QED BY <1>3, <1>4, <1>5, <1>6 DEF PolledNext

-----------------------------------------------------------------------------
\* Every boundary the player no longer looks for is under or behind the head, but for the
\* first one of a tape wound back.
NoneSkipped ==
  playing => \A c \in 0 .. tape.nb - 1 : c < nextb => tape.bound[c] <= idx \/ Unlooked(c)

\* Looking for the next boundary beyond j skips none that lies beyond j.
LEMMA AheadSkipsNone ==
  ASSUME Inv, NEW from \in Nat, NEW j \in Nat, NEW b, AheadFrom(from, j, b)
  PROVE  \A c \in 0 .. tape.nb - 1 : c < b => tape.bound[c] <= j \/ c < from
<1> TAKE c \in 0 .. tape.nb - 1
<1> HAVE c < b
<1>1. tape.nb \in Nat /\ b \in Nat
  BY TapeFacts, AheadFacts DEF Inv, TypeOK
<1>2. CASE c >= from
  <2>1. c \in from .. b - 1
    BY <1>1, <1>2
  <2> QED BY <2>1 DEF AheadFrom
<1> QED BY <1>1, <1>2

\* A catch-up leaves behind only boundaries it has met, or winds the tape back.
LEMMA ReadSkipsNone ==
  ASSUME Inv, NoneSkipped, rewound \in BOOLEAN, NEW d \in Gaps, NEW s \in BOOLEAN, PolledRead(d, s)
  PROVE  NoneSkipped'
<1>1. /\ tape \in Tapes /\ tape.nb \in Nat /\ tape.len \in Nat /\ idx \in Nat /\ nextb \in Nat
      /\ tape.bound \in [0 .. tape.nb - 1 -> 0 .. tape.len]
  BY TapeFacts DEF Inv, TypeOK
<1>2. playing /\ tape' = tape /\ (rewound => rewound') /\ (WindsBack => rewound')
  BY DEF PolledRead, EarRead
<1>3. CASE paused
  <2>1. Resume(d)
    BY <1>3 DEF PolledRead, EarRead
  <2> QED BY <1>2, <2>1 DEF Resume, NoneSkipped, Unlooked
<1>4. CASE ~paused
  <2>1. PICK j \in idx .. tape.len :
          LandsOn(d, j) /\ IF j = tape.len THEN EndOfTape(d) /\ due' = 0 ELSE Land(d, j)
    BY <1>4 DEF PolledRead, EarRead, CatchUp
  <2>2. CASE j # tape.len
    <3>1. idx' = j /\ NextBoundary(nextb, j) /\ j \in Nat /\ idx <= j
      BY <1>1, <2>1, <2>2 DEF Land
    <3>2. PICK b \in nextb .. Most(nextb, tape.nb) : AheadFrom(nextb, j, b) /\ nextb' = b
      BY <3>1 DEF NextBoundary
    <3>3. \A c \in 0 .. tape.nb - 1 : c < b => tape.bound[c] <= j \/ c < nextb
      BY <1>1, <3>1, <3>2, AheadSkipsNone
    <3>4. \A c \in 0 .. tape.nb - 1 : tape.bound[c] \in Nat
      BY <1>1
    <3>5. \A c \in 0 .. tape.nb - 1 : c < nextb => tape.bound[c] <= j \/ Unlooked(c)
      BY <1>1, <1>2, <3>1, <3>4 DEF NoneSkipped
    <3>6. \A c : Unlooked(c) => Unlooked(c)'
      BY <1>2 DEF Unlooked
    <3> QED BY <1>2, <3>1, <3>2, <3>3, <3>5, <3>6 DEF NoneSkipped, Unlooked
  <2>3. CASE j = tape.len /\ HotNow(d)
    <3>1. idx' = 0 /\ nextb' = 1 /\ paused' = TRUE
      BY <2>1, <2>3 DEF EndOfTape, Rewind
    <3>2. rewound'
      BY <1>2, <1>4, <3>1 DEF WindsBack
    <3> QED BY <1>1, <1>2, <3>1, <3>2 DEF NoneSkipped, Unlooked
  <2>4. CASE j = tape.len /\ ~HotNow(d)
    <3>1. playing' = FALSE
      BY <2>1, <2>4 DEF EndOfTape
    <3> QED BY <3>1 DEF NoneSkipped
  <2> QED BY <2>2, <2>3, <2>4
<1> QED BY <1>3, <1>4

LEMMA StepSkipsNone ==
  ASSUME Inv, DeckInv, NoneSkipped, rewound \in BOOLEAN, [PolledNext]_pollVars
  PROVE  NoneSkipped'
<1>1. tape \in Tapes /\ tape.nb \in Nat
  BY TapeFacts DEF Inv, TypeOK
<1>2. ASSUME idx' = idx, nextb' = nextb, tape' = tape, playing' = playing, rewound' = rewound
      PROVE  NoneSkipped'
  BY <1>2 DEF NoneSkipped, Unlooked
<1>3. ASSUME NEW t \in Tapes, Insert(t) \/ InsertPaused(t) PROVE NoneSkipped'
  <2>1. CASE t.len = 0 \/ Insert(t)
    <3>1. playing' = FALSE
      BY <1>3, <2>1 DEF Insert, InsertPaused
    <3> QED BY <3>1 DEF NoneSkipped
  <2>2. CASE t.len # 0 /\ InsertPaused(t)
    <3>1. tape' = t /\ idx' = 0 /\ nextb' = IF t.nb > 0 /\ t.bound[0] = 0 THEN 1 ELSE 0
      BY <2>2 DEF InsertPaused
    <3>2. t.nb \in Nat
      BY TapeFacts
    <3> QED BY <3>1, <3>2 DEF NoneSkipped
  <2> QED BY <1>3, <2>1, <2>2
<1>4. CASE Swap
  <2>1. CASE LeaveEmpty
    BY <1>3, <2>1, TapesAssumption DEF LeaveEmpty
  <2>2. CASE \E t \in Readable(next) : InsertPaused(t)
    <3>1. next \in Names
      BY <1>4 DEF Swap, DeckInv
    <3> QED BY <1>3, <2>2, <3>1, ReadableFacts
  <2> QED BY <1>4, <2>1, <2>2 DEF Swap
<1>5. ASSUME NEW name \in Dropped, Drop(name) PROVE NoneSkipped'
  BY <1>5 DEF Drop, LoadDropped, LeaveEmpty, Insert, NoneSkipped
<1>6. CASE DeckReset
  BY <1>6 DEF DeckReset, Reset, NoneSkipped
<1>7. CASE ScheduledStart /\ IF tape.len > 0 THEN Forget ELSE UNCHANGED polls
  <2>1. CASE tape.len > 0
    <3>1. idx' = 0 /\ tape' = tape /\ NextBoundary(0, 0)
      BY <1>7, <2>1 DEF ScheduledStart, PlayStart
    <3>2. PICK b \in 0 .. Most(0, tape.nb) : AheadFrom(0, 0, b) /\ nextb' = b
      BY <3>1 DEF NextBoundary
    <3>3. \A c \in 0 .. tape.nb - 1 : c < b => tape.bound[c] <= 0 \/ c < 0
      BY <3>2, AheadSkipsNone
    <3> QED BY <1>1, <3>1, <3>2, <3>3 DEF NoneSkipped
  <2>2. CASE ~(tape.len > 0)
    BY <1>2, <1>7, <2>2 DEF ScheduledStart, vars, polls
  <2> QED BY <2>1, <2>2
<1>8. CASE PolledPlayer
  <2>1. ASSUME NEW d \in Gaps, NEW s \in BOOLEAN, PolledRead(d, s) PROVE NoneSkipped'
    BY <2>1, ReadSkipsNone
  <2>2. ASSUME NEW d \in Gaps, ToggleKey(d) \/ Wait(d), UNCHANGED rewound PROVE NoneSkipped'
    BY <1>2, <2>2 DEF ToggleKey, Wait
  <2>3. ASSUME NEW d \in Gaps, RewindKey(d), rewound' = TRUE PROVE NoneSkipped'
    <3>1. tape' = tape /\ nextb' = 1
      BY <2>3 DEF RewindKey
    <3> QED BY <1>1, <2>3, <3>1 DEF NoneSkipped, Unlooked
  <2> QED BY <1>8, <2>1, <2>2, <2>3 DEF PolledPlayer
<1>9. CASE UNCHANGED pollVars
  BY <1>2, <1>9 DEF pollVars, deckVars, vars, polls
<1> QED BY <1>4, <1>5, <1>6, <1>7, <1>8, <1>9 DEF PolledNext

\* All that is known of a deck that is polled.
PolledInv == Inv /\ DeckInv /\ PollsInv /\ NoneSkipped

\* So what the player takes for polling was polling.
LEMMA HotIsPolled == ASSUME PolledInv', hot' PROVE Polled'
BY DEF PolledInv, PollsInv, HotHeard, Polled

LEMMA PolledStepInv == PolledInv /\ [PolledNext]_pollVars => PolledInv'
<1> SUFFICES ASSUME PolledInv, [PolledNext]_pollVars PROVE PolledInv'
  OBVIOUS
<1>1. [DeckNext]_deckVars
  BY PolledIsDeck
<1>2. Inv'
  BY <1>1, DeckStep, StepInv DEF PolledInv
<1>3. DeckInv'
  BY <1>1, DeckInvStep DEF PolledInv
<1>4. PollsInv'
  BY PollsStep DEF PolledInv, Inv
<1>5. NoneSkipped'
  BY StepSkipsNone DEF PolledInv, PollsInv, PollTypes
<1> QED BY <1>2, <1>3, <1>4, <1>5 DEF PolledInv

LEMMA PolledInvHolds == PolledSpec => []PolledInv
<1>1. PolledInit => PolledInv
  <2> SUFFICES ASSUME PolledInit PROVE PolledInv
    OBVIOUS
  <2>1. DeckInit /\ Init /\ winReads = 0 /\ hot = FALSE /\ playing = FALSE
    BY DEF PolledInit, DeckInit, Init
  <2>2. MaxAge \in Nat /\ HotWindow \in Nat /\ HotReads \in Nat \ {0}
    BY BoundsAssumption, RateAssumption
  <2>3. /\ heard = [k \in Earlier |-> MaxAge] /\ lull = 0 /\ since = 3 * HotWindow + 1
        /\ rewound = FALSE
    BY DEF PolledInit, Far
  <2>4. PollTypes
    <3>1. heard \in [Earlier -> 0 .. MaxAge]
      <4>1. MaxAge \in 0 .. MaxAge
        BY <2>2
      <4> QED BY <2>3, <4>1
    <3>2. lull \in 0 .. HotWindow /\ since \in 0 .. Far /\ rewound \in BOOLEAN
      <4> DEFINE far == 3 * HotWindow + 1
      <4>1. far \in Nat
        BY <2>2, Windows
      <4>2. since = far /\ Far = far /\ lull = 0 /\ rewound = FALSE
        BY <2>3 DEF Far
      <4>3. far \in 0 .. far /\ 0 \in 0 .. HotWindow
        <5> HIDE DEF far
        <5> QED BY <2>2, <4>1
      <4> HIDE DEF far
      <4> QED BY <4>2, <4>3, Zenon
    <3> QED BY <3>1, <3>2 DEF PollTypes
  <2>5. PollsInv
    BY <2>1, <2>2, <2>3, <2>4 DEF PollsInv, CountedInWindow, FullWindow, HotHeard, Earlier
  <2>6. NoneSkipped
    BY <2>1 DEF NoneSkipped
  <2> QED BY <2>1, <2>5, <2>6, InitInv, DeckInvInit DEF PolledInv
<1>2. PolledInv /\ [PolledNext]_pollVars => PolledInv'
  BY PolledStepInv
<1> QED BY <1>1, <1>2, PTL DEF PolledSpec

\* No step but a catch-up under polling passes a boundary it looks for.
LEMMA StepHeard ==
  ASSUME PolledInv, [PolledNext]_pollVars, NEW b \in 0 .. tape.nb - 1, Passes(b), ~Unlooked(b)
  PROVE  Polled' /\ b \notin tape.stop
<1>1. /\ tape.nb \in Nat /\ tape.len \in Nat /\ idx \in Nat /\ nextb \in Nat
      /\ tape.bound[b] \in Nat
  BY TapeFacts DEF PolledInv, Inv, TypeOK
<1>2. /\ playing /\ tape' = tape /\ tape.bound[b] < tape.len /\ idx < tape.bound[b]
      /\ tape.bound[b] < idx' \/ (tape.bound[b] = idx' /\ Running')
  BY DEF Passes
<1>3. b \in Nat /\ b >= nextb
  BY <1>1, <1>2 DEF PolledInv, NoneSkipped
<1>4. idx' # idx /\ idx' # 0
  BY <1>1, <1>2
<1>5. PICK d \in Gaps, s \in BOOLEAN : PolledRead(d, s)
  <2>1. ~Swap /\ ~DeckReset /\ ~ScheduledStart /\ \A name \in Dropped : ~Drop(name)
    BY <1>4 DEF Swap, Drop, LoadDropped, LeaveEmpty, DeckReset, Reset, Insert, InsertPaused,
                ScheduledStart, PlayStart, vars
  <2>2. PolledPlayer
    BY <1>4, <2>1 DEF PolledNext, pollVars, deckVars, vars
  <2> QED BY <1>4, <2>2 DEF PolledPlayer, ToggleKey, Wait, RewindKey, Rewind
<1>6. EarRead(d, s) /\ ~paused
  BY <1>4, <1>5 DEF PolledRead, EarRead, Resume
<1>7. hot' = HotNow(d)
  BY <1>6 DEF EarRead, PollRate
<1>8. PICK j \in idx .. tape.len :
        LandsOn(d, j) /\ IF j = tape.len THEN EndOfTape(d) /\ due' = 0 ELSE Land(d, j)
  BY <1>6 DEF EarRead, CatchUp
<1>9. idx' = j
  BY <1>4, <1>8 DEF EndOfTape, Rewind, Land
<1>10. ~StopsAt(d, tape.bound[b])
  <2>1. CASE tape.bound[b] < j
    <3>1. tape.bound[b] \in idx + 1 .. j - 1
      BY <1>1, <1>2, <2>1
    <3> QED BY <1>8, <3>1 DEF LandsOn
  <2>2. CASE tape.bound[b] = j /\ Running'
    <3>1. j # tape.len /\ j > idx
      BY <1>1, <1>2, <2>2
    <3>2. Land(d, j) /\ ~paused'
      BY <1>8, <2>2, <3>1 DEF Running
    <3> QED BY <2>2, <3>1, <3>2 DEF Land
  <2> QED BY <1>2, <1>9, <2>1, <2>2
<1>11. b \in Met(tape.bound[b])
  BY <1>3 DEF Met
<1>12. b \notin tape.stop /\ HotNow(d)
  BY <1>10, <1>11 DEF StopsAt
<1>13. hot' => Polled'
  BY PolledStepInv, HotIsPolled
<1> QED BY <1>7, <1>12, <1>13

\* The head passes no boundary but under the polling of a loader, and no stop marker at
\* all, whatever the tape: only a tape wound back runs over its first boundary unlooked.
THEOREM BoundariesHeard == PolledSpec => BoundaryHeard
<1>1. PolledInv /\ [PolledNext]_pollVars => PassesHeard
  BY StepHeard DEF PassesHeard
<1> QED BY <1>1, PolledInvHolds, PTL DEF PolledSpec, BoundaryHeard

\* A read sets a waiting tape rolling only where a loader polls, whatever was counted in
\* the windows before: no number of keyboard scans does.
THEOREM ResumedByLoader == PolledSpec => KeyWaitHolds
<1>1. ASSUME PolledInv, [PolledNext]_pollVars, NEW d \in Gaps, NEW s \in BOOLEAN,
             EarRead(d, s), paused, ~paused'
      PROVE  Polled'
  <2>1. hot'
    BY <1>1 DEF EarRead, Resume, PollRate
  <2> QED BY <1>1, <2>1, PolledStepInv, HotIsPolled
<1>2. PolledInv /\ [PolledNext]_pollVars => RollsForLoader
  BY <1>1 DEF RollsForLoader
<1> QED BY <1>2, PolledInvHolds, PTL DEF PolledSpec, KeyWaitHolds
=============================================================================
