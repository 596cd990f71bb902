----------------------------- MODULE TapeTraps ------------------------------
(***************************************************************************)
(* The instant loader and saver of tape.c: the ROM's LD-BYTES and SA-BYTES *)
(* are replaced by a copy between memory and the blocks of a tape.  A byte *)
(* has BITS bits and an address or a length twice as many.  The tape that  *)
(* is loaded is the one that an earlier run of the emulator saved.         *)
(***************************************************************************)
EXTENDS Integers, Sequences, SequencesExt

CONSTANTS
  BITS,       \* 8
  RomTop,     \* the addresses below it are ROM: writes are ignored
  Registers   \* what A, IX, DE hold when the ROM is called

VARIABLES
  mem,          \* 64K as the CPU sees it
  af, ix, de,   \* A, the registers of a call
  carry,        \* the carry flag: success
  file,         \* the bytes of the --save-tape file
  blocks, pos,  \* the blocks of the tape, and how many were taken
  attached,     \* a tape is in and it is not --real-tape
  saving,       \* --save-tape
  saved,        \* history: what was saved to the file, [flag, bytes]
  taped         \* history: the same of the tape that is in

regs == <<af, ix, de, carry>>
tapes == <<file, blocks, pos, attached, saving, saved, taped>>

Power[i \in 0 .. BITS] == IF i = 0 THEN 1 ELSE 2 * Power[i - 1]    \* 2 ^ i
BASE == Power[BITS]
SIZE == BASE * BASE
Byte == 0 .. BASE - 1
Address == 0 .. SIZE - 1

ASSUME TrapAssumption ==
  /\ BITS \in Nat \ {0} /\ RomTop \in Address
  /\ \A r \in Registers : r.a \in Byte /\ r.ix \in Address /\ r.de \in Address

Word(lo, hi) == lo + BASE * hi
Wrapped(a) == a % SIZE

\* The parity byte of a block: XOR of the flag and the data, bit by bit.
Bit(v, i) == (v \div Power[i]) % 2
Xor(v, w) ==
  LET x[i \in 0 .. BITS] ==
        IF i = 0 THEN 0 ELSE x[i - 1] + Power[i - 1] * ((Bit(v, i - 1) + Bit(w, i - 1)) % 2)
  IN x[BITS]
Parity(flag, bytes) ==
  LET x[k \in 0 .. Len(bytes)] == IF k = 0 THEN flag ELSE Xor(x[k - 1], bytes[k]) IN x[Len(bytes)]

\* mem_read and mem_write of a run of bytes.
MemoryAt(a, n) == [i \in 1 .. n |-> mem[Wrapped(a + i - 1)]]
Stored(a, bytes) ==
  [c \in Address |->
     IF c >= RomTop /\ Wrapped(c - a) < Len(bytes) THEN bytes[Wrapped(c - a) + 1] ELSE mem[c]]

----------------------------------------------------------------------------
(* tape_load of a .tap file: blocks of a length and so many bytes; what is *)
(* cut short ends it.                                                      *)

ParsedFrom(bytes) ==
  LET len(o) == Word(bytes[o], bytes[o + 1])
      whole(o) == o + 1 <= Len(bytes) /\ o + 1 + len(o) <= Len(bytes)
      read[k \in 0 .. Len(bytes)] ==
        IF k = 0 THEN [at |-> 1, blocks |-> <<>>]
        ELSE LET r == read[k - 1]
             IN IF ~whole(r.at) THEN r
                ELSE [at |-> r.at + 2 + len(r.at),
                      blocks |-> Append(r.blocks, SubSeq(bytes, r.at + 2, r.at + 1 + len(r.at)))]
  IN read[Len(bytes)].blocks

----------------------------------------------------------------------------
(* tape_save_trap *)

\* The length field has 16 bits, whatever is written after it.
BlockOf(flag, bytes) ==
  LET n == Len(bytes) + 2
  IN <<n % BASE, (n \div BASE) % BASE, flag>> \o bytes \o <<Parity(flag, bytes)>>

SaveTrap(opened) ==
  /\ UNCHANGED <<mem, af, blocks, pos, attached, saving, taped>>
  /\ carry' = opened
  /\ IF opened
     THEN LET bytes == MemoryAt(ix, de)
          IN /\ file' = file \o BlockOf(af, bytes)
             /\ saved' = Append(saved, [flag |-> af, bytes |-> bytes])
             /\ ix' = Wrapped(ix + de) /\ de' = 0
     ELSE UNCHANGED <<file, saved, ix, de>>

\* The bus traffic of it, and of trap_ret.
SaveReads == [i \in 1 .. de |-> [kind |-> "r", addr |-> Wrapped(ix + i - 1)]]
RetReads(sp) == <<[kind |-> "r", addr |-> sp], [kind |-> "r", addr |-> Wrapped(sp + 1)]>>

----------------------------------------------------------------------------
(* tape_trap *)

Failed == carry' = FALSE /\ UNCHANGED <<mem, af, ix, de>>

\* The bytes of a block, without its flag and its parity byte, that there is room for.
Avail_WithParity(b) == IF Len(b) >= 1 THEN Len(b) - 1 ELSE 0
Avail(b) == IF Len(b) >= 2 THEN Len(b) - 2 ELSE 0
Taken(b) == IF de < Avail(b) THEN de ELSE Avail(b)
Matches(b) == b # <<>> /\ b[1] = af

Copy(b) ==
  /\ mem' = Stored(ix, SubSeq(b, 2, Taken(b) + 1))
  /\ ix' = Wrapped(ix + Taken(b)) /\ de' = de - Taken(b)
  /\ carry' = (Taken(b) = de)
  /\ af' = 0

LoadTrap ==
  /\ UNCHANGED <<file, blocks, attached, saving, saved, taped>>
  /\ IF pos >= Len(blocks)
     THEN Failed /\ UNCHANGED pos
     ELSE LET b == blocks[pos + 1]
          IN /\ pos' = pos + 1
             /\ \/ Matches(b) /\ Copy(b)
                \/ ~Matches(b) /\ Failed

LoadWrites ==
  IF pos < Len(blocks) /\ Matches(blocks[pos + 1])
  THEN [i \in 1 .. Taken(blocks[pos + 1]) |-> [kind |-> "w", addr |-> Wrapped(ix + i - 1)]]
  ELSE <<>>
=============================================================================
