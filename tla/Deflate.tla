------------------------------ MODULE Deflate -------------------------------
(***************************************************************************)
(* The format that inflate.c reads, as the zlib files it is given are      *)
(* written: a prefix code from its code lengths, the bits of a block, and  *)
(* the text a sequence of blocks stands for.  It is defined without        *)
(* reference to how it is decoded.                                         *)
(*                                                                         *)
(* A block is stored bytes, tokens in the fixed code or tokens in a code   *)
(* of its own; a token is a byte, or a length and a distance with their    *)
(* extra bits.  The sizes of the format are parameters.                    *)
(***************************************************************************)
EXTENDS Integers, Sequences, FiniteSetsExt, SequencesExt

CONSTANTS
  OCTET,                 \* bits of a byte
  MAXLBITS,              \* the longest code; the code lengths' own symbols go on from there
  LengthTable,           \* lbase and lext
  DistTable,             \* dbase and dext
  FixedLit, FixedDist,   \* the lengths of the fixed codes
  Order,                 \* the order of the code lengths' lengths
  Field,                 \* the bits of a dynamic block's fields: lit, dist, code, len
  MinCode,               \* 4
  MaxLit, MaxDist,       \* 286 and 30
  Runs                   \* base and ext of the symbols copy, zeros and more zeros

\* The number of words of n bits, and the sum of a sequence.
Pow(n) == LET pow[k \in 0 .. n] == IF k = 0 THEN 1 ELSE 2 * pow[k - 1] IN pow[n]
Sums(f) == LET sum[k \in 0 .. Len(f)] == IF k = 0 THEN 0 ELSE sum[k - 1] + f[k] IN sum
SumOf(f) == Sums(f)[Len(f)]

LITS == Pow(OCTET)
END == LITS              \* the end-of-block symbol
COPY == MAXLBITS + 1

\* Lengths are a sequence; symbol s has length lens[s + 1], 0 when it is not used.
Used(lens) == {s \in 0 .. Len(lens) - 1 : lens[s + 1] # 0}
Weight(lens) == SumOf([i \in 1 .. Len(lens) |-> IF lens[i] = 0 THEN 0 ELSE Pow(MAXLBITS - lens[i])])
IsCode(lens) == Used(lens) # {} /\ Weight(lens) <= Pow(MAXLBITS)

\* Shorter codes come first, and equally long ones in the order of their symbols.
Before(lens, s) ==
  {t \in Used(lens) : lens[t + 1] < lens[s + 1] \/ (lens[t + 1] = lens[s + 1] /\ t < s)}
Number(lens, s) ==
  SumOf([i \in 1 .. Len(lens) |-> IF i - 1 \in Before(lens, s) THEN Pow(lens[s + 1] - lens[i]) ELSE 0])

Low(v, n) == [i \in 1 .. n |-> (v \div Pow(i - 1)) % 2]
Coded(lens, s) == s \in Used(lens)
\* A symbol without a code is written as bits that begin none, where the code leaves some.
Spare(lens, s) == Coded(lens, s) \/ Weight(lens) < Pow(MAXLBITS)
Code(lens, s) ==
  IF Coded(lens, s) THEN Reverse(Low(Number(lens, s), lens[s + 1])) ELSE [i \in 1 .. MAXLBITS |-> 1]

Row == [base : Nat, ext : Nat]
ASSUME FormatAssumption ==
  /\ OCTET \in Nat \ {0} /\ MAXLBITS \in Nat \ {0}
  /\ LengthTable \in Seq(Row) /\ DistTable \in Seq([base : Nat \ {0}, ext : Nat])
  /\ FixedLit \in Seq(0 .. MAXLBITS) /\ IsCode(FixedLit) /\ Coded(FixedLit, END)
  /\ FixedDist \in Seq(0 .. MAXLBITS) /\ IsCode(FixedDist)
  /\ Runs \in Seq([base : Nat \ {0}, ext : Nat]) /\ Len(Runs) > 0
  /\ Order \in Seq(Nat) /\ Len(Order) = MAXLBITS + 1 + Len(Runs)
  /\ \A k \in 1 .. Len(Order) : Order[k] < Len(Order)
  /\ \A s \in 0 .. Len(Order) - 1 : \E k \in 1 .. Len(Order) : \A j \in 1 .. Len(Order) : Order[j] = s <=> j = k
  /\ Field \in [lit : Nat, dist : Nat, code : Nat, len : Nat]
  /\ MinCode \in Nat /\ MinCode + Pow(Field.code) - 1 <= Len(Order) /\ Pow(Field.len) - 1 <= MAXLBITS
  /\ MaxLit \in Nat /\ MaxDist \in Nat

----------------------------------------------------------------------------
\* A token: [lit] or [len, lx, dist, dx].
TokenBits(lit, dist, t) ==
  CASE t.kind = "lit" -> Code(lit, t.lit)
    [] t.kind = "match" ->
         Code(lit, END + 1 + t.len) \o (IF t.len < Len(LengthTable)
            THEN Low(t.lx, LengthTable[t.len + 1].ext) \o Code(dist, t.dist) \o (IF Coded(dist, t.dist) THEN Low(t.dx, DistTable[t.dist + 1].ext) ELSE <<>>)
            ELSE <<>>)

TokensBits(lit, dist, ts) == FlattenSeq([k \in 1 .. Len(ts) |-> TokenBits(lit, dist, ts[k])]) \o Code(lit, END)

\* The lengths that a list of [s, x] stands for: a length, or a run of the last one or of zeros.
Run(list, k) == Runs[list[k].s - MAXLBITS].base + list[k].x
LengthsUpTo(list) ==
  LET upTo[k \in 0 .. Len(list)] ==
        IF k = 0 THEN <<>>
        ELSE LET l == upTo[k - 1] IN
             CASE list[k].s <= MAXLBITS -> Append(l, list[k].s)
               [] list[k].s = COPY -> l \o [i \in 1 .. Run(list, k) |-> IF l = <<>> THEN 0 ELSE l[Len(l)]]
               [] OTHER -> l \o [i \in 1 .. Run(list, k) |-> 0]
  IN upTo
Lengths(list) == LengthsUpTo(list)[Len(list)]
LitOf(b) == SubSeq(Lengths(b.list), 1, b.nlit)
DistOf(b) == SubSeq(Lengths(b.list), b.nlit + 1, b.nlit + b.ndist)

DynamicBits(b) ==
  Low(b.nlit - (END + 1), Field.lit) \o Low(b.ndist - 1, Field.dist) \o Low(b.ncode - MinCode, Field.code)
  \o FlattenSeq([k \in 1 .. b.ncode |-> Low(b.clens[Order[k] + 1], Field.len)])
  \o FlattenSeq([k \in 1 .. Len(b.list) |->
              Code(b.clens, b.list[k].s)
              \o (IF b.list[k].s > MAXLBITS THEN Low(b.list[k].x, Runs[b.list[k].s - MAXLBITS].ext) ELSE <<>>)])
  \o (IF Used(LitOf(b)) # {} /\ LitOf(b)[END + 1] # 0 THEN TokensBits(LitOf(b), DistOf(b), b.tokens) ELSE <<>>)

Padding(n) == [i \in 1 .. (OCTET - (n % OCTET)) % OCTET |-> 0]

\* The bits of a block that follows so many bits.
BlockBits(b, final, n) ==
  <<IF final THEN 1 ELSE 0>> \o Low(b.type, 2) \o
  CASE b.type = 0 ->
         Padding(n + 3) \o Low(Len(b.bytes), 2 * OCTET)
         \o Low(IF b.check THEN Pow(2 * OCTET) - 1 - Len(b.bytes) ELSE Len(b.bytes), 2 * OCTET)
         \o FlattenSeq([k \in 1 .. Len(b.bytes) |-> Low(b.bytes[k], OCTET)])
    [] b.type = 1 -> TokensBits(FixedLit, FixedDist, b.tokens)
    [] b.type = 2 -> DynamicBits(b)
    [] b.type = 3 -> <<>>

BitsUpTo(bs) ==
  LET upTo[k \in 0 .. Len(bs)] ==
        IF k = 0 THEN <<>> ELSE upTo[k - 1] \o BlockBits(bs[k], k = Len(bs), Len(upTo[k - 1]))
  IN upTo
StreamBits(bs) == BitsUpTo(bs)[Len(bs)]

Encoded(bs) ==
  LET all == StreamBits(bs) \o Padding(Len(StreamBits(bs)))
  IN [k \in 1 .. Len(all) \div OCTET |-> [i \in 1 .. OCTET |-> all[(k - 1) * OCTET + i]]]

----------------------------------------------------------------------------
(* What a stream means: [ok, text].  A match repeats what is so far behind, *)
(* also when it reaches into what it is writing itself.                    *)

Bad == [ok |-> FALSE, text |-> <<>>]

TokenMeans(lit, dist, t, text) ==
  CASE t.kind = "lit" /\ Coded(lit, t.lit) -> [ok |-> TRUE, text |-> Append(text, t.lit)]
    [] t.kind = "match" /\ Coded(lit, END + 1 + t.len) /\ Coded(dist, t.dist) /\ t.len < Len(LengthTable) ->
         LET n == LengthTable[t.len + 1].base + t.lx
             d == DistTable[t.dist + 1].base + t.dx
         IN IF d > Len(text) THEN Bad
            ELSE [ok |-> TRUE, text |-> text \o [i \in 1 .. n |-> text[Len(text) - d + 1 + ((i - 1) % d)]]]
    [] OTHER -> Bad

TokensMean(ts, lit, dist, text) ==
  LET after[k \in 0 .. Len(ts)] ==
        IF k = 0 THEN [ok |-> TRUE, text |-> text]
        ELSE IF after[k - 1].ok THEN TokenMeans(lit, dist, ts[k], after[k - 1].text) ELSE Bad
  IN after

DynamicOk(b) ==
  /\ b.nlit <= MaxLit /\ b.ndist <= MaxDist
  /\ IsCode(b.clens)
  /\ b.list[1].s # COPY /\ \A k \in 1 .. Len(b.list) : Coded(b.clens, b.list[k].s)
  /\ Len(Lengths(b.list)) = b.nlit + b.ndist
  /\ IsCode(LitOf(b)) /\ Coded(LitOf(b), END)
  /\ IsCode(DistOf(b)) \/ b.ndist = 1

BlockMeans(b, text) ==
  CASE b.type = 0 -> IF b.check THEN [ok |-> TRUE, text |-> text \o b.bytes] ELSE Bad
    [] b.type = 1 -> TokensMean(b.tokens, FixedLit, FixedDist, text)[Len(b.tokens)]
    [] b.type = 2 -> IF DynamicOk(b) THEN TokensMean(b.tokens, LitOf(b), DistOf(b), text)[Len(b.tokens)] ELSE Bad
    [] b.type = 3 -> Bad

BlocksMean(bs) ==
  LET after[k \in 0 .. Len(bs)] ==
        IF k = 0 THEN [ok |-> TRUE, text |-> <<>>]
        ELSE IF after[k - 1].ok THEN BlockMeans(bs[k], after[k - 1].text) ELSE Bad
  IN after
StreamMeans(bs) == BlocksMean(bs)[Len(bs)]

----------------------------------------------------------------------------
(* What a writer may put into a stream: every field holds what is written  *)
(* to it, and the list of lengths ends where the two tables are full.      *)
(* Neither the tables nor the tokens have to make sense; but a symbol      *)
(* without a code leaves bits that begin none.                             *)

Fits(dist, t) ==
  CASE t.kind = "lit" -> t.lit \in 0 .. LITS - 1
    [] t.kind = "match" ->
         /\ t.len \in Nat
         /\ t.len < Len(LengthTable) =>
              /\ t.lx \in 0 .. Pow(LengthTable[t.len + 1].ext) - 1
              /\ t.dist \in Nat
              /\ Coded(dist, t.dist) => t.dist < Len(DistTable) /\ t.dx \in 0 .. Pow(DistTable[t.dist + 1].ext) - 1
    [] OTHER -> FALSE
Sparing(lit, dist, t) ==
  /\ t.kind = "lit" => Spare(lit, t.lit)
  /\ t.kind = "match" => Spare(lit, END + 1 + t.len) /\ (t.len < Len(LengthTable) => Spare(dist, t.dist))
AllFit(dist, ts) == Len(ts) \in Nat /\ \A k \in 1 .. Len(ts) : Fits(dist, ts[k])
AllSparing(lit, dist, ts) == \A k \in 1 .. Len(ts) : Sparing(lit, dist, ts[k])

IsTable(b) ==
  /\ b.nlit \in END + 1 .. END + Pow(Field.lit)
  /\ b.ndist \in 1 .. Pow(Field.dist)
  /\ b.ncode \in MinCode .. MinCode + Pow(Field.code) - 1
  /\ b.clens \in [1 .. Len(Order) -> 0 .. Pow(Field.len) - 1]
  /\ \A k \in b.ncode + 1 .. Len(Order) : b.clens[Order[k] + 1] = 0
  /\ b.list \in Seq([s : 0 .. Len(Order) - 1, x : Nat])
  /\ \A k \in 1 .. Len(b.list) :
       /\ IsCode(b.clens) => Spare(b.clens, b.list[k].s)
       /\ b.list[k].s > MAXLBITS => b.list[k].x < Pow(Runs[b.list[k].s - MAXLBITS].ext)
       /\ Len(LengthsUpTo(b.list)[k - 1]) < b.nlit + b.ndist
  /\ Len(Lengths(b.list)) >= b.nlit + b.ndist

IsBlock(b) ==
  CASE b.type = 0 -> b.bytes \in Seq(0 .. LITS - 1) /\ Len(b.bytes) < Pow(2 * OCTET) /\ b.check \in BOOLEAN
    [] b.type = 1 -> AllFit(FixedDist, b.tokens) /\ AllSparing(FixedLit, FixedDist, b.tokens)
    [] b.type = 2 ->
         IsTable(b) /\ AllFit(DistOf(b), b.tokens) /\ (DynamicOk(b) => AllSparing(LitOf(b), DistOf(b), b.tokens))
    [] OTHER -> b.type = 3
=============================================================================
