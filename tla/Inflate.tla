------------------------------ MODULE Inflate -------------------------------
(***************************************************************************)
(* The decoder of inflate.c, one action per field, symbol or byte: bits    *)
(* taken from a buffer that is filled byte by byte, prefix codes decoded   *)
(* from the number of codes of each length, the output bounded.  The two   *)
(* bytes of the zlib header are a flag.                                    *)
(***************************************************************************)
EXTENDS Deflate

CONSTANT
  Streams      \* what is decoded: header, blocks, bytes lost from the end, room for the output

\* A zlib file has at least one block.
Written(s) ==
  /\ s.zlib \in BOOLEAN /\ s.room \in Nat
  /\ s.zlib =>
       /\ Len(s.blocks) \in Nat \ {0} /\ \A k \in 1 .. Len(s.blocks) : IsBlock(s.blocks[k])
       /\ s.lost \in 0 .. Len(Encoded(s.blocks))
ASSUME StreamAssumption == \A s \in Streams : Written(s)

VARIABLES
  stream,      \* which of them
  src,         \* the bytes, each a sequence of bits
  mode,        \* what is expected next; "done" or "error"
  pos, bitbuf, \* the bytes read, and the bits of the last one that are not used
  out,
  final,       \* the last block
  copying,     \* bytes of a stored block still to come
  lit, dist,   \* the two tables
  nlit, ndist, lenc, lengths   \* a dynamic block's header

input == <<stream, src>>
table == <<lit, dist>>
header == <<nlit, ndist, lenc, lengths>>
decoder == <<input, mode, pos, bitbuf, out, final, copying, table, header>>

----------------------------------------------------------------------------
(* bits: a reader r has taken a value v and stands at pos, buf; ok says    *)
(* whether the input sufficed up to there.                                 *)

Reader == [ok |-> TRUE, v |-> 0, pos |-> pos, buf |-> bitbuf]

Filled(r, n) == IF n <= Len(r.buf) THEN 0 ELSE (n - Len(r.buf) + OCTET - 1) \div OCTET
Enough(r, n) == r.ok /\ r.pos + Filled(r, n) <= Len(src)
Buffer(r, n) == r.buf \o FlattenSeq(SubSeq(src, r.pos + 1, r.pos + Filled(r, n)))
LowFirst(bs) == SumOf([i \in 1 .. Len(bs) |-> bs[i] * Pow(i - 1)])
HighFirst(bs) == LowFirst(Reverse(bs))

Taken(r, n, v) ==
  [ok |-> TRUE, v |-> v, pos |-> r.pos + Filled(r, n), buf |-> SubSeq(Buffer(r, n), n + 1, Len(Buffer(r, n)))]

bits(r, n) == IF Enough(r, n) THEN Taken(r, n, LowFirst(SubSeq(Buffer(r, n), 1, n))) ELSE [r EXCEPT !.ok = FALSE]

At(r) == pos' = r.pos /\ bitbuf' = r.buf

----------------------------------------------------------------------------
(* huff_build and huff_decode. *)

Counts(lens) == [l \in 1 .. MAXLBITS |-> Cardinality({s \in Used(lens) : lens[s + 1] = l})]

\* The codes of a length that are left over by the shorter ones and itself.
Left(count) == LET left[l \in 0 .. MAXLBITS] == IF l = 0 THEN 1 ELSE 2 * left[l - 1] - count[l] IN left
Oversubscribed(count) == \E l \in 1 .. MAXLBITS : Left(count)[l] < 0

NoCodes == [l \in 1 .. MAXLBITS |-> 0]
Fails(lens) == Counts(lens) = NoCodes \/ Oversubscribed(Counts(lens))
\* Past the codes of a length: the first code of the next, and how many symbols there were.
First_NoCarry(count) ==
  LET first[l \in 0 .. MAXLBITS] == IF l = 0 THEN 0 ELSE first[l - 1] + count[l] IN first
First(count) ==
  LET first[l \in 0 .. MAXLBITS] == IF l = 0 THEN 0 ELSE 2 * (first[l - 1] + count[l]) IN first
Index(count) ==
  LET index[l \in 0 .. MAXLBITS] == IF l = 0 THEN 0 ELSE index[l - 1] + count[l] IN index

\* offs: where a symbol goes, behind the shorter ones and the equally long ones before it.
Rank(lens, s) == Cardinality({t \in Used(lens) : lens[t + 1] = lens[s + 1] /\ t < s})
Place(lens, s) == Index(Counts(lens))[lens[s + 1] - 1] + Rank(lens, s)
Symbols(lens) == [i \in 1 .. Cardinality(Used(lens)) |-> CHOOSE s \in Used(lens) : Place(lens, s) = i - 1]

huff_build(lens) == [count |-> Counts(lens), symbol |-> Symbols(lens)]

\* Bit by bit, until the code is one of those of its length.
Hit(r, h, l) ==
  /\ Enough(r, l)
  /\ HighFirst(SubSeq(Buffer(r, l), 1, l)) - First(h.count)[l - 1] < h.count[l]
huff_decode(r, h) ==
  IF \E l \in 1 .. MAXLBITS : Hit(r, h, l)
  THEN LET l == CHOOSE l \in 1 .. MAXLBITS : Hit(r, h, l) /\ \A k \in 1 .. l - 1 : ~Hit(r, h, k)
           code == HighFirst(SubSeq(Buffer(r, l), 1, l))
       IN Taken(r, l, h.symbol[Index(h.count)[l - 1] + code - First(h.count)[l - 1] + 1])
  ELSE [r EXCEPT !.ok = FALSE]

----------------------------------------------------------------------------
Goes(m) == mode' = m
Error == mode' = "error" /\ UNCHANGED <<pos, bitbuf, out, final, copying, table, header>>

\* putbyte, as often as a run asks for it.
Put(bytes, m) ==
  IF Len(out) + Len(bytes) <= stream.room THEN out' = out \o bytes /\ Goes(m) ELSE mode' = "error" /\ UNCHANGED out

AfterBlock == IF final THEN "done" ELSE "block"

\* inflate_stream
Header ==
  /\ mode = "header" /\ Goes(IF stream.zlib THEN "block" ELSE "error")
  /\ UNCHANGED <<input, pos, bitbuf, out, final, copying, table, header>>

BlockHeader ==
  /\ mode = "block"
  /\ LET last == bits(Reader, 1)
         type == bits(last, 2)
     IN IF type.ok /\ type.v # 3
        THEN /\ Goes(CASE type.v = 0 -> "stored" [] type.v = 1 -> "fixed" [] type.v = 2 -> "dynamic")
             /\ final' = (last.v = 1) /\ At(type)
             /\ UNCHANGED <<out, copying, table, header>>
        ELSE Error
  /\ UNCHANGED input

----------------------------------------------------------------------------
(* block_stored: what is left of a byte is dropped. *)

Aligned_Not == Reader
Aligned == [Reader EXCEPT !.buf = <<>>]

Stored ==
  /\ mode = "stored"
  /\ LET len == bits(Aligned, 2 * OCTET)
         nlen == bits(len, 2 * OCTET)
     IN IF nlen.ok /\ len.v + nlen.v = Pow(2 * OCTET) - 1 /\ nlen.pos + len.v <= Len(src)
        THEN /\ Goes("bytes") /\ copying' = len.v /\ At(nlen)
             /\ UNCHANGED <<out, final, table, header>>
        ELSE Error
  /\ UNCHANGED input

StoredByte ==
  /\ mode = "bytes"
  /\ IF copying = 0
     THEN Goes(AfterBlock) /\ UNCHANGED <<pos, bitbuf, out, copying>>
     ELSE LET b == bits(Reader, OCTET)
          IN At(b) /\ copying' = copying - 1 /\ Put(<<b.v>>, "bytes")
  /\ UNCHANGED <<input, final, table, header>>

----------------------------------------------------------------------------
(* block_fixed and block_codes *)

Fixed ==
  /\ mode = "fixed" /\ Goes("codes")
  /\ lit' = huff_build(FixedLit) /\ dist' = huff_build(FixedDist)
  /\ UNCHANGED <<input, pos, bitbuf, out, final, copying, header>>

\* A match is copied byte by byte, so that it may run into itself.
Copied(n, d) ==
  LET upTo[k \in 0 .. n] == IF k = 0 THEN out ELSE Append(upTo[k - 1], upTo[k - 1][Len(upTo[k - 1]) - d + 1])
  IN SubSeq(upTo[n], Len(out) + 1, Len(out) + n)

Match(sym) ==
  LET row == LengthTable[sym.v - END]
      length == bits(sym, row.ext)
      far == huff_decode(length, dist)
      drow == DistTable[far.v + 1]
      extra == bits(far, drow.ext)
      d == drow.base + extra.v
  IN IF sym.v - END <= Len(LengthTable) /\ far.ok /\ far.v < Len(DistTable) /\ extra.ok /\ d <= Len(out)
     THEN At(extra) /\ Put(Copied(row.base + length.v, d), "codes") /\ UNCHANGED <<final, copying, table, header>>
     ELSE Error

CodedSymbol ==
  /\ mode = "codes"
  /\ LET sym == huff_decode(Reader, lit)
     IN CASE ~sym.ok -> Error
          [] sym.ok /\ sym.v < END -> At(sym) /\ Put(<<sym.v>>, "codes") /\ UNCHANGED <<final, copying, table, header>>
          [] sym.ok /\ sym.v = END -> At(sym) /\ Goes(AfterBlock) /\ UNCHANGED <<out, final, copying, table, header>>
          [] sym.ok /\ sym.v > END -> Match(sym)
  /\ UNCHANGED input

----------------------------------------------------------------------------
(* block_dynamic *)

\* The first fields, and the lengths of the code that the lengths are in.
Dynamic ==
  /\ mode = "dynamic"
  /\ LET n1 == bits(Reader, Field.lit)
         n2 == bits(n1, Field.dist)
         n3 == bits(n2, Field.code)
         ncode == MinCode + n3.v
         read[i \in 0 .. ncode] == IF i = 0 THEN n3 ELSE bits(read[i - 1], Field.len)
         clens == [s \in 1 .. Len(Order) |->
                     LET i == CHOOSE i \in 1 .. Len(Order) : Order[i] + 1 = s IN IF i <= ncode THEN read[i].v ELSE 0]
     IN IF n3.ok /\ END + 1 + n1.v <= MaxLit /\ 1 + n2.v <= MaxDist /\ read[ncode].ok /\ ~Fails(clens)
        THEN /\ nlit' = END + 1 + n1.v /\ ndist' = 1 + n2.v
             /\ lenc' = huff_build(clens) /\ lengths' = <<>>
             /\ At(read[ncode]) /\ Goes("lengths")
             /\ UNCHANGED <<out, final, copying, table>>
        ELSE Error
  /\ UNCHANGED input

\* One length, or a run.
Length ==
  /\ mode = "lengths" /\ Len(lengths) < nlit + ndist
  /\ LET sym == huff_decode(Reader, lenc)
         row == Runs[sym.v - MAXLBITS]
         rep == bits(sym, row.ext)
         val == IF sym.v = COPY THEN lengths[Len(lengths)] ELSE 0
     IN CASE ~sym.ok -> Error
          [] sym.ok /\ sym.v <= MAXLBITS ->
               /\ lengths' = Append(lengths, sym.v) /\ At(sym)
               /\ UNCHANGED <<mode, out, final, copying, table, nlit, ndist, lenc>>
          [] sym.ok /\ sym.v > MAXLBITS ->
               IF ~(sym.v = COPY /\ lengths = <<>>) /\ rep.ok /\ Len(lengths) + row.base + rep.v <= nlit + ndist
               THEN /\ lengths' = lengths \o [i \in 1 .. row.base + rep.v |-> val] /\ At(rep)
                    /\ UNCHANGED <<mode, out, final, copying, table, nlit, ndist, lenc>>
               ELSE Error
  /\ UNCHANGED input

\* The end of a block must have a code; a lone distance need not.
Tables ==
  /\ mode = "lengths" /\ Len(lengths) >= nlit + ndist
  /\ LET l == SubSeq(lengths, 1, nlit)
         d == SubSeq(lengths, nlit + 1, nlit + ndist)
     IN IF l[END + 1] # 0 /\ ~Fails(l) /\ (Fails(d) => ndist <= 1)
        THEN /\ lit' = huff_build(l) /\ dist' = huff_build(d) /\ Goes("codes")
             /\ UNCHANGED <<pos, bitbuf, out, final, copying, header>>
        ELSE Error
  /\ UNCHANGED input

Finished == mode \in {"done", "error"} /\ UNCHANGED decoder

NoTable == [count |-> NoCodes, symbol |-> <<>>]

Begin ==
  /\ src = LET all == Encoded(stream.blocks) IN SubSeq(all, 1, Len(all) - stream.lost)
  /\ mode = "header"
  /\ pos = 0 /\ bitbuf = <<>> /\ out = <<>> /\ final = FALSE /\ copying = 0
  /\ lit = NoTable /\ dist = NoTable
  /\ nlit = 0 /\ ndist = 0 /\ lenc = NoTable /\ lengths = <<>>

InflateInit == stream \in Streams /\ Begin

InflateNext ==
  \/ Header \/ BlockHeader \/ Stored \/ StoredByte \/ Fixed \/ CodedSymbol
  \/ Dynamic \/ Length \/ Tables \/ Finished

InflateSpec == InflateInit /\ [][InflateNext]_decoder

\* The text comes out, byte for byte, when the stream is a zlib file of blocks that mean
\* something and the room suffices; in every other case, a stream cut short included, the
\* decoder ends in an error, and it never writes past the room.  (The checksum after the last
\* block is not read, so that a file cut short within it is no error.)
Accepted ==
  LET meaning == StreamMeans(stream.blocks)
  IN /\ stream.zlib /\ stream.lost = 0
     /\ meaning.ok /\ Len(meaning.text) <= stream.room
Inflates ==
  /\ Len(out) <= stream.room
  /\ mode = "done" => Accepted /\ out = StreamMeans(stream.blocks).text
  /\ mode = "error" => ~Accepted
=============================================================================
