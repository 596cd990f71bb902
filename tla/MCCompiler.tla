---------------------------- MODULE MCCompiler -----------------------------
EXTENDS Readers

Seqs(S, n) == UNION {[1 .. k -> S] : k \in 0 .. n}

Rec(kind) == [kind |-> kind]
Standards == {[kind |-> "standard", header |-> h, bytes |-> b, pause |-> 0] : h \in BOOLEAN, b \in {<<>>, <<<<1, 0>>>>}}
Turbo(count, bytes, last, pause) ==
  [kind |-> "turbo", pilot |-> 2, count |-> count, s1 |-> count, s2 |-> 0, b0 |-> 1, b1 |-> 3,
   bytes |-> bytes, last |-> last, pause |-> pause]
Sound(durs) == [kind |-> "pulses", durs |-> durs]
CswOf(sound) == [kind |-> "csw", sound |-> sound, durs |-> <<3, 1>>, pause |-> 1]
PauseOf(ms) == [kind |-> "pause", ms |-> ms]
Loop(n) == [kind |-> "loop", n |-> n]
Sym(flags, durs, rep) == [sym |-> [flags |-> flags, durs |-> durs], rep |-> rep]
Gdb(list, pause) == [kind |-> "gdb", fits |-> TRUE, symbols |-> list, pause |-> pause]

\* Every symbol polarity after every parity; a symbol cut short by a zero; an unknown one.
Gdbs == {Gdb(<<Sym(f, <<2, 1>>, r)>>, 2 - r) : f \in 0 .. 3, r \in {0, 2}}
        \cup {Gdb(<<Sym(3, <<2>>, 2), Sym(1, <<1>>, 1), Sym(2, <<1, 0, 3>>, 2), Sym(0, <<>>, 3), Sym(3, <<1>>, 0)>>, 0)}
        \cup {[Gdb(<<>>, 0) EXCEPT !.fits = FALSE]}

MCBlocks ==
  Standards \cup Gdbs \cup
  {Turbo(1, <<<<0, 1>>, <<1, 1>>>>, 1, 1), Turbo(0, <<>>, 0, 0), [Turbo(2, <<<<1, 0>>>>, 5, 0) EXCEPT !.kind = "pure"],
   Sound(<<2>>), Sound(<<1, 0, 2>>), CswOf(TRUE), CswOf(FALSE), PauseOf(0), PauseOf(2),
   Loop(2), Rec("endloop"), Rec("info"), Rec("unknown")}

\* Any three blocks, and any five of the ones that loops are about.
LoopBlocks == {Sound(<<2>>), PauseOf(0), Loop(0), Loop(3), Rec("endloop")}
MCFiles == Seqs(MCBlocks, 2) \cup [1 .. 3 -> MCBlocks] \cup [1 .. 5 -> LoopBlocks]

\* The files are of the kind SignalKept is about.
ASSUME SymbolsSound == ForcedSounds

MCSamples == Seqs({-1, 0, 1}, 6)
MCRom == [pilot |-> 3, hdr |-> 2, data |-> 1, s1 |-> 1, s2 |-> 2, b0 |-> 1, b1 |-> 2, pause |-> 2]

----------------------------------------------------------------------------
(* Compressed streams: bytes of two bits, four literals, two lengths and   *)
(* two distances.                                                          *)

MCLengths == <<[base |-> 2, ext |-> 0], [base |-> 3, ext |-> 1]>>
MCDistances == <<[base |-> 1, ext |-> 0], [base |-> 2, ext |-> 1]>>
MCFixedLit == <<3, 3, 4, 4, 2, 3, 3, 3>>
MCFixedDist == <<2, 2>>
MCOrder == <<5, 6, 7, 0, 3, 2, 4, 1>>
MCField == [lit |-> 2, dist |-> 2, code |-> 2, len |-> 2]
MCRuns == <<[base |-> 2, ext |-> 1], [base |-> 2, ext |-> 1], [base |-> 4, ext |-> 1]>>

Lit(x) == [kind |-> "lit", lit |-> x]
Copy(l, lx, d, dx) == [kind |-> "match", len |-> l, lx |-> lx, dist |-> d, dx |-> dx]
StoredBlock(bytes, check) == [type |-> 0, bytes |-> bytes, check |-> check]
FixedBlock(tokens) == [type |-> 1, tokens |-> tokens]
\* An unknown length, an unknown distance, and matches that run into themselves.
Tokens == {Lit(0), Lit(3), Copy(0, 0, 0, 0), Copy(1, 1, 1, 0), Copy(1, 0, 1, 1), Copy(2, 0, 0, 0), Copy(0, 0, 2, 0)}

\* Tokens that a pair of codes can write.
Has(t, l, d) ==
  CASE t.kind = "lit" -> Coded(l, t.lit)
    [] OTHER -> Coded(l, END + 1 + t.len) /\ Coded(d, t.dist)
Text == <<Lit(3), Lit(1), Lit(0), Copy(0, 0, 0, 0), Lit(2), Copy(1, 1, 1, 1)>>
DynamicBlock(nl, nd, ncode, clens, list, tokens) ==
  LET b == [type |-> 2, nlit |-> nl, ndist |-> nd, ncode |-> ncode, clens |-> clens, list |-> list, tokens |-> <<>>]
  IN [b EXCEPT !.tokens = SelectSeq(tokens, LAMBDA t : Has(t, LitOf(b), DistOf(b)))]

\* Any lengths, written out; any runs that fill the two tables or overrun them; codes of the lengths
\* that are none, or with too few of them sent.
EveryLength == <<3, 3, 3, 3, 3, 3, 3, 3>>
Plain(l, d) == DynamicBlock(Len(l), Len(d), 8, EveryLength, [k \in 1 .. Len(l \o d) |-> [s |-> (l \o d)[k], x |-> 0]], Text)
Plains == {Plain(l, d) : l \in [1 .. 6 -> {0, 1, 3}], d \in {<<0>>, <<1>>, <<2, 1>>}}
          \cup {Plain(<<2, 3, 2, 0, 3, 3>> \o l, d) : l \in {<<>>, <<3>>, <<3, 0>>}, d \in {<<0, 0>>, <<4, 3>>, <<1, 1, 1>>}}
Items == {[s |-> 3, x |-> 0], [s |-> 2, x |-> 0]} \cup {[s |-> s, x |-> x] : s \in 5 .. 7, x \in {0, 1}}
Fills(list, n) == Len(Lengths(list)) >= n /\ Len(Lengths(SubSeq(list, 1, Len(list) - 1))) < n
RunLists == {list \in UNION {[1 .. k -> Items] : k \in 2 .. 4} : Fills(list, 7)}
RunBlocks == {DynamicBlock(6, 1, 8, EveryLength, list, Text) : list \in RunLists}
Sent(clens, n) == [s \in 1 .. 8 |-> IF \E k \in 1 .. n : MCOrder[k] + 1 = s THEN clens[s] ELSE 0]
CodeBlocks == {DynamicBlock(5, 1, n, Sent(clens, n), [k \in 1 .. 6 |-> [s |-> 3, x |-> 0]], Text) :
                 n \in 5 .. 8, clens \in {<<2, 0, 3, 1, 0, 3, 0, 0>>, <<0, 0, 0, 1, 0, 0, 0, 0>>, [i \in 1 .. 8 |-> 0], <<1, 0, 1, 1, 0, 0, 0, 0>>}}

Whole(blocks) == [zlib |-> TRUE, blocks |-> blocks, lost |-> 0, room |-> 20]
MCNoStream == [Whole(<<>>) EXCEPT !.zlib = FALSE]

Uncoded == [Plain(<<2, 0, 2, 0, 2, 3>>, <<2, 0>>) EXCEPT !.tokens = <<Lit(2), Lit(0), Copy(0, 0, 1, 0)>>]
Mixed ==
  {<<FixedBlock(<<Lit(1)>>), StoredBlock(<<2, 0>>, TRUE), FixedBlock(<<Copy(1, 1, 1, 0)>>)>>,
   <<StoredBlock(<<3>>, TRUE), Plain(<<2, 0, 2, 0, 2, 3>>, <<2, 0>>), StoredBlock(<<>>, TRUE)>>,
   <<FixedBlock(<<Lit(2), Copy(0, 0, 1, 0)>>)>>}
MCStreams ==
  {Whole(<<FixedBlock(ts)>>) : ts \in Seqs(Tokens, 3)}
  \cup {Whole(<<FixedBlock(ts), StoredBlock(bytes, c)>>) : ts \in Seqs({Lit(0), Lit(3)}, 2), bytes \in Seqs({1, 2}, 2), c \in BOOLEAN}
  \cup {Whole(<<b>>) : b \in Plains \cup RunBlocks \cup CodeBlocks \cup {Uncoded, [Uncoded EXCEPT !.tokens = <<Lit(1)>>]}}
  \cup {Whole(<<FixedBlock(<<>>), [type |-> 3]>>), [Whole(<<FixedBlock(<<Lit(0)>>)>>) EXCEPT !.zlib = FALSE]}
  \cup UNION {{[Whole(bs) EXCEPT !.lost = n] : n \in 0 .. Len(Encoded(bs))} : bs \in Mixed}
  \cup {[Whole(bs) EXCEPT !.room = n] : bs \in Mixed, n \in 0 .. 8}
=============================================================================
