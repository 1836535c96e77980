------------------------------- MODULE JpegDc -------------------------------
(***************************************************************************)
(* jpeg_dc.c: the luminance of each block, from the entropy-coded data of  *)
(* a picture: the bit reader, the Huffman tables, the header segments, the *)
(* walk over the MCUs with its restart markers, and what is left of it     *)
(* when the data end too soon.                                             *)
(*                                                                         *)
(* A byte has ByteBits bits.  The largest byte is what 0xFF is in the      *)
(* code: followed by 0 it stands for itself, followed by anything else it  *)
(* is a marker.  The bit buffer is a sequence of bits.                     *)
(***************************************************************************)
EXTENDS Integers, Sequences, SequencesExt, FiniteSets, Loops

CONSTANTS ByteBits,    \* 8 in the code
          Prefetch,    \* bs_fill goes on while it has this many bits or fewer
          MaxLen,      \* longest Huffman code, 16
          Coefs,       \* coefficients of a block, 64
          RstMarkers   \* the second byte of a restart marker, 0xD0 .. 0xD7

ASSUME JpegAssumption ==
  /\ ByteBits \in Nat \ {0} /\ Prefetch \in Nat
  /\ MaxLen \in 1 .. Prefetch /\ Coefs \in Nat \ {0}
  /\ RstMarkers \subseteq 1 .. 2 ^ ByteBits - 2

\* The numbers of the standard's baseline, which are those in the code.
ASSUME BaselineAssumption ==
  /\ ByteBits = 8 /\ MaxLen = 16 /\ Coefs = 64 /\ 208 .. 215 \subseteq RstMarkers

FF == 2 ^ ByteBits - 1
BitsOf(byte) ==
  [k \in 1 .. ByteBits |-> (byte \div 2 ^ (ByteBits - k)) % 2]
Value(bits) == Each(LAMBDA v, b : 2 * v + b, 0, bits)

---------------------------------------------------------------------------
(* Bit reader: r.pos is the next byte of data, r.buf the bits read ahead. *)

FillByte(data, r) ==
  LET byte == data[r.pos]
      last == r.pos = Len(data)
  IN  IF Len(r.buf) > Prefetch \/ r.pos > Len(data) THEN r
      ELSE IF byte # FF
      THEN [r EXCEPT !.pos = @ + 1, !.buf = @ \o BitsOf(byte)]
      ELSE IF last THEN [r EXCEPT !.pos = @ + 1]
      ELSE IF data[r.pos + 1] = 0
      THEN [r EXCEPT !.pos = @ + 2, !.buf = @ \o BitsOf(FF)]
      ELSE r                                 \* a marker: stay in front of it

Fill(data, r) ==
  Loop(LAMBDA s, k : FillByte(data, s), r, 1 + Prefetch \div ByteBits)

\* bs_get: ok is false if the data end; the bits read ahead stay.
Taken(f, n) ==
  IF Len(f.buf) < n THEN [ok |-> FALSE, val |-> 0, r |-> f]
  ELSE [ok |-> TRUE, val |-> Value(SubSeq(f.buf, 1, n)),
        r |-> [f EXCEPT !.buf = SubSeq(@, n + 1, Len(@))]]
Get(data, r, n) == Taken(IF Len(r.buf) < n THEN Fill(data, r) ELSE r, n)

---------------------------------------------------------------------------
(* Huffman tables: counts[len] codes of length len, for the symbols in     *)
(* order.                                                                  *)

BuildHuff(counts, symbols) ==
  LET code[len \in 1 .. MaxLen] ==        \* the first code of length len
        IF len = 1 THEN 0 ELSE 2 * (code[len - 1] + counts[len - 1])
      before[len \in 1 .. MaxLen] ==      \* how many codes are shorter
        IF len = 1 THEN 0 ELSE before[len - 1] + counts[len - 1]
  IN  [min |-> [len \in 1 .. MaxLen |-> code[len]],
       max |-> [len \in 1 .. MaxLen |->
                  IF counts[len] = 0 THEN -1 ELSE code[len] + counts[len] - 1],
       ptr |-> [len \in 1 .. MaxLen |-> before[len]],
       symbols |-> symbols]

\* A table no segment has given, which is all zeros.
NoTable ==
  LET zeros == [len \in 1 .. MaxLen |-> 0]
  IN  [min |-> zeros, max |-> zeros, ptr |-> zeros, symbols |-> <<0>>]

\* huff_decode: bit after bit until the code is one of its length, MaxLen bits
\* were read, or the data end.  s.code is what was read so far; the symbol is
\* found when it is not below the last code of its length.
HuffBit(ht, s, len, g) ==
  LET code == 2 * s.code + g.val
  IN  IF ~g.ok THEN [s EXCEPT !.go = FALSE, !.r = g.r]
      ELSE IF code > ht.max[len] THEN [s EXCEPT !.code = code, !.r = g.r]
      ELSE [s EXCEPT !.go = FALSE, !.ok = TRUE, !.r = g.r,
                     !.sym = ht.symbols[ht.ptr[len] + code - ht.min[len] + 1]]
HuffDecode(data, r, ht) ==
  Loop(LAMBDA s, len : IF s.go THEN HuffBit(ht, s, len, Get(data, s.r, 1)) ELSE s,
       [go |-> TRUE, ok |-> FALSE, code |-> 0, sym |-> 0, r |-> r], MaxLen)

Extend(val, cat) ==
  IF cat = 0 THEN 0
  ELSE IF val < 2 ^ (cat - 1) THEN val - (2 ^ cat - 1) ELSE val

---------------------------------------------------------------------------
(* Header segments: records with a field kind, in any order up to "sos". *)

\* What a header may hold.  The parser takes as many symbols of a table as it has
\* codes; the numbers of quantisation tables in a frame and of Huffman tables in a
\* scan it does not check, and the camera sets them to tables there are.
Comp     == [h : 0 .. 15, v : 0 .. 15, qt : 0 .. 3]
ScanComp == [comp : Nat \ {0}, dc : 0 .. 1, ac : 0 .. 1]
Sum(counts) == Each(LAMBDA a, b : a + b, 0, counts)
Table    == [kind : {"dht"}, class : {"dc", "ac"}, id : Nat,
             counts : [1 .. MaxLen -> Nat], symbols : Seq(0 .. 255)]
Frame0   == [kind : {"sof0"}, precision : Nat, width : Nat, height : Nat, comps : Seq(Comp)]
Other    == [kind : {"dqt"}, id : Nat, q : Nat] \cup [kind : {"dri"}, interval : Nat]
              \cup [kind : {"sos"}, scan : Seq(ScanComp)] \cup [kind : {"app", "eoi"}]
Segment  == Frame0 \cup {t \in Table : Len(t.symbols) = Sum(t.counts)} \cup Other

Damaged(seg, p) ==
  \/ seg.kind = "sof0" /\ (seg.precision # 8 \/ Len(seg.comps) > 3)
  \/ seg.kind = "dht" /\ (seg.id > 1 \/ Len(seg.symbols) > 256)
  \/ seg.kind = "dqt" /\ seg.id >= 4
  \/ seg.kind = "sos" /\ Len(seg.scan) > 3
  \/ seg.kind = "eoi"

MaxOf(S) == CHOOSE x \in S : \A y \in S : x >= y
CeilDiv(a, b) == (a + b - 1) \div b

\* Segments of other kinds are skipped, and what follows "sos" is data.
ParseSegment(p, seg) ==
  IF p.failed \/ p.sos THEN p
  ELSE IF Damaged(seg, p) THEN [p EXCEPT !.failed = TRUE]
  ELSE CASE seg.kind = "sof0" ->
              LET maxh == MaxOf({1} \cup {c.h : c \in ToSet(seg.comps)})
                  maxv == MaxOf({1} \cup {c.v : c \in ToSet(seg.comps)})
              IN  [p EXCEPT !.sof = TRUE, !.comps = seg.comps,
                            !.cols = CeilDiv(seg.width, 8 * maxh),
                            !.rows = CeilDiv(seg.height, 8 * maxv)]
         [] seg.kind = "dht" /\ seg.class = "dc" ->
              [p EXCEPT !.dc[seg.id] = BuildHuff(seg.counts, seg.symbols)]
         [] seg.kind = "dht" /\ seg.class = "ac" ->
              [p EXCEPT !.ac[seg.id] = BuildHuff(seg.counts, seg.symbols)]
         [] seg.kind = "dqt" -> [p EXCEPT !.qt[seg.id] = seg.q]
         [] seg.kind = "dri" -> [p EXCEPT !.restart = seg.interval]
         [] seg.kind = "sos" -> [p EXCEPT !.sos = TRUE, !.scan = seg.scan]
         [] OTHER -> p

Parse(segments) ==
  LET tables == [i \in 0 .. 1 |-> NoTable]
  IN  Each(ParseSegment,
           [failed |-> FALSE, sof |-> FALSE, sos |-> FALSE, comps |-> <<>>,
            cols |-> 0, rows |-> 0, scan |-> <<>>, restart |-> 0,
            dc |-> tables, ac |-> tables, qt |-> [i \in 0 .. 3 |-> 0]],
           segments)

Unusable(p) == \/ p.failed \/ ~p.sof \/ ~p.sos \/ p.scan = <<>>
               \/ p.dc[0] = NoTable

---------------------------------------------------------------------------
(* Blocks: d is the state of the walk: the reader d.r, the predictions     *)
(* d.pred, the luminances found so far d.grid, and whether it goes on.     *)

\* The reader behind the AC symbols, s.count coefficients being known: a symbol h
\* is the end of the block, sixteen zeros, or a run of zeros and a value.
AcSymbol(data, s, h) ==
  LET run == h.sym \div 16
      size == h.sym % 16
      g == Get(data, h.r, size)
  IN  IF ~h.ok \/ (size = 0 /\ run # 15) THEN [s EXCEPT !.go = FALSE, !.r = h.r]
      ELSE IF size = 0 THEN [s EXCEPT !.count = @ + 16, !.r = h.r]
      ELSE [count |-> s.count + run + 1, go |-> g.ok, r |-> g.r]
SkipAc(data, ht, r) ==
  Loop(LAMBDA s, k : IF s.go /\ s.count < Coefs
                     THEN AcSymbol(data, s, HuffDecode(data, s.r, ht)) ELSE s,
       [count |-> 1, go |-> TRUE, r |-> r], Coefs).r

\* decode_block_dc: the category h of the difference, its bits g, and the rest.
DcValue(data, ac, d, c, cat, g) ==
  IF ~g.ok THEN [d EXCEPT !.go = FALSE]
  ELSE [d EXCEPT !.r = SkipAc(data, ac, g.r),
                 !.pred = [x \in DOMAIN @ |->
                             @[x] + (IF x = c THEN Extend(g.val, cat) ELSE 0)]]
DcSymbol(data, ac, d, c, h) ==
  IF ~h.ok THEN [d EXCEPT !.go = FALSE]
  ELSE DcValue(data, ac, d, c, h.sym, Get(data, h.r, h.sym))
DecodeBlock(data, p, d, s) ==
  DcSymbol(data, p.ac[p.scan[s].ac], d, p.scan[s].comp,
           HuffDecode(data, d.r, p.dc[p.scan[s].dc]))

\* C's division rounds towards zero.
CDiv(a, b) == IF a >= 0 THEN a \div b ELSE -((-a) \div b)

\* Mutant of Luma: the value is not clamped to a byte.
LumaUnclamped(dc, q) == CDiv(dc * q, 8) + 128

Luma(dc, q) == LET v == CDiv(dc * q, 8) + 128
               IN  IF v < 0 THEN 0 ELSE IF v > 255 THEN 255 ELSE v

\* The blocks of an MCU in the order of the scan.
McuBlocks(p) ==
  FlattenSeq([s \in DOMAIN p.scan |->
    LET c == p.comps[p.scan[s].comp]
    IN  [k \in 1 .. c.h * c.v |->
           [scan |-> s, bh |-> (k - 1) % c.h, bv |-> (k - 1) \div c.h]]])

\* The luminance of a decoded block goes to its cell.
Record(p, n, mcu, b) ==
  LET luma == p.comps[p.scan[1].comp]
      cell == ((mcu \div p.cols) * luma.v + b.bv) * (p.cols * luma.h)
                + (mcu % p.cols) * luma.h + b.bh
      q == p.qt[luma.qt]
      value == Luma(n.pred[p.scan[1].comp], IF q = 0 THEN 1 ELSE q)
  IN  IF ~n.go \/ b.scan # 1 THEN n
      ELSE [n EXCEPT !.grid = [i \in DOMAIN @ \cup {cell} |->
                                 IF i = cell THEN value ELSE @[i]]]

WalkBlock(data, p, d, mcu, b) ==
  IF d.go THEN Record(p, DecodeBlock(data, p, d, b.scan), mcu, b) ELSE d

\* Mutant of Restart: the predictions go on.
RestartPredicting(data, d) ==
  LET p == d.r.pos
      marked == p + 1 <= Len(data) /\ data[p] = FF /\ data[p + 1] \in RstMarkers
  IN  [d EXCEPT !.r = [pos |-> IF marked THEN p + 2 ELSE p, buf |-> <<>>]]

\* After restart MCUs: the bits read ahead are dropped, a marker is skipped if
\* there is one, and the predictions start again.
Restart(data, d) ==
  LET p == d.r.pos
      marked == p + 1 <= Len(data) /\ data[p] = FF /\ data[p + 1] \in RstMarkers
  IN  [d EXCEPT !.r = [pos |-> IF marked THEN p + 2 ELSE p, buf |-> <<>>],
                !.pred = [c \in DOMAIN @ |-> 0]]

AfterMcu(data, p, n, mcu) ==
  IF n.go /\ p.restart > 0 /\ (mcu + 1) % p.restart = 0
  THEN Restart(data, n) ELSE n
WalkMcu(data, p, d, mcu) ==
  AfterMcu(data, p,
           Each(LAMBDA x, b : WalkBlock(data, p, x, mcu, b), d, McuBlocks(p)), mcu)

\* jpeg_extract_dc_luma, p being the header: ok, the size of the grid, and the
\* part of it that was written.
ExtractDc(p, data) ==
  LET luma == p.comps[p.scan[1].comp]
      start == [r |-> [pos |-> 1, buf |-> <<>>], go |-> TRUE,
                pred |-> [c \in DOMAIN p.comps |-> 0], grid |-> <<>>]
      walk == Loop(LAMBDA d, k : WalkMcu(data, p, d, k - 1), start,
                   p.cols * p.rows)
  IN  IF Unusable(p) THEN [ok |-> FALSE, w |-> 0, h |-> 0, grid |-> <<>>]
      ELSE [ok |-> TRUE, w |-> p.cols * luma.h, h |-> p.rows * luma.v,
            grid |-> walk.grid]

=============================================================================
