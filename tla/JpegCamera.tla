---------------------------- MODULE JpegCamera ----------------------------
(***************************************************************************)
(* The OV3660's JPEG encoder, which is not part of the repository, as the  *)
(* JPEG standard defines it (ITU-T T.81, Annexes C and F): baseline        *)
(* Huffman coding, one scan, DC values as differences that start again     *)
(* after each restart marker, intervals padded with ones, 0xFF followed by *)
(* 0 where it is data.                                                     *)
(*                                                                         *)
(* A picture gives each luminance block its quantised DC value.            *)
(***************************************************************************)
EXTENDS Integers, Sequences, SequencesExt, FiniteSets, Loops

\* A camera: MCUs per row and column, the luminance blocks in one, whether
\* there is chrominance, the restart interval, the quantiser.
CameraFormat == [cols : Nat \ {0}, rows : Nat \ {0}, h : 1 .. 2, v : 1 .. 2,
                 colour : BOOLEAN, restart : Nat, q : 1 .. 255]

\* Bits of n, most significant first.
Bits(n, len) == [k \in 1 .. len |-> (n \div 2 ^ (len - k)) % 2]

\* A table: the number of codes of each length and the symbols in that order.
DcTable == [counts  |-> <<0, 1, 5, 1, 1, 1, 1, 1, 1, 0, 0, 0, 0, 0, 0, 0>>,
            symbols |-> <<0, 1, 2, 3, 4, 5, 6, 7, 8, 9, 10, 11>>]
AcTable == [counts  |-> <<0, 1, 1, 0, 0, 0, 0, 0, 0, 0, 0, 1, 0, 0, 0, 1>>,
            symbols |-> <<0, 34, 240, 225>>]

\* Annex C: the length of the k-th code, and the code.
SizeOf(table, k) ==
  CHOOSE len \in 1 .. 16 :
    LET upto(l) == Each(LAMBDA n, c : n + c, 0, SubSeq(table.counts, 1, l))
    IN  upto(len - 1) < k /\ k <= upto(len)
CodeOf(table, k) ==
  LET code[i \in 1 .. k] ==
        IF i = 1 THEN 0
        ELSE (code[i - 1] + 1) * 2 ^ (SizeOf(table, i) - SizeOf(table, i - 1))
  IN  code[k]
Huffman(table, symbol) ==
  LET k == CHOOSE i \in DOMAIN table.symbols : table.symbols[i] = symbol
  IN  Bits(CodeOf(table, k), SizeOf(table, k))

Category(v) == CHOOSE s \in 0 .. 11 :
                 LET a == IF v < 0 THEN -v ELSE v
                 IN  a < 2 ^ s /\ (s = 0 \/ a >= 2 ^ (s - 1))
DcBits(diff) ==
  LET s == Category(diff)
  IN  Huffman(DcTable, s) \o Bits(IF diff < 0 THEN diff + 2 ^ s - 1 ELSE diff, s)

\* The AC coefficients of a block: none, one with two zeros in front of it, or
\* 48 zeros, 14 zeros and the last coefficient, after which no end of block is
\* written.
AcBits(detail) ==
  CASE detail = "flat"  -> Huffman(AcTable, 0)
    [] detail = "edge"  -> Huffman(AcTable, 34) \o <<1, 1>> \o Huffman(AcTable, 0)
    [] detail = "sharp" -> FlattenSeq([i \in 1 .. 3 |-> Huffman(AcTable, 240)])
                             \o Huffman(AcTable, 225) \o <<1>>

\* The blocks of an MCU: the cell of a luminance block, -1 for chrominance.
BlocksOf(cam, mcu) ==
  [k \in 1 .. cam.h * cam.v |->
     ((mcu \div cam.cols) * cam.v + (k - 1) \div cam.h) * (cam.cols * cam.h)
       + (mcu % cam.cols) * cam.h + ((k - 1) % cam.h)]
  \o (IF cam.colour THEN <<-1, -2>> ELSE <<>>)

\* The intervals between restart markers, as sequences of MCUs.
Intervals(cam) ==
  LET n == cam.cols * cam.rows
      size == IF cam.restart = 0 THEN n ELSE cam.restart
  IN  [i \in 1 .. (n + size - 1) \div size |->
         [k \in 1 .. (IF i * size > n THEN n - (i - 1) * size ELSE size) |->
            (i - 1) * size + k - 1]]

\* Chrominance carries 3 and -2 in every block.
LevelOf(picture, b) ==
  IF b >= 0 THEN picture[b] ELSE IF b = -1 THEN 3 ELSE -2

BlockBits(picture, detail, s, b) ==
  LET c == IF b >= 0 THEN 0 ELSE b
      level == LevelOf(picture, b)
  IN  [bits |-> s.bits \o DcBits(level - s.pred[c]) \o AcBits(detail),
       pred |-> [x \in DOMAIN s.pred |-> IF x = c THEN level ELSE s.pred[x]]]

Padded(bits) == bits \o [k \in 1 .. (-Len(bits)) % 8 |-> 1]
Bytes(bits) ==
  [k \in 1 .. Len(bits) \div 8 |->
     Each(LAMBDA v, b : 2 * v + b, 0, SubSeq(bits, 8 * k - 7, 8 * k))]
Stuffed(bytes) ==
  FlattenSeq([k \in DOMAIN bytes |->
                IF bytes[k] = 255 THEN <<255, 0>> ELSE <<bytes[k]>>])

IntervalBytes(cam, picture, detail, mcus) ==
  LET blocks == FlattenSeq([k \in DOMAIN mcus |-> BlocksOf(cam, mcus[k])])
      coded == Each(LAMBDA s, b : BlockBits(picture, detail, s, b),
                    [bits |-> <<>>, pred |-> [c \in {0, -1, -2} |-> 0]], blocks)
  IN  Stuffed(Bytes(Padded(coded.bits)))

\* The scan with its restart markers, and the end-of-image marker.
ScanBytes(cam, picture, detail) ==
  LET parts == Intervals(cam)
  IN  FlattenSeq([i \in DOMAIN parts |->
        IntervalBytes(cam, picture, detail, parts[i])
          \o (IF i < Len(parts) THEN <<255, 208 + ((i - 1) % 8)>> ELSE <<255, 217>>)])

\* The header in the order the sensor writes it.
Header(cam) ==
  LET comps == <<[h |-> cam.h, v |-> cam.v, qt |-> 0]>>
               \o (IF cam.colour THEN <<[h |-> 1, v |-> 1, qt |-> 1],
                                        [h |-> 1, v |-> 1, qt |-> 1]>> ELSE <<>>)
      table(class, t) == [kind |-> "dht", class |-> class, id |-> 0,
                          counts |-> t.counts, symbols |-> t.symbols]
  IN  <<[kind |-> "dqt", id |-> 0, q |-> cam.q],
        [kind |-> "dqt", id |-> 1, q |-> 17],
        [kind |-> "sof0", precision |-> 8, width |-> cam.cols * cam.h * 8,
         height |-> cam.rows * cam.v * 8, comps |-> comps],
        table("dc", DcTable), table("ac", AcTable),
        [kind |-> "dri", interval |-> cam.restart],
        [kind |-> "sos",
         scan |-> [k \in DOMAIN comps |-> [comp |-> k, dc |-> 0, ac |-> 0]]]>>

=============================================================================
