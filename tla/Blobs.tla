------------------------------- MODULE Blobs -------------------------------
(***************************************************************************)
(* The image operators of the motion detector: the difference mask, its    *)
(* dilation (motion_detect.c), the labelling of connected components by    *)
(* union-find with path halving (blob_finder.c), and the merging of blobs  *)
(* that are close (motion_detect.c).                                       *)
(*                                                                         *)
(* A mask of width w and height h is a function from the pixels            *)
(* 0 .. w * h - 1, row after row, to intensities; 0 is background.  A blob *)
(* is a bounding box with the area and the sum of the intensities in it.   *)
(***************************************************************************)
EXTENDS Integers, Sequences, SequencesExt, FiniteSets, Loops

CONSTANTS MaxLabels,   \* MAX_PROVISIONAL_LABELS; label 0 is the background
          MaxBlobs,    \* BLOB_MAX_COUNT
          MinArea,     \* MOTION_MIN_BLOB_AREA
          Margin,      \* MOTION_MERGE_MARGIN_PX
          Threshold    \* MOTION_DIFF_THRESHOLD

ASSUME BlobsAssumption ==
  /\ MaxLabels \in Nat \ {0} /\ MaxBlobs \in Nat \ {0}
  /\ MinArea \in Nat /\ Margin \in Nat /\ Threshold \in Nat

Upto(a, b) == IF a <= b THEN a ELSE b
Atleast(a, b) == IF a >= b THEN a ELSE b
Least(S) == CHOOSE x \in S : \A y \in S : x <= y
Greatest(S) == CHOOSE x \in S : \A y \in S : x >= y
Total(f) == FoldFunction(LAMBDA a, b : a + b, 0, f)
Distance(a, b) == IF a >= b THEN a - b ELSE b - a

---------------------------------------------------------------------------
(* Masks *)

DiffMask(a, b) ==
  [i \in DOMAIN a |->
     IF Distance(a[i], b[i]) > Threshold THEN Distance(a[i], b[i]) ELSE 0]

\* Pixels that share an edge with i.
Around(i, w, n) ==
  {j \in 0 .. n - 1 : \/ j = i - w \/ j = i + w
                      \/ j = i - 1 /\ i % w # 0
                      \/ j = i + 1 /\ j % w # 0}

Dilate(mask, w) ==
  [i \in DOMAIN mask |->
     Greatest({mask[j] : j \in {i} \cup Around(i, w, Cardinality(DOMAIN mask))})]

---------------------------------------------------------------------------
(* What the labelling is to find *)

Lit(mask) == {i \in DOMAIN mask : mask[i] # 0}

\* The connected components of the foreground: what is reached from a pixel by
\* as many steps as there are pixels.
Reached(near, i) ==
  Loop(LAMBDA c, k : c \cup UNION {near[j] : j \in c}, {i}, Cardinality(DOMAIN near))
Components(mask, w) ==
  LET near == [i \in Lit(mask) |->
                 Lit(mask) \cap Around(i, w, Cardinality(DOMAIN mask))]
  IN  {Reached(near, i) : i \in Lit(mask)}

---------------------------------------------------------------------------
(* Union-find.  parent[l] = l for a root; a parent is never larger. *)

\* The labels uf_find passes from a; each has its parent's parent when it is
\* left, and the last is the root.
Visited(parent, a) ==
  LET from[l \in DOMAIN parent] ==
        {l} \cup (IF parent[l] = l THEN {} ELSE from[parent[parent[l]]])
  IN  from[a]

RootOf(parent, a) == Least(Visited(parent, a))

Halved(parent, a) ==
  LET passed == Visited(parent, a)
  IN  [l \in DOMAIN parent |->
         IF l \in passed THEN parent[parent[l]] ELSE parent[l]]

Union(parent, a, b) ==
  LET ra == RootOf(parent, a)
      pa == Halved(parent, a)
      rb == RootOf(pa, b)
      pb == Halved(pa, b)
  IN  [l \in DOMAIN parent |->
         IF l = Atleast(ra, rb) THEN Upto(ra, rb) ELSE pb[l]]

---------------------------------------------------------------------------
(* Labelling *)

\* One pixel of the first pass: a new label, the only neighbour's, or the
\* smaller of two that are one component from now on.  If the table is full the
\* pixel is left out.
LabelPixel(s, mask, w, i) ==
  LET left == IF i % w # 0 THEN s.label[i - 1] ELSE 0
      up == IF i >= w THEN s.label[i - w] ELSE 0
      fresh == Len(s.parent) + 1
  IN  IF mask[i] = 0 THEN s
      ELSE IF left = 0 /\ up = 0
      THEN IF fresh >= MaxLabels THEN s
           ELSE [label |-> [s.label EXCEPT ![i] = fresh],
                 parent |-> Append(s.parent, fresh)]
      ELSE IF left # 0 /\ up # 0 /\ left # up
      THEN [label |-> [s.label EXCEPT ![i] = Upto(left, up)],
            parent |-> Union(s.parent, left, up)]
      ELSE [s EXCEPT !.label[i] = Atleast(left, up)]

Provisional(mask, w) ==
  LET n == Cardinality(DOMAIN mask)
      start == [label |-> [i \in 0 .. n - 1 |-> 0], parent |-> <<>>]
  IN  Loop(LAMBDA s, k : LabelPixel(s, mask, w, k - 1), start, n)

\* Mutant of Flattened: the parents stay as the unions have left them.
Unflattened(parent) == parent

\* uf_find for every label, in ascending order.
Flattened(parent) ==
  Loop(Halved, parent, Len(parent))

\* The pixels whose label has l for its parent after the flattening.
Component(s, l) ==
  LET flat == Flattened(s.parent)
  IN  {i \in DOMAIN s.label : s.label[i] # 0 /\ flat[s.label[i]] = l}

Roots(s) ==
  LET flat == Flattened(s.parent) IN {l \in DOMAIN flat : flat[l] = l}

---------------------------------------------------------------------------
(* Blobs *)

Describe(pixels, mask, w) ==
  LET xs == {i % w : i \in pixels}
      ys == {i \div w : i \in pixels}
  IN  [x |-> Least(xs), y |-> Least(ys),
       w |-> Greatest(xs) - Least(xs) + 1, h |-> Greatest(ys) - Least(ys) + 1,
       area |-> Cardinality(pixels), sum |-> Total([i \in pixels |-> mask[i]])]

\* A blob takes a free place, or that of the first smallest one if it is larger.
Collect(kept, b) ==
  LET smallest == Least({i \in DOMAIN kept :
                           \A j \in DOMAIN kept : kept[i].area <= kept[j].area})
  IN  IF b.area < MinArea THEN kept
      ELSE IF Len(kept) < MaxBlobs THEN Append(kept, b)
      ELSE IF b.area > kept[smallest].area THEN [kept EXCEPT ![smallest] = b]
      ELSE kept

\* Largest first; of two of one size the one collected first.
ByArea(kept) ==
  LET rank(i) == Cardinality({j \in DOMAIN kept :
                   \/ kept[j].area > kept[i].area
                   \/ kept[j].area = kept[i].area /\ j <= i})
  IN  [k \in DOMAIN kept |-> kept[CHOOSE i \in DOMAIN kept : rank(i) = k]]

FindBlobs(mask, w) ==
  LET s == Provisional(mask, w)
      roots == Roots(s)
  IN  ByArea(Loop(LAMBDA kept, l :
                    IF l \in roots
                    THEN Collect(kept, Describe(Component(s, l), mask, w))
                    ELSE kept,
                  <<>>, Len(s.parent)))

\* The blobs found are the boxes of connected components that are large enough,
\* one each, largest first: all of them or, if more than fit, ones no smaller
\* than those left out.  Pixels are left out when there are no labels any more.
FindsComponents(mask, w) ==
  LET found == FindBlobs(mask, w)
      large == {c \in Components(mask, w) : Cardinality(c) >= MinArea}
  IN  Len(Provisional(mask, w).parent) + 1 < MaxLabels =>
      \E of \in [DOMAIN found -> large] :
        /\ \A j, k \in DOMAIN found : of[j] = of[k] => j = k
        /\ \A k \in DOMAIN found : found[k] = Describe(of[k], mask, w)
        /\ Len(found) = Upto(MaxBlobs, Cardinality(large))
        /\ \A c \in large : (\A k \in DOMAIN found : of[k] # c)
                              => \A k \in DOMAIN found : Cardinality(c) <= found[k].area
        /\ \A j, k \in DOMAIN found : j < k => found[j].area >= found[k].area

---------------------------------------------------------------------------
(* Merging *)

Gap(a1, a2, b1, b2) ==
  IF a1 > b2 THEN a1 - b2 ELSE IF b1 > a2 THEN b1 - a2 ELSE 0

Close(a, b) ==
  /\ Gap(a.x, a.x + a.w - 1, b.x, b.x + b.w - 1) <= Margin
  /\ Gap(a.y, a.y + a.h - 1, b.y, b.y + b.h - 1) <= Margin

Hull(a, b) ==
  LET x1 == Upto(a.x, b.x)
      y1 == Upto(a.y, b.y)
  IN  [x |-> x1, y |-> y1,
       w |-> Atleast(a.x + a.w, b.x + b.w) - x1,
       h |-> Atleast(a.y + a.h, b.y + b.h) - y1,
       area |-> a.area + b.area, sum |-> a.sum + b.sum]

\* Blob j goes into blob i, and the last one takes its place.
Absorb(bs, i, j) ==
  LET n == Len(bs)
  IN  [k \in 1 .. n - 1 |->
         IF k = i THEN Hull(bs[i], bs[j]) ELSE IF k = j THEN bs[n] ELSE bs[k]]

\* One turn of the inner loop: after an absorption place j is looked at again.
Turn(s, i) ==
  IF s.j > Len(s.bs) THEN s
  ELSE IF Close(s.bs[i], s.bs[s.j])
  THEN [bs |-> Absorb(s.bs, i, s.j), j |-> s.j]
  ELSE [s EXCEPT !.j = @ + 1]

\* The inner loop for blob i, the loop over i, and that until nothing merges:
\* every turn but the last leaves one blob less.
Inner(bs, i) ==
  Loop(LAMBDA s, k : Turn(s, i), [bs |-> bs, j |-> i + 1], Len(bs)).bs
Sweep(bs) ==
  Loop(LAMBDA r, i : IF i < Len(r) THEN Inner(r, i) ELSE r, bs, Len(bs))

\* Mutant of MergeClose: the loops run once, although a box may have grown.
MergeCloseOnce(bs) == Sweep(bs)

MergeClose(bs) == Loop(LAMBDA r, k : Sweep(r), bs, Len(bs))

=============================================================================
