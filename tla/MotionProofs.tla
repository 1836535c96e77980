---------------------------- MODULE MotionProofs ----------------------------
(***************************************************************************)
(* Proofs about the motion detector, for any camera, any frames and any    *)
(* thresholds: that the blob finder finds the connected components, for    *)
(* any mask of any size and any limits (blob_finder.c); that merging close *)
(* blobs gives the finest division into groups that are apart, for any     *)
(* list of blobs (motion_detect.c); about the tracker, for any blobs; then *)
(* that what the decoder, the blob finder and the merging give is          *)
(* something the tracker is made for, so that the detector is the tracker  *)
(* and all that is proved of one holds of the other; and that what the     *)
(* decoder makes of a frame of the camera's is what the camera meant.      *)
(*                                                                         *)
(* The blob finder: the parent table is a forest in which no parent is     *)
(* larger than its label, and neither path halving nor flattening changes  *)
(* a root; after each pixel of the first pass, neighbours seen so far have *)
(* one root and pixels with one root are connected; so the roots after the *)
(* pass are the components; and collecting them keeps the largest, one     *)
(* place each.                                                             *)
(*                                                                         *)
(* Merging: a pass that absorbs nothing has found no close pair, and each  *)
(* other pass makes the list shorter, so as many passes as there are blobs *)
(* leave none that are close.  Each box is the hull of a group of blobs;   *)
(* close groups lie in one group of every division that is apart, because  *)
(* larger boxes are no further from each other.                            *)
(*                                                                         *)
(* That two live tracks share an identifier only after a wrap rests on two *)
(* facts about the identifiers given out after a track's own: while they   *)
(* are fewer than there are identifiers, they say how far the counter is   *)
(* ahead of the track's own identifier, and no two tracks have the same    *)
(* number of them.                                                         *)
(***************************************************************************)
EXTENDS MotionDetect, JpegProofs

-----------------------------------------------------------------------------
(* Union-find *)

\* The tables union-find works on.
Forest == {p \in Seq(Nat) : \A l \in DOMAIN p : p[l] \in 1 .. l}

\* What it means that no parent is larger than its label.
LEMMA ForestFacts ==
  ASSUME NEW p \in Forest
  PROVE  /\ Len(p) \in Nat /\ DOMAIN p = 1 .. Len(p)
         /\ \A l \in DOMAIN p : /\ l \in Nat /\ p[l] \in DOMAIN p /\ p[l] <= l /\ p[l] \in 1 .. l
                                /\ p[p[l]] \in DOMAIN p /\ p[p[l]] <= p[l]
<1>1. Len(p) \in Nat /\ DOMAIN p = 1 .. Len(p) /\ \A l \in DOMAIN p : p[l] \in 1 .. l
  BY DEF Forest
<1>2. \A l \in DOMAIN p : l \in Nat /\ p[l] \in DOMAIN p /\ p[l] <= l
  BY <1>1
<1> QED
  BY <1>1, <1>2

\* The recursive function of Visited exists.
LEMMA VisitedIs ==
  ASSUME NEW p \in Forest, NEW a \in DOMAIN p
  PROVE  Visited(p, a) = {a} \cup (IF p[a] = a THEN {} ELSE Visited(p, p[p[a]]))
<1> DEFINE n == Len(p)
           Step(f, l) == {l} \cup (IF p[l] = l THEN {} ELSE f[p[p[l]]])
           S == {m \in Nat : m <= n => \E f : /\ DOMAIN f = 1 .. m
                                              /\ \A l \in 1 .. m : f[l] = Step(f, l)}
           from == CHOOSE f : f = [l \in DOMAIN p |-> Step(f, l)]
<1>1. 0 \in S
  <2>1. DOMAIN [l \in 1 .. 0 |-> 0] = 1 .. 0
    OBVIOUS
  <2> QED
    BY <2>1
<1>2. ASSUME NEW m \in Nat, m \in S PROVE m + 1 \in S
  <2> SUFFICES ASSUME m + 1 <= n
               PROVE  \E f : DOMAIN f = 1 .. m + 1 /\ \A l \in 1 .. m + 1 : f[l] = Step(f, l)
    OBVIOUS
  <2>1. PICK f : DOMAIN f = 1 .. m /\ \A l \in 1 .. m : f[l] = Step(f, l)
    BY <1>2
  <2> DEFINE g == [l \in 1 .. m + 1 |-> IF l = m + 1 THEN Step(f, m + 1) ELSE f[l]]
  <2>2. ASSUME NEW l \in 1 .. m + 1 PROVE g[l] = Step(g, l)
    <3>1. g[l] = Step(f, l)
      <4>1. CASE l = m + 1
        BY <4>1
      <4>2. CASE l \in 1 .. m
        BY <2>1, <4>2
      <4> QED
        BY <4>1, <4>2
    <3>2. l \in DOMAIN p
      BY ForestFacts
    <3>3. CASE p[l] # l
      <4>1. p[p[l]] \in 1 .. m
        BY <3>2, <3>3, ForestFacts
      <4>2. g[p[p[l]]] = f[p[p[l]]]
        BY <4>1
      <4> QED
        BY <3>1, <4>2
    <3> QED
      BY <3>1, <3>3
  <2> HIDE DEF g, Step
  <2>3. DOMAIN g = 1 .. m + 1
    BY DEF g
  <2> QED
    BY <2>2, <2>3
<1> HIDE DEF S
<1>3. n \in S
  BY <1>1, <1>2, Induction, ForestFacts
<1>4. PICK f : DOMAIN f = 1 .. n /\ \A l \in 1 .. n : f[l] = Step(f, l)
  BY <1>3, ForestFacts DEF S
<1>5. \E g : g = [l \in DOMAIN p |-> Step(g, l)]
  <2> DEFINE g == [l \in DOMAIN p |-> f[l]]
  <2>1. ASSUME NEW l \in DOMAIN p PROVE g[l] = Step(g, l)
    <3>1. g[l] = f[l] /\ g[p[p[l]]] = f[p[p[l]]]
      BY ForestFacts
    <3> QED
      BY <1>4, <3>1, ForestFacts
  <2> HIDE DEF Step
  <2>2. g = [l \in DOMAIN p |-> Step(g, l)]
    BY <2>1
  <2> QED
    BY <2>2
<1>6. from = [l \in DOMAIN p |-> Step(from, l)]
  BY <1>5
<1>7. \A l \in DOMAIN p : Visited(p, l) = from[l]
  BY DEF Visited
<1> HIDE DEF from
<1>8. p[p[a]] \in DOMAIN p
  BY ForestFacts
<1> QED
  BY <1>6, <1>7, <1>8

\* What uf_find passes are smaller and smaller labels, and the last is a root.
LEMMA VisitedFacts ==
  ASSUME NEW p \in Forest, NEW a \in DOMAIN p
  PROVE  /\ Visited(p, a) \subseteq 1 .. a
         /\ \E x \in Visited(p, a) : p[x] = x /\ \A y \in Visited(p, a) : x <= y
<1> DEFINE Good(b) == /\ Visited(p, b) \subseteq 1 .. b
                      /\ \E x \in Visited(p, b) :
                           p[x] = x /\ \A y \in Visited(p, b) : x <= y
           S == {b \in Nat : b \in DOMAIN p => Good(b)}
<1>1. ASSUME NEW b \in Nat, \A m \in Nat : m < b => m \in S PROVE b \in S
  <2> SUFFICES ASSUME b \in DOMAIN p PROVE Good(b)
    OBVIOUS
  <2>1. Visited(p, b) = {b} \cup (IF p[b] = b THEN {} ELSE Visited(p, p[p[b]]))
    BY VisitedIs
  <2>2. b \in 1 .. b
    BY ForestFacts
  <2>3. CASE p[b] = b
    <3>1. Visited(p, b) = {b}
      BY <2>1, <2>3
    <3> QED
      BY <2>2, <2>3, <3>1
  <2>4. CASE p[b] # b
    <3> DEFINE c == p[p[b]]
    <3>1. c \in DOMAIN p /\ c \in Nat /\ c < b
      BY <2>4, ForestFacts
    <3>2. c \in S
      BY <1>1, <3>1
    <3>3. Good(c)
      BY <3>1, <3>2
    <3>4. Visited(p, b) = {b} \cup Visited(p, c)
      BY <2>1, <2>4
    <3> HIDE DEF c
    <3>5. PICK x \in Visited(p, c) : p[x] = x /\ \A y \in Visited(p, c) : x <= y
      BY <3>3
    <3>6. x \in 1 .. c
      BY <3>3
    <3>7. x <= b
      BY <3>1, <3>6
    <3>8. Visited(p, b) \subseteq 1 .. b
      BY <2>2, <3>1, <3>3, <3>4
    <3>9. \A y \in Visited(p, b) : x <= y
      BY <3>4, <3>5, <3>7
    <3> QED
      BY <3>4, <3>5, <3>8, <3>9
  <2> QED
    BY <2>3, <2>4
<1> HIDE DEF S
<1>2. \A b \in Nat : b \in S
  BY <1>1, StrongInduction
<1>3. a \in Nat /\ a \in S
  BY <1>2, ForestFacts
<1> QED
  BY <1>3 DEF S

\* A smallest element is the one Least chooses.
LEMMA LeastIs ==
  ASSUME NEW S, S \subseteq Int, NEW x \in S, \A y \in S : x <= y
  PROVE  Least(S) = x
<1>1. Least(S) \in S /\ \A y \in S : Least(S) <= y
  BY DEF Least
<1>2. Least(S) <= x /\ x <= Least(S) /\ Least(S) \in Int /\ x \in Int
  BY <1>1
<1> QED
  BY <1>2

\* uf_find returns a root, and the one it returns from two labels up.
LEMMA RootStep ==
  ASSUME NEW p \in Forest, NEW a \in DOMAIN p
  PROVE  /\ RootOf(p, a) \in 1 .. a /\ RootOf(p, a) \in DOMAIN p
         /\ p[RootOf(p, a)] = RootOf(p, a)
         /\ p[a] = a => RootOf(p, a) = a
         /\ p[a] # a => RootOf(p, a) = RootOf(p, p[p[a]])
<1>1. PICK x \in Visited(p, a) : p[x] = x /\ \A y \in Visited(p, a) : x <= y
  BY VisitedFacts
<1>2. Visited(p, a) \subseteq 1 .. a
  BY VisitedFacts
<1>3. RootOf(p, a) = x
  BY <1>1, <1>2, LeastIs DEF RootOf
<1>4. x \in 1 .. a /\ x \in DOMAIN p
  BY <1>2, ForestFacts
<1>5. CASE p[a] = a
  <2>1. Visited(p, a) = {a}
    BY <1>5, VisitedIs
  <2> QED
    BY <1>1, <1>3, <1>4, <1>5, <2>1
<1>6. CASE p[a] # a
  <2> DEFINE b == p[p[a]]
  <2>1. b \in DOMAIN p /\ b < a /\ b \in Nat
    BY <1>6, ForestFacts
  <2>2. Visited(p, a) = {a} \cup Visited(p, b)
    BY <1>6, VisitedIs
  <2> HIDE DEF b
  <2>3. Visited(p, b) \subseteq 1 .. b
    BY <2>1, VisitedFacts
  <2>4. PICK z \in Visited(p, b) : \A y \in Visited(p, b) : z <= y
    BY <2>1, VisitedFacts
  <2>5. z \in Visited(p, a) /\ z <= b
    BY <2>2, <2>3, <2>4
  <2>6. x # a
    <3>1. x <= z
      BY <1>1, <2>5
    <3>2. x \in Nat /\ z \in Nat /\ a \in Nat /\ b \in Nat /\ b < a
      BY <1>4, <2>1, <2>3, <2>4, ForestFacts
    <3> QED
      BY <2>5, <3>1, <3>2
  <2>7. x \in Visited(p, b)
    BY <1>1, <2>2, <2>6
  <2>8. Visited(p, b) \subseteq Int
    BY <2>3
  <2>9. RootOf(p, b) = x
    BY <1>1, <2>2, <2>7, <2>8, LeastIs DEF RootOf
  <2> QED
    BY <1>1, <1>3, <1>4, <1>6, <2>9 DEF b
<1> QED
  BY <1>5, <1>6

\* A label has the root of its parent.
LEMMA RootOfParent ==
  ASSUME NEW p \in Forest, NEW a \in DOMAIN p
  PROVE  RootOf(p, a) = RootOf(p, p[a])
<1> DEFINE S == {b \in Nat : b \in DOMAIN p => RootOf(p, b) = RootOf(p, p[b])}
<1>1. ASSUME NEW b \in Nat, \A m \in Nat : m < b => m \in S PROVE b \in S
  <2> SUFFICES ASSUME b \in DOMAIN p, p[b] # b PROVE RootOf(p, b) = RootOf(p, p[b])
    OBVIOUS
  <2> DEFINE c == p[b]
             d == p[c]
  <2>1. /\ c \in DOMAIN p /\ d \in DOMAIN p /\ c \in Nat /\ d \in Nat
        /\ c < b /\ d < b
    BY ForestFacts
  <2>2. RootOf(p, b) = RootOf(p, d)
    BY RootStep
  <2>3. CASE d = c
    BY <2>2, <2>3
  <2>4. CASE d # c
    <3>1. RootOf(p, c) = RootOf(p, p[d])
      BY <2>1, <2>4, RootStep
    <3>2. d \in S
      BY <1>1, <2>1
    <3>3. RootOf(p, d) = RootOf(p, p[d])
      BY <2>1, <3>2
    <3> QED
      BY <2>2, <3>1, <3>3
  <2> QED
    BY <2>3, <2>4
<1> HIDE DEF S
<1>2. \A b \in Nat : b \in S
  BY <1>1, StrongInduction
<1>3. a \in Nat /\ a \in S
  BY <1>2, ForestFacts
<1> QED
  BY <1>3 DEF S

\* The roots are known by what they are for roots and for the others' parents.
LEMMA RootsUnique ==
  ASSUME NEW p \in Forest, NEW r,
         \A l \in DOMAIN p : r[l] = IF p[l] = l THEN l ELSE r[p[l]]
  PROVE  \A l \in DOMAIN p : r[l] = RootOf(p, l)
<1> DEFINE S == {b \in Nat : b \in DOMAIN p => r[b] = RootOf(p, b)}
<1>1. ASSUME NEW b \in Nat, \A m \in Nat : m < b => m \in S PROVE b \in S
  <2> SUFFICES ASSUME b \in DOMAIN p PROVE r[b] = RootOf(p, b)
    OBVIOUS
  <2>1. CASE p[b] = b
    BY <2>1, RootStep
  <2>2. CASE p[b] # b
    <3>1. p[b] \in DOMAIN p /\ p[b] \in Nat /\ p[b] < b
      BY <2>2, ForestFacts
    <3>2. p[b] \in S
      BY <1>1, <3>1
    <3>3. r[p[b]] = RootOf(p, p[b])
      BY <3>1, <3>2
    <3> QED
      BY <2>2, <3>3, RootOfParent
  <2> QED
    BY <2>1, <2>2
<1> HIDE DEF S
<1>2. \A b \in Nat : b \in S
  BY <1>1, StrongInduction
<1>3. \A l \in DOMAIN p : l \in Nat
  BY ForestFacts
<1> QED
  BY <1>2, <1>3 DEF S

\* Path halving changes no root.
THEOREM HalvedKeeps ==
  ASSUME NEW p \in Forest, NEW a \in DOMAIN p
  PROVE  /\ Halved(p, a) \in Forest /\ DOMAIN Halved(p, a) = DOMAIN p
         /\ \A l \in DOMAIN p : RootOf(Halved(p, a), l) = RootOf(p, l)
<1> DEFINE q == Halved(p, a)
           r == [l \in DOMAIN p |-> RootOf(p, l)]
<1>1. q = [l \in DOMAIN p |-> IF l \in Visited(p, a) THEN p[p[l]] ELSE p[l]]
  BY DEF Halved
<1> HIDE DEF q
<1>2. ASSUME NEW l \in DOMAIN p
      PROVE  q[l] \in {p[l], p[p[l]]} /\ q[l] \in 1 .. l /\ q[l] \in DOMAIN p
  <2>1. q[l] \in {p[l], p[p[l]]}
    BY <1>1
  <2> QED
    BY <2>1, ForestFacts
<1>3. q \in Forest /\ DOMAIN q = DOMAIN p
  <2>1. DOMAIN q = 1 .. Len(p) /\ DOMAIN q = DOMAIN p /\ Len(p) \in Nat
    BY <1>1, ForestFacts
  <2>2. \A l \in DOMAIN q : q[l] \in Nat
    BY <1>2, <2>1
  <2>3. q \in [1 .. Len(p) -> Nat]
    BY <1>1, <2>1, <2>2
  <2>4. q \in Seq(Nat)
    BY <2>1, <2>3
  <2> QED
    BY <1>2, <2>1, <2>4 DEF Forest
<1>4. ASSUME NEW l \in DOMAIN q PROVE r[l] = IF q[l] = l THEN l ELSE r[q[l]]
  <2>1. l \in DOMAIN p /\ p[l] \in DOMAIN p /\ p[p[l]] \in DOMAIN p
    BY <1>3, ForestFacts
  <2>2. RootOf(p, l) = RootOf(p, p[l]) /\ RootOf(p, p[l]) = RootOf(p, p[p[l]])
    BY <2>1, RootOfParent
  <2>3. r[l] = r[q[l]]
    BY <1>2, <2>1, <2>2
  <2>4. q[l] = l => p[l] = l
    BY <1>2, <2>1, ForestFacts
  <2>5. p[l] = l => r[l] = l
    BY <2>1, RootStep
  <2> QED
    BY <2>3, <2>4, <2>5
<1> HIDE DEF r
<1>5. \A l \in DOMAIN q : r[l] = RootOf(q, l)
  BY <1>3, <1>4, RootsUnique
<1> QED
  BY <1>3, <1>5 DEF q, r

\* The smaller and the larger of two numbers.
LEMMA UptoAtleast ==
  ASSUME NEW a \in Int, NEW b \in Int
  PROVE  /\ Upto(a, b) \in {a, b} /\ Atleast(a, b) \in {a, b}
         /\ Upto(a, b) <= a /\ Upto(a, b) <= b /\ a <= Atleast(a, b) /\ b <= Atleast(a, b)
         /\ {Upto(a, b), Atleast(a, b)} = {a, b}
  BY DEF Upto, Atleast

\* uf_union makes one class of two, with the smaller of their roots, and leaves
\* the others alone.
THEOREM UnionMerges ==
  ASSUME NEW p \in Forest, NEW a \in DOMAIN p, NEW b \in DOMAIN p
  PROVE  /\ Union(p, a, b) \in Forest /\ DOMAIN Union(p, a, b) = DOMAIN p
         /\ \A l \in DOMAIN p :
              RootOf(Union(p, a, b), l) =
                IF RootOf(p, l) \in {RootOf(p, a), RootOf(p, b)}
                THEN Upto(RootOf(p, a), RootOf(p, b)) ELSE RootOf(p, l)
<1> DEFINE pa == Halved(p, a)
           pb == Halved(pa, b)
           ra == RootOf(p, a)
           rb == RootOf(p, b)
           lo == Upto(ra, rb)
           hi == Atleast(ra, rb)
           q == Union(p, a, b)
           r == [l \in DOMAIN p |-> IF RootOf(p, l) \in {ra, rb} THEN lo ELSE RootOf(p, l)]
<1>1. /\ pa \in Forest /\ DOMAIN pa = DOMAIN p
      /\ \A l \in DOMAIN p : RootOf(pa, l) = RootOf(p, l)
  BY HalvedKeeps
<1>2. /\ pb \in Forest /\ DOMAIN pb = DOMAIN p
      /\ \A l \in DOMAIN p : RootOf(pb, l) = RootOf(p, l)
  <2> HIDE DEF pa
  <2> QED
    BY <1>1, HalvedKeeps
<1>3. q = [l \in DOMAIN p |-> IF l = hi THEN lo ELSE pb[l]]
  BY <1>1 DEF Union
<1>4. /\ ra \in DOMAIN p /\ rb \in DOMAIN p /\ pb[ra] = ra /\ pb[rb] = rb
      /\ RootOf(p, ra) = ra /\ RootOf(p, rb) = rb
  <2>1. ra \in DOMAIN p /\ rb \in DOMAIN p
    BY RootStep
  <2>2. ra = RootOf(pb, a) /\ rb = RootOf(pb, b)
    BY <1>2
  <2> HIDE DEF pb, ra, rb
  <2>3. pb[ra] = ra /\ pb[rb] = rb
    BY <1>2, <2>2, RootStep
  <2>4. RootOf(pb, ra) = ra /\ RootOf(pb, rb) = rb
    BY <1>2, <2>1, <2>3, RootStep
  <2> QED
    BY <1>2, <2>1, <2>3, <2>4
<1> HIDE DEF q, pb, ra, rb
<1>5. /\ lo \in {ra, rb} /\ hi \in {ra, rb} /\ lo <= hi /\ {lo, hi} = {ra, rb}
      /\ lo \in Nat /\ hi \in Nat
  <2>1. ra \in Int /\ rb \in Int /\ ra \in Nat /\ rb \in Nat
    BY <1>4, ForestFacts
  <2>2. /\ lo \in {ra, rb} /\ hi \in {ra, rb} /\ lo <= ra /\ ra <= hi /\ {lo, hi} = {ra, rb}
    BY <2>1, UptoAtleast
  <2> HIDE DEF lo, hi
  <2>3. lo \in Nat /\ hi \in Nat
    BY <2>1, <2>2
  <2> QED
    BY <2>1, <2>2, <2>3
<1> HIDE DEF lo, hi
<1>6. /\ lo \in DOMAIN p /\ hi \in DOMAIN p /\ pb[lo] = lo /\ pb[hi] = hi
      /\ RootOf(p, lo) = lo /\ RootOf(p, hi) = hi
  BY <1>4, <1>5
<1>7. \A l \in DOMAIN p : q[l] \in 1 .. l /\ q[l] \in DOMAIN p
  <2> SUFFICES ASSUME NEW l \in DOMAIN p PROVE q[l] \in 1 .. l /\ q[l] \in DOMAIN p
    OBVIOUS
  <2>1. CASE l = hi
    <3>1. q[l] = lo
      BY <1>3, <2>1
    <3>2. DOMAIN p = 1 .. Len(p) /\ Len(p) \in Nat
      BY ForestFacts
    <3>3. lo \in Nat /\ 1 <= lo /\ lo <= l /\ l \in Nat
      BY <1>5, <1>6, <2>1, <3>2
    <3>4. lo \in 1 .. l
      BY <3>3
    <3> QED
      BY <1>6, <3>1, <3>4, Zenon
  <2>2. CASE l # hi
    <3>1. q[l] = pb[l]
      BY <1>3, <2>2
    <3>2. pb[l] \in 1 .. l /\ pb[l] \in DOMAIN pb
      BY <1>2, ForestFacts
    <3> QED
      BY <1>2, <3>1, <3>2
  <2> QED
    BY <2>1, <2>2
<1>8. q \in Forest /\ DOMAIN q = DOMAIN p
  <2>1. DOMAIN q = 1 .. Len(p) /\ DOMAIN q = DOMAIN p /\ Len(p) \in Nat
    BY <1>3, ForestFacts
  <2>2. q \in [1 .. Len(p) -> Nat]
    BY <1>3, <1>7, <2>1
  <2>3. q \in Seq(Nat)
    BY <2>1, <2>2
  <2> QED
    BY <1>7, <2>1, <2>3 DEF Forest
<1>9. ASSUME NEW l \in DOMAIN q PROVE r[l] = IF q[l] = l THEN l ELSE r[q[l]]
  <2>1. l \in DOMAIN p /\ l \in DOMAIN pb /\ pb[l] \in DOMAIN p
    BY <1>2, <1>8, ForestFacts
  <2>2. CASE l = hi
    <3>1. q[l] = lo /\ r[l] = lo /\ r[lo] = lo
      BY <1>3, <1>5, <1>6, <2>1, <2>2
    <3> QED
      BY <2>2, <3>1
  <2>3. CASE l # hi
    <3>1. q[l] = pb[l]
      BY <1>3, <2>1, <2>3
    <3>2. CASE pb[l] = l
      <4>1. RootOf(p, l) = l
        BY <1>2, <2>1, <3>2, RootStep
      <4>2. r[l] = l
        BY <1>5, <2>1, <2>3, <4>1
      <4> QED
        BY <3>1, <3>2, <4>2
    <3>3. CASE pb[l] # l
      <4>1. RootOf(pb, l) = RootOf(pb, pb[l])
        BY <1>2, <2>1, RootOfParent
      <4>2. RootOf(p, l) = RootOf(p, pb[l])
        BY <1>2, <2>1, <4>1
      <4> QED
        BY <2>1, <3>1, <3>3, <4>2
    <3> QED
      BY <3>2, <3>3
  <2> QED
    BY <2>2, <2>3
<1>10. \A l \in DOMAIN q : r[l] = RootOf(q, l)
  <2> HIDE DEF r
  <2> QED
    BY <1>8, <1>9, RootsUnique
<1> QED
  BY <1>8, <1>10 DEF q, ra, rb, lo

\* uf_find for every label in turn leaves each label with its root for parent.
THEOREM FlattenedIs ==
  ASSUME NEW p \in Forest
  PROVE  /\ DOMAIN Flattened(p) = DOMAIN p
         /\ \A l \in DOMAIN p : Flattened(p)[l] = RootOf(p, l)
<1> DEFINE n == Len(p)
           Def(a) == [k \in 0 .. n |-> IF k = 0 THEN p ELSE Halved(a[k - 1], k)]
           T == {q \in Forest : /\ DOMAIN q = DOMAIN p
                                /\ \A l \in DOMAIN p : RootOf(q, l) = RootOf(p, l)}
           F == [x \in T \X (1 .. n) |-> Halved(x[1], x[2])]
           A == CHOOSE a : a = Def(a)
           Done(k) == {q \in T : \A l \in 1 .. k : q[l] = RootOf(p, l)}
<1>0. n \in Nat /\ DOMAIN p = 1 .. n
  BY ForestFacts
<1> HIDE DEF n
<1>1. ASSUME NEW q \in T, NEW k \in 1 .. n PROVE Halved(q, k) \in T
  BY <1>0, HalvedKeeps
<1>2. F \in [T \X (1 .. n) -> T] /\ p \in T
  BY <1>1
<1>3. PICK a : IsRun(a, T, p, n, F)
  <2> HIDE DEF F, T
  <2> QED
    BY <1>0, <1>2, LoopRuns
<1>4. a = Def(a)
  <2>1. ASSUME NEW k \in 1 .. n PROVE a[k] = Halved(a[k - 1], k)
    <3>1. <<a[k - 1], k>> \in T \X (1 .. n)
      <4>1. k - 1 \in 0 .. n
        BY <1>0
      <4> HIDE DEF T
      <4> QED
        BY <1>3, <4>1 DEF IsRun
    <3>2. a[k] = F[<<a[k - 1], k>>]
      BY <1>3 DEF IsRun
    <3> HIDE DEF T
    <3> QED
      BY <3>1, <3>2
  <2> HIDE DEF F, T
  <2> QED
    BY <1>0, <1>3, <2>1 DEF IsRun
<1>5. A = Def(A)
  BY <1>4
<1> HIDE DEF A, F
<1>6. A[0] = p /\ \A k \in 1 .. n : A[k] = Halved(A[k - 1], k)
  BY <1>0, <1>5
<1>7. A[n] \in Done(n)
  <2> DEFINE S == {k \in Nat : k <= n => A[k] \in Done(k)}
  <2>1. 0 \in S
    BY <1>2, <1>6
  <2>2. ASSUME NEW k \in Nat, k \in S PROVE k + 1 \in S
    <3> SUFFICES ASSUME k + 1 <= n PROVE A[k + 1] \in Done(k + 1)
      OBVIOUS
    <3> DEFINE q == A[k]
               h == A[k + 1]
    <3>1. q \in Done(k)
      BY <1>0, <2>2
    <3>2. k + 1 \in 1 .. n /\ (k + 1) - 1 = k /\ k + 1 \in DOMAIN p
      BY <1>0
    <3>3. h = Halved(q, k + 1)
      BY <1>6, <3>2
    <3> HIDE DEF q, h
    <3>4. q \in Forest /\ DOMAIN q = DOMAIN p
      BY <3>1
    <3>5. h \in T
      BY <1>1, <3>1, <3>2, <3>3
    <3>6. h = [l \in DOMAIN q |-> IF l \in Visited(q, k + 1) THEN q[q[l]] ELSE q[l]]
      BY <3>3 DEF Halved
    <3>7. \A l \in 1 .. k : q[l] = RootOf(p, l)
      BY <3>1
    <3>8. ASSUME NEW l \in 1 .. k PROVE h[l] = RootOf(p, l)
      <4>1. l \in DOMAIN p /\ RootOf(p, l) \in 1 .. l
        BY <1>0, <3>2, RootStep
      <4>2. RootOf(p, l) \in 1 .. k /\ q[q[l]] = RootOf(p, RootOf(p, l))
        BY <3>7, <4>1
      <4>3. RootOf(p, RootOf(p, l)) = RootOf(p, l)
        BY <4>1, RootStep
      <4> QED
        BY <3>4, <3>6, <3>7, <4>1, <4>2, <4>3
    <3>9. h[k + 1] = RootOf(p, k + 1)
      <4> DEFINE m == k + 1
      <4>1. m \in Visited(q, m)
        BY <3>2, <3>4, VisitedIs
      <4>2. h[m] = q[q[m]]
        BY <3>2, <3>4, <3>6, <4>1
      <4>3. CASE q[m] = m
        <5>1. RootOf(q, m) = m
          BY <3>2, <3>4, <4>3, RootStep
        <5> QED
          BY <3>1, <3>2, <4>2, <4>3, <5>1
      <4>4. CASE q[m] # m
        <5>1. q[m] \in 1 .. k /\ q[m] \in DOMAIN p
          <6>1. q[m] \in 1 .. m /\ q[m] \in DOMAIN q
            BY <3>2, <3>4, ForestFacts
          <6> QED
            BY <3>4, <4>4, <6>1
        <5>2. q[q[m]] = RootOf(p, q[m])
          BY <3>7, <5>1
        <5>3. RootOf(p, q[m]) = RootOf(q, q[m])
          BY <3>1, <5>1
        <5>4. RootOf(q, q[m]) = RootOf(q, m)
          BY <3>2, <3>4, RootOfParent
        <5>5. RootOf(q, m) = RootOf(p, m)
          BY <3>1, <3>2
        <5> QED
          BY <4>2, <5>2, <5>3, <5>4, <5>5
      <4> QED
        BY <4>3, <4>4
    <3>10. \A l \in 1 .. k + 1 : h[l] = RootOf(p, l)
      BY <3>8, <3>9
    <3> QED
      BY <3>5, <3>10 DEF h
  <2> HIDE DEF S
  <2>3. n \in S
    BY <1>0, <2>1, <2>2, Induction
  <2> QED
    BY <1>0, <2>3 DEF S
<1>8. Flattened(p) = A[n]
  BY DEF Flattened, Loop, A, n
<1> QED
  BY <1>0, <1>7, <1>8

\* A new label is a root, and the others keep theirs.
LEMMA AppendKeeps ==
  ASSUME NEW p \in Forest, NEW f, f = Len(p) + 1
  PROVE  /\ Append(p, f) \in Forest /\ DOMAIN Append(p, f) = 1 .. f
         /\ Len(Append(p, f)) = f
         /\ \A l \in DOMAIN p : RootOf(Append(p, f), l) = RootOf(p, l)
         /\ RootOf(Append(p, f), f) = f
<1> DEFINE q == Append(p, f)
           r == [l \in 1 .. f |-> IF l = f THEN f ELSE RootOf(p, l)]
<1>1. p \in Seq(Nat) /\ Len(p) \in Nat /\ DOMAIN p = 1 .. Len(p) /\ f \in Nat
  BY ForestFacts DEF Forest
<1>2. q \in Seq(Nat) /\ Len(q) = f /\ DOMAIN q = 1 .. f /\ q[f] = f
      /\ \A l \in 1 .. Len(p) : q[l] = p[l]
  BY <1>1
<1> HIDE DEF q
<1>3. \A l \in DOMAIN q : q[l] \in 1 .. l
  <2>1. \A l \in DOMAIN q : l = f \/ l \in DOMAIN p
    BY <1>1, <1>2
  <2> QED
    BY <1>1, <1>2, <2>1, ForestFacts
<1>4. q \in Forest
  BY <1>2, <1>3 DEF Forest
<1>5. ASSUME NEW l \in DOMAIN q PROVE r[l] = IF q[l] = l THEN l ELSE r[q[l]]
  <2>1. CASE l = f
    BY <1>2, <2>1
  <2>2. CASE l \in DOMAIN p
    <3>1. p[l] \in DOMAIN p /\ p[l] # f /\ l # f /\ p[l] \in 1 .. f /\ l \in 1 .. f
      <4>1. p[l] \in DOMAIN p
        BY <2>2, ForestFacts
      <4> QED
        BY <1>1, <2>2, <4>1
    <3>2. q[l] = p[l] /\ r[l] = RootOf(p, l) /\ r[p[l]] = RootOf(p, p[l])
      BY <1>1, <1>2, <2>2, <3>1
    <3>3. RootOf(p, l) = IF p[l] = l THEN l ELSE RootOf(p, p[l])
      BY <2>2, RootStep, RootOfParent
    <3> QED
      BY <3>2, <3>3
  <2> QED
    BY <1>1, <1>2, <2>1, <2>2
<1>6. \A l \in DOMAIN q : r[l] = RootOf(q, l)
  <2> HIDE DEF r
  <2> QED
    BY <1>4, <1>5, RootsUnique
<1>7. /\ \A l \in DOMAIN p : l \in DOMAIN q /\ r[l] = RootOf(p, l)
      /\ f \in DOMAIN q /\ r[f] = f
  BY <1>1, <1>2
<1> QED
  BY <1>2, <1>4, <1>6, <1>7 DEF q

-----------------------------------------------------------------------------
(* Labelling *)

\* With a pixel, all that share an edge with it and are not background.
Closed(c, mask, w) ==
  /\ c \subseteq Lit(mask)
  /\ \A i \in c : Lit(mask) \cap Around(i, w, Cardinality(DOMAIN mask)) \subseteq c

\* The neighbours of i that the first pass has seen before i.
Before(i, w) ==
  {j \in Nat : \/ j = i - w
               \/ j = i - 1 /\ i % w # 0}

Labelling(n) ==
  {s \in [label : [0 .. n - 1 -> Nat], parent : Forest] :
     \A i \in 0 .. n - 1 : s.label[i] = 0 \/ s.label[i] \in DOMAIN s.parent}
Labelled(s) == {i \in DOMAIN s.label : s.label[i] # 0}
RootAt(s, i) == RootOf(s.parent, s.label[i])

\* After the first k pixels: the labelled pixels are those of them that are not
\* background, unless the labels have run out; neighbours have one root; pixels
\* with one root are connected; every label is in use.
OnlyLit(s, k, mask) == \A i \in Labelled(s) : i < k /\ mask[i] # 0
AllLit(s, k, mask) ==
  Len(s.parent) + 1 < MaxLabels =>
    \A i \in DOMAIN mask : i < k /\ mask[i] # 0 => i \in Labelled(s)
Joined(s, w) ==
  \A i \in Labelled(s) : \A j \in Labelled(s) \cap Before(i, w) : RootAt(s, i) = RootAt(s, j)
Separate(s, mask, w) ==
  \A c : Closed(c, mask, w) =>
    \A i, j \in Labelled(s) : RootAt(s, i) = RootAt(s, j) /\ i \in c => j \in c
InUse(s) == \A l \in DOMAIN s.parent : \E i \in Labelled(s) : s.label[i] = l

LabelInv(s, k, mask, w) ==
  /\ OnlyLit(s, k, mask) /\ AllLit(s, k, mask) /\ Joined(s, w)
  /\ Separate(s, mask, w) /\ InUse(s)

\* A closed set has both or none of two neighbours.
LEMMA NeighboursClosed ==
  ASSUME NEW n \in Nat, NEW w \in Nat \ {0}, NEW mask, DOMAIN mask = 0 .. n - 1,
         NEW c, Closed(c, mask, w),
         NEW i \in Lit(mask), NEW j \in Lit(mask), j \in Before(i, w)
  PROVE  i \in c <=> j \in c
<1>1. Cardinality(0 .. n - 1) = n
  BY IntervalSize
<1>2. i \in 0 .. n - 1 /\ j \in 0 .. n - 1
  BY DEF Lit
<1>3. j \in Around(i, w, n)
  BY <1>2 DEF Around, Before
<1>4. i \in Around(j, w, n)
  BY <1>2 DEF Around, Before
<1> QED
  BY <1>1, <1>3, <1>4 DEF Closed

\* q is the forest of s, but for the classes of the neighbours seen, which are
\* the class of x.
Attaches(s, past, q, x) ==
  /\ DOMAIN q = DOMAIN s.parent /\ past # {}
  /\ \A j \in past : RootOf(q, x) = RootOf(q, s.label[j])
  /\ \A a, b \in DOMAIN q :
       RootOf(s.parent, a) = RootOf(s.parent, b) => RootOf(q, a) = RootOf(q, b)
  /\ \A a, b \in DOMAIN q : RootOf(q, a) = RootOf(q, b) =>
       \/ RootOf(s.parent, a) = RootOf(s.parent, b)
       \/ \E i, j \in past : /\ RootOf(s.parent, a) = RootAt(s, i)
                             /\ RootOf(s.parent, b) = RootAt(s, j)

\* A pixel that gets the label of a neighbour, the labels of its neighbours being
\* made one class if they are not.
LEMMA AttachInv ==
  ASSUME NEW n \in Nat, NEW w \in Nat \ {0}, NEW mask, DOMAIN mask = 0 .. n - 1,
         NEW k \in 0 .. n - 1, mask[k] # 0,
         NEW s \in Labelling(n), LabelInv(s, k, mask, w),
         NEW q \in Forest, NEW x \in DOMAIN q,
         NEW t, t = [label |-> [s.label EXCEPT ![k] = x], parent |-> q],
         Attaches(s, Labelled(s) \cap Before(k, w), q, x)
  PROVE  t \in Labelling(n) /\ LabelInv(t, k + 1, mask, w)
<1> DEFINE past == Labelled(s) \cap Before(k, w)
<1>0. /\ DOMAIN q = DOMAIN s.parent /\ past # {}
      /\ \A j \in past : RootOf(q, x) = RootOf(q, s.label[j])
      /\ \A a, b \in DOMAIN q : RootOf(s.parent, a) = RootOf(s.parent, b)
                                  => RootOf(q, a) = RootOf(q, b)
      /\ \A a, b \in DOMAIN q : RootOf(q, a) = RootOf(q, b) =>
           \/ RootOf(s.parent, a) = RootOf(s.parent, b)
           \/ \E i, j \in past : /\ RootOf(s.parent, a) = RootAt(s, i)
                                 /\ RootOf(s.parent, b) = RootAt(s, j)
  BY DEF Attaches
<1>00. past = Labelled(s) \cap Before(k, w)
  OBVIOUS
<1> HIDE DEF past
<1> USE <1>0, <1>00
<1>1. /\ s.label \in [0 .. n - 1 -> Nat] /\ s.parent \in Forest
      /\ \A i \in Labelled(s) : i \in 0 .. n - 1 /\ s.label[i] \in DOMAIN q
      /\ x \in Nat /\ x # 0
  <2>1. s.label \in [0 .. n - 1 -> Nat] /\ s.parent \in Forest
    BY DEF Labelling
  <2>2. \A i \in Labelled(s) : i \in 0 .. n - 1 /\ s.label[i] \in DOMAIN q
    BY <2>1 DEF Labelling, Labelled
  <2>3. Len(q) \in Nat /\ DOMAIN q = 1 .. Len(q)
    BY ForestFacts
  <2> QED
    BY <2>1, <2>2, <2>3
<1>2. /\ t.parent = q /\ t.label \in [0 .. n - 1 -> Nat] /\ t.label[k] = x
      /\ \A i \in 0 .. n - 1 : i # k => t.label[i] = s.label[i]
  BY <1>1
<1>3. k \notin Labelled(s) /\ k \in 0 .. n - 1
  <2>1. k \in Labelled(s) => k < k
    BY DEF LabelInv, OnlyLit
  <2> QED
    BY <2>1
<1>4. Labelled(t) = Labelled(s) \cup {k}
  BY <1>1, <1>2, <1>3 DEF Labelled
<1>5. t \in Labelling(n)
  <2>1. t \in [label : [0 .. n - 1 -> Nat], parent : Forest]
    BY <1>1, <1>2
  <2>2. \A i \in 0 .. n - 1 : t.label[i] = 0 \/ t.label[i] \in DOMAIN t.parent
    BY <1>1, <1>2 DEF Labelling
  <2> QED
    BY <2>1, <2>2 DEF Labelling
<1>6. \A i \in Labelled(s) : /\ RootAt(t, i) = RootOf(q, s.label[i])
                             /\ i \in Lit(mask) /\ i < k /\ i # k
  BY <1>1, <1>2, <1>3 DEF RootAt, LabelInv, OnlyLit, Lit
<1>7. RootAt(t, k) = RootOf(q, x) /\ k \in Lit(mask)
  BY <1>2, <1>3 DEF RootAt, Lit
<1>8. OnlyLit(t, k + 1, mask)
  <2>1. \A i \in Labelled(s) : i \in Int /\ i < k /\ mask[i] # 0
    BY <1>1, <1>6 DEF Lit
  <2>2. \A i \in Labelled(t) : i < k + 1 /\ mask[i] # 0
    BY <1>4, <2>1
  <2> QED
    BY <2>2 DEF OnlyLit
<1>9. AllLit(t, k + 1, mask)
  <2>1. Len(q) = Len(s.parent)
    BY <1>1 DEF Forest
  <2>2. ASSUME Len(q) + 1 < MaxLabels, NEW i \in DOMAIN mask, i < k + 1, mask[i] # 0
        PROVE  i \in Labelled(t)
    <3>1. i < k \/ i = k
      BY <2>2
    <3> QED
      BY <1>4, <2>1, <2>2, <3>1 DEF LabelInv, AllLit
  <2> QED
    BY <1>2, <2>2 DEF AllLit
<1>10. Joined(t, w)
  <2> SUFFICES ASSUME NEW i \in Labelled(t), NEW j \in Labelled(t), j \in Before(i, w)
               PROVE  RootAt(t, i) = RootAt(t, j)
    BY DEF Joined
  <2>1. j < i /\ i \in 0 .. n - 1 /\ j \in Nat
    <3>1. i \in 0 .. n - 1
      BY <1>1, <1>3, <1>4
    <3> QED
      BY <3>1 DEF Before
  <2>2. j \in Labelled(s)
    BY <1>4, <1>6, <2>1
  <2>3. CASE i = k
    <3>1. j \in past
      BY <2>2, <2>3
    <3> QED
      BY <1>6, <1>7, <2>2, <2>3, <3>1
  <2>4. CASE i # k
    <3>1. i \in Labelled(s)
      BY <1>4, <2>4
    <3>2. RootAt(s, i) = RootAt(s, j)
      BY <2>2, <3>1 DEF LabelInv, Joined
    <3> QED
      BY <1>1, <1>6, <2>2, <3>1, <3>2 DEF RootAt
  <2> QED
    BY <2>3, <2>4
<1>11. Separate(t, mask, w)
  <2> SUFFICES ASSUME NEW c, Closed(c, mask, w), NEW a \in Labelled(t), NEW b \in Labelled(t),
                      RootAt(t, a) = RootAt(t, b), a \in c
               PROVE  b \in c
    BY DEF Separate
  <2>1. ASSUME NEW j \in past PROVE k \in c <=> j \in c
    <3>1. j \in Lit(mask) /\ j \in Before(k, w)
      BY <1>6, <2>1
    <3> QED
      BY <1>7, <3>1, NeighboursClosed
  <2>2. ASSUME NEW i \in Labelled(s), NEW j \in Labelled(s),
               RootAt(s, i) = RootAt(s, j), i \in c
        PROVE  j \in c
    BY <2>2 DEF LabelInv, Separate
  <2>3. ASSUME NEW i \in Labelled(s), NEW j \in Labelled(s),
               RootAt(t, i) = RootAt(t, j), i \in c
        PROVE  j \in c
    <3>1. RootOf(q, s.label[i]) = RootOf(q, s.label[j])
      BY <1>6, <2>3
    <3>2. CASE RootAt(s, i) = RootAt(s, j)
      BY <2>2, <2>3, <3>2
    <3>3. CASE RootAt(s, i) # RootAt(s, j)
      <4>1. PICK ji \in past, jj \in past :
              RootAt(s, i) = RootAt(s, ji) /\ RootAt(s, j) = RootAt(s, jj)
        BY <1>1, <3>1, <3>3 DEF RootAt
      <4>2. ji \in c
        BY <2>2, <2>3, <4>1
      <4>3. jj \in c
        BY <2>1, <4>2
      <4> QED
        BY <2>2, <4>1, <4>3
    <3> QED
      BY <3>2, <3>3
  <2>4. PICK near \in past : TRUE
    OBVIOUS
  <2>5. RootAt(t, k) = RootAt(t, near) /\ near \in Labelled(s)
    BY <1>6, <1>7, <2>4
  <2>6. CASE a = k /\ b # k
    <3>1. near \in c
      BY <2>1, <2>6
    <3> QED
      BY <1>4, <2>3, <2>5, <2>6, <3>1
  <2>7. CASE a # k /\ b = k
    <3>1. near \in c
      BY <1>4, <2>3, <2>5, <2>7
    <3> QED
      BY <2>1, <2>7, <3>1
  <2>8. CASE a # k /\ b # k
    BY <1>4, <2>3, <2>8
  <2> QED
    BY <2>6, <2>7, <2>8
<1>12. InUse(t)
  <2> SUFFICES ASSUME NEW l \in DOMAIN q PROVE \E i \in Labelled(t) : t.label[i] = l
    BY <1>2 DEF InUse
  <2>1. PICK i \in Labelled(s) : s.label[i] = l
    BY DEF LabelInv, InUse
  <2> QED
    BY <1>1, <1>2, <1>4, <1>6, <2>1
<1> QED
  BY <1>5, <1>8, <1>9, <1>10, <1>11, <1>12 DEF LabelInv

\* A pixel with a label of its own.
LEMMA FreshInv ==
  ASSUME NEW n \in Nat, NEW w \in Nat \ {0}, NEW mask, DOMAIN mask = 0 .. n - 1,
         NEW k \in 0 .. n - 1, mask[k] # 0,
         NEW s \in Labelling(n), LabelInv(s, k, mask, w),
         NEW f, f = Len(s.parent) + 1,
         NEW q \in Forest, DOMAIN q = 1 .. f, Len(q) = f, RootOf(q, f) = f,
         \A l \in DOMAIN s.parent : RootOf(q, l) = RootOf(s.parent, l),
         NEW t, t = [label |-> [s.label EXCEPT ![k] = f], parent |-> q],
         \A j \in Labelled(s) : j \notin Before(k, w)
  PROVE  t \in Labelling(n) /\ LabelInv(t, k + 1, mask, w)
<1>1. /\ s.label \in [0 .. n - 1 -> Nat] /\ s.parent \in Forest
      /\ \A i \in Labelled(s) : i \in 0 .. n - 1 /\ s.label[i] \in DOMAIN s.parent
  BY DEF Labelling, Labelled
<1>2. Len(s.parent) \in Nat /\ DOMAIN s.parent = 1 .. Len(s.parent) /\ f \in Nat /\ f # 0
  BY <1>1, ForestFacts
<1>4. /\ t.parent = q /\ t.label \in [0 .. n - 1 -> Nat] /\ t.label[k] = f
      /\ \A i \in 0 .. n - 1 : i # k => t.label[i] = s.label[i]
  BY <1>1, <1>2
<1>5. k \notin Labelled(s) /\ k \in 0 .. n - 1
  <2>1. k \in Labelled(s) => k < k
    BY DEF LabelInv, OnlyLit
  <2> QED
    BY <2>1
<1>6. Labelled(t) = Labelled(s) \cup {k}
  BY <1>1, <1>2, <1>4, <1>5 DEF Labelled
<1>7. t \in Labelling(n)
  <2>1. t \in [label : [0 .. n - 1 -> Nat], parent : Forest]
    BY <1>4, <1>1
  <2>2. \A i \in 0 .. n - 1 : t.label[i] = 0 \/ t.label[i] \in DOMAIN t.parent
    BY <1>1, <1>2, <1>4 DEF Labelling
  <2> QED
    BY <2>1, <2>2 DEF Labelling
<1>8. \A i \in Labelled(s) : /\ RootAt(t, i) = RootAt(s, i) /\ RootAt(t, i) # f
                             /\ i \in Lit(mask) /\ i < k /\ i # k
  <2> SUFFICES ASSUME NEW i \in Labelled(s)
               PROVE  /\ RootAt(t, i) = RootAt(s, i) /\ RootAt(t, i) # f
                      /\ i \in Lit(mask) /\ i < k /\ i # k
    OBVIOUS
  <2>1. i \in Lit(mask) /\ i < k /\ i # k
    BY <1>1, <1>5 DEF LabelInv, OnlyLit, Lit
  <2>2. RootAt(t, i) = RootAt(s, i)
    BY <1>1, <1>4, <2>1 DEF RootAt
  <2>3. RootAt(s, i) \in DOMAIN s.parent
    BY <1>1, RootStep DEF RootAt
  <2> QED
    BY <1>2, <2>1, <2>2, <2>3
<1>9. RootAt(t, k) = f /\ k \in Lit(mask)
  BY <1>4, <1>5 DEF RootAt, Lit
<1>10. OnlyLit(t, k + 1, mask)
  <2> SUFFICES ASSUME NEW i \in Labelled(t) PROVE i < k + 1 /\ mask[i] # 0
    BY DEF OnlyLit
  <2>1. CASE i = k
    BY <2>1
  <2>2. CASE i \in Labelled(s)
    <3>1. i < k /\ i \in Lit(mask)
      BY <1>8, <2>2
    <3>2. i \in Nat
      BY <1>1, <2>2
    <3> QED
      BY <3>1, <3>2 DEF Lit
  <2> QED
    BY <1>6, <2>1, <2>2
<1>11. AllLit(t, k + 1, mask)
  <2>1. ASSUME Len(q) + 1 < MaxLabels, NEW i \in DOMAIN mask, i < k + 1, mask[i] # 0
        PROVE  i \in Labelled(t)
    <3>1. i < k \/ i = k
      BY <2>1
    <3>2. Len(s.parent) + 1 < MaxLabels
      BY <1>2, <2>1, BlobsAssumption DEF BlobsAssumption
    <3> QED
      BY <1>6, <2>1, <3>1, <3>2 DEF LabelInv, AllLit
  <2> QED
    BY <1>4, <2>1 DEF AllLit
<1>12. Joined(t, w)
  <2> SUFFICES ASSUME NEW i \in Labelled(t), NEW j \in Labelled(t), j \in Before(i, w)
               PROVE  RootAt(t, i) = RootAt(t, j)
    BY DEF Joined
  <2>1. j < i /\ i \in 0 .. n - 1 /\ j \in Nat
    <3>1. i \in 0 .. n - 1
      BY <1>1, <1>5, <1>6
    <3> QED
      BY <3>1 DEF Before
  <2>2. j \in Labelled(s)
    <3>1. i \in Nat /\ k \in Nat /\ i <= k
      <4>1. CASE i = k
        BY <4>1
      <4>2. CASE i \in Labelled(s)
        BY <1>8, <2>1, <4>2
      <4> QED
        BY <1>6, <4>1, <4>2
    <3>2. j # k
      BY <2>1, <3>1
    <3> QED
      BY <1>6, <3>2
  <2>3. i \in Labelled(s)
    <3>1. i # k
      BY <2>2
    <3> QED
      BY <1>6, <3>1
  <2> QED
    BY <1>8, <2>2, <2>3 DEF LabelInv, Joined
<1>13. Separate(t, mask, w)
  BY <1>6, <1>8, <1>9 DEF LabelInv, Separate
<1>14. InUse(t)
  <2> SUFFICES ASSUME NEW l \in 1 .. f PROVE \E i \in Labelled(t) : t.label[i] = l
    BY <1>4 DEF InUse
  <2>1. CASE l = f
    BY <1>4, <1>6, <2>1
  <2>2. CASE l # f
    <3>1. l \in DOMAIN s.parent
      BY <1>2, <2>2
    <3>2. PICK i \in Labelled(s) : s.label[i] = l
      BY <3>1 DEF LabelInv, InUse
    <3> QED
      BY <1>1, <1>4, <1>6, <1>8, <3>2
  <2> QED
    BY <2>1, <2>2
<1> QED
  BY <1>7, <1>10, <1>11, <1>12, <1>13, <1>14 DEF LabelInv

\* The labels LabelPixel looks at, and the pixels they are of.
Left(s, w, k) == IF k % w # 0 THEN s.label[k - 1] ELSE 0
Up(s, w, k)   == IF k >= w THEN s.label[k - w] ELSE 0

\* The two labels a pixel looks at are those of its neighbours before it.
LEMMA LooksAt ==
  ASSUME NEW n \in Nat, NEW w \in Nat \ {0}, NEW k \in 0 .. n - 1, NEW s \in Labelling(n)
  PROVE  /\ Left(s, w, k) # 0 => k - 1 \in Labelled(s) \cap Before(k, w)
         /\ Up(s, w, k) # 0 => k - w \in Labelled(s) \cap Before(k, w)
         /\ \A j \in Labelled(s) \cap Before(k, w) :
              \/ j = k - 1 /\ s.label[j] = Left(s, w, k)
              \/ j = k - w /\ s.label[j] = Up(s, w, k)
         /\ \A l \in {Left(s, w, k), Up(s, w, k)} :
              l \in Nat /\ (l = 0 \/ l \in DOMAIN s.parent)
         /\ s.label \in [0 .. n - 1 -> Nat] /\ s.parent \in Forest
         /\ s = [label |-> s.label, parent |-> s.parent]
<1>1. /\ s.label \in [0 .. n - 1 -> Nat] /\ s.parent \in Forest
      /\ s = [label |-> s.label, parent |-> s.parent]
      /\ \A i \in 0 .. n - 1 : s.label[i] = 0 \/ s.label[i] \in DOMAIN s.parent
  BY DEF Labelling
<1>2. k % w # 0 => k - 1 \in 0 .. n - 1
  <2>1. k = 0 => k % w = 0
    OBVIOUS
  <2> QED
    BY <2>1
<1>3. k >= w => k - w \in 0 .. n - 1
  OBVIOUS
<1>4. Left(s, w, k) # 0 => k - 1 \in Labelled(s) \cap Before(k, w)
  BY <1>1, <1>2 DEF Left, Labelled, Before
<1>5. Up(s, w, k) # 0 => k - w \in Labelled(s) \cap Before(k, w)
  <2> SUFFICES ASSUME Up(s, w, k) # 0 PROVE k - w \in Labelled(s) \cap Before(k, w)
    OBVIOUS
  <2>1. k >= w /\ s.label[k - w] # 0
    BY DEF Up
  <2>2. k - w \in 0 .. n - 1 /\ k - w \in Nat
    BY <1>3, <2>1
  <2>3. k - w \in Labelled(s)
    BY <1>1, <2>1, <2>2 DEF Labelled
  <2>4. \A j \in Nat : j = k - w => j \in Before(k, w)
    BY DEF Before
  <2>5. k - w \in Before(k, w)
    BY <2>2, <2>4
  <2> QED
    BY <2>3, <2>5
<1>6. ASSUME NEW j \in Labelled(s) \cap Before(k, w)
      PROVE  \/ j = k - 1 /\ s.label[j] = Left(s, w, k)
             \/ j = k - w /\ s.label[j] = Up(s, w, k)
  BY <1>1, <1>6 DEF Left, Up, Before
<1>7. ASSUME NEW l \in {Left(s, w, k), Up(s, w, k)}
      PROVE  l \in Nat /\ (l = 0 \/ l \in DOMAIN s.parent)
  BY <1>1, <1>2, <1>3 DEF Left, Up
<1> QED
  BY <1>1, <1>4, <1>5, <1>6, <1>7

\* What LabelPixel does, case by case.
PixelCase(s, mask, w, k, left, up, f, t) ==
  \/ mask[k] = 0 /\ t = s
  \/ mask[k] # 0 /\ left = 0 /\ up = 0 /\ f >= MaxLabels /\ t = s
  \/ /\ mask[k] # 0 /\ left = 0 /\ up = 0
     /\ t = [label |-> [s.label EXCEPT ![k] = f], parent |-> Append(s.parent, f)]
  \/ /\ mask[k] # 0 /\ left # 0 /\ up # 0 /\ left # up
     /\ t = [label  |-> [s.label EXCEPT ![k] = Upto(left, up)],
             parent |-> Union(s.parent, left, up)]
  \/ /\ mask[k] # 0 /\ (left # 0 \/ up # 0)
     /\ left = 0 \/ up = 0 \/ left = up
     /\ t = [label  |-> [s.label EXCEPT ![k] = Atleast(left, up)],
             parent |-> s.parent]

\* The branches of label_pixel, one by one.
LEMMA PixelCases ==
  ASSUME NEW n \in Nat, NEW w \in Nat \ {0}, NEW mask, NEW k \in 0 .. n - 1,
         NEW s \in Labelling(n)
  PROVE  PixelCase(s, mask, w, k, Left(s, w, k), Up(s, w, k), Len(s.parent) + 1,
                   LabelPixel(s, mask, w, k))
<1> DEFINE left == Left(s, w, k)
           up == Up(s, w, k)
<1>1. s = [label |-> s.label, parent |-> s.parent]
  BY LooksAt
<1>2. [s EXCEPT !.label[k] = Atleast(left, up)]
        = [label |-> [s.label EXCEPT ![k] = Atleast(left, up)], parent |-> s.parent]
  BY <1>1
<1> QED
  BY <1>2 DEF LabelPixel, Left, Up, PixelCase

\* A pixel leaves a labelling behind.
LEMMA PixelType ==
  ASSUME NEW n \in Nat, NEW w \in Nat \ {0}, NEW mask, NEW k \in 0 .. n - 1,
         NEW s \in Labelling(n)
  PROVE  LabelPixel(s, mask, w, k) \in Labelling(n)
<1> DEFINE left == Left(s, w, k)
           up == Up(s, w, k)
           f == Len(s.parent) + 1
           t == LabelPixel(s, mask, w, k)
<1>1. /\ s.label \in [0 .. n - 1 -> Nat] /\ s.parent \in Forest
      /\ left \in Nat /\ (left = 0 \/ left \in DOMAIN s.parent)
      /\ up \in Nat /\ (up = 0 \/ up \in DOMAIN s.parent)
      /\ \A i \in 0 .. n - 1 : s.label[i] = 0 \/ s.label[i] \in DOMAIN s.parent
  BY LooksAt DEF Labelling
<1>2. ASSUME NEW q \in Forest, DOMAIN s.parent \subseteq DOMAIN q, NEW x \in DOMAIN q,
             t = [label |-> [s.label EXCEPT ![k] = x], parent |-> q]
      PROVE  t \in Labelling(n)
  <2>1. x \in Nat
    BY ForestFacts
  <2>2. /\ t.parent = q /\ t.label \in [0 .. n - 1 -> Nat] /\ t.label[k] = x
        /\ \A i \in 0 .. n - 1 : i # k => t.label[i] = s.label[i]
        /\ t \in [label : [0 .. n - 1 -> Nat], parent : Forest]
    BY <1>1, <1>2, <2>1
  <2>3. \A i \in 0 .. n - 1 : t.label[i] = 0 \/ t.label[i] \in DOMAIN t.parent
    BY <1>1, <1>2, <2>2
  <2> QED
    BY <2>2, <2>3 DEF Labelling
<1>3. CASE t = s
  BY <1>3
<1>4. CASE t = [label |-> [s.label EXCEPT ![k] = f], parent |-> Append(s.parent, f)]
  <2>1. Len(s.parent) \in Nat /\ DOMAIN s.parent = 1 .. Len(s.parent)
    BY <1>1, ForestFacts
  <2>2. Append(s.parent, f) \in Forest /\ DOMAIN Append(s.parent, f) = 1 .. f
    BY <1>1, AppendKeeps
  <2>3. f \in 1 .. f /\ DOMAIN s.parent \subseteq 1 .. f
    BY <2>1
  <2> QED
    BY <1>2, <1>4, <2>2, <2>3
<1>5. CASE /\ left # 0 /\ up # 0
           /\ t = [label |-> [s.label EXCEPT ![k] = Upto(left, up)],
                   parent |-> Union(s.parent, left, up)]
  <2>1. Union(s.parent, left, up) \in Forest
        /\ DOMAIN Union(s.parent, left, up) = DOMAIN s.parent
    BY <1>1, <1>5, UnionMerges
  <2>2. Upto(left, up) \in DOMAIN s.parent
    BY <1>1, <1>5, UptoAtleast
  <2> QED
    BY <1>2, <1>5, <2>1, <2>2
<1>6. CASE /\ left # 0 \/ up # 0
           /\ t = [label |-> [s.label EXCEPT ![k] = Atleast(left, up)],
                   parent |-> s.parent]
  <2>1. Atleast(left, up) \in DOMAIN s.parent
    <3>1. left \in Int /\ up \in Int
      BY <1>1
    <3>2. Atleast(left, up) \in {left, up} /\ left <= Atleast(left, up) /\ up <= Atleast(left, up)
      BY <3>1, UptoAtleast
    <3>3. Atleast(left, up) # 0
      BY <1>1, <1>6, <3>2
    <3> QED
      BY <1>1, <3>2, <3>3
  <2> QED
    BY <1>1, <1>2, <1>6, <2>1
<1> QED
  <2> HIDE DEF left, up, f, t
  <2>1. \/ t = s
        \/ t = [label |-> [s.label EXCEPT ![k] = f], parent |-> Append(s.parent, f)]
        \/ /\ left # 0 /\ up # 0
           /\ t = [label |-> [s.label EXCEPT ![k] = Upto(left, up)],
                   parent |-> Union(s.parent, left, up)]
        \/ /\ left # 0 \/ up # 0
           /\ t = [label |-> [s.label EXCEPT ![k] = Atleast(left, up)],
                   parent |-> s.parent]
    <3>1. PixelCase(s, mask, w, k, left, up, f, t)
      BY PixelCases DEF left, up, f, t
    <3> QED
      BY <3>1 DEF PixelCase
  <2> QED
    BY <1>3, <1>4, <1>5, <1>6, <2>1 DEF t

\* One pixel of the first pass.
LEMMA PixelInv ==
  ASSUME NEW n \in Nat, NEW w \in Nat \ {0}, NEW mask, DOMAIN mask = 0 .. n - 1,
         NEW k \in 0 .. n - 1, NEW s \in Labelling(n), LabelInv(s, k, mask, w)
  PROVE  LabelInv(LabelPixel(s, mask, w, k), k + 1, mask, w)
<1> DEFINE left == Left(s, w, k)
           up == Up(s, w, k)
           f == Len(s.parent) + 1
           t == LabelPixel(s, mask, w, k)
           past == Labelled(s) \cap Before(k, w)
<1>1. /\ s.label \in [0 .. n - 1 -> Nat] /\ s.parent \in Forest
      /\ left \in Nat /\ (left = 0 \/ left \in DOMAIN s.parent)
      /\ up \in Nat /\ (up = 0 \/ up \in DOMAIN s.parent)
      /\ left # 0 => k - 1 \in past
      /\ up # 0 => k - w \in past
      /\ \A j \in past : s.label[j] # 0 /\ s.label[j] \in {left, up}
  BY LooksAt DEF Labelled
<1>2. left # 0 => s.label[k - 1] = left
  BY DEF Left
<1>3. up # 0 => s.label[k - w] = up
  BY DEF Up
<1> HIDE DEF left, up, f, t, past
<1>4. CASE t = s /\ (mask[k] = 0 \/ f >= MaxLabels)
  <2>1. OnlyLit(s, k + 1, mask)
    <3>1. \A i \in Labelled(s) : i \in 0 .. n - 1
      BY <1>1 DEF Labelled
    <3> QED
      BY <3>1 DEF LabelInv, OnlyLit
  <2>2. AllLit(s, k + 1, mask)
    <3> SUFFICES ASSUME f < MaxLabels, NEW i \in DOMAIN mask, i < k + 1, mask[i] # 0
                 PROVE  i \in Labelled(s)
      BY DEF AllLit, f
    <3>1. f \in Nat /\ MaxLabels \in Nat
      BY <1>1, ForestFacts, BlobsAssumption DEF BlobsAssumption, f
    <3>2. i < k
      BY <1>4, <3>1
    <3> QED
      BY <3>2 DEF LabelInv, AllLit, f
  <2> QED
    BY <1>4, <2>1, <2>2 DEF LabelInv, t
<1>5. CASE /\ mask[k] # 0 /\ left = 0 /\ up = 0
           /\ t = [label |-> [s.label EXCEPT ![k] = f], parent |-> Append(s.parent, f)]
  <2>1. \A j \in Labelled(s) : j \notin Before(k, w)
    BY <1>1, <1>5 DEF past
  <2> DEFINE q == Append(s.parent, f)
  <2>2. /\ q \in Forest /\ DOMAIN q = 1 .. f /\ Len(q) = f /\ RootOf(q, f) = f
        /\ \A l \in DOMAIN s.parent : RootOf(q, l) = RootOf(s.parent, l)
    <3>1. PICK p : p = s.parent
      OBVIOUS
    <3>2. p \in Forest /\ f = Len(p) + 1
      BY <1>1, <3>1 DEF f
    <3>3. /\ Append(p, f) \in Forest /\ DOMAIN Append(p, f) = 1 .. f
          /\ Len(Append(p, f)) = f /\ RootOf(Append(p, f), f) = f
          /\ \A l \in DOMAIN p : RootOf(Append(p, f), l) = RootOf(p, l)
      BY <3>2, AppendKeeps
    <3> QED
      BY <3>1, <3>3
  <2>3. t = [label |-> [s.label EXCEPT ![k] = f], parent |-> q]
    BY <1>5
  <2> HIDE DEF q
  <2>4. LabelInv(t, k + 1, mask, w)
    <3>1. mask[k] # 0 /\ f = Len(s.parent) + 1
      BY <1>5 DEF f
    <3> QED
      BY <2>1, <2>2, <2>3, <3>1, FreshInv
  <2> QED
    BY <2>4 DEF t
<1>6. CASE /\ mask[k] # 0 /\ left # 0 /\ up # 0
           /\ t = [label |-> [s.label EXCEPT ![k] = Upto(left, up)],
                   parent |-> Union(s.parent, left, up)]
  <2> DEFINE p == s.parent
             q == Union(p, left, up)
             x == Upto(left, up)
  <2>1. /\ q \in Forest /\ DOMAIN q = DOMAIN p
        /\ \A l \in DOMAIN p :
             RootOf(q, l) = IF RootOf(p, l) \in {RootOf(p, left), RootOf(p, up)}
                            THEN Upto(RootOf(p, left), RootOf(p, up)) ELSE RootOf(p, l)
    BY <1>1, <1>6, UnionMerges
  <2>2. x \in {left, up} /\ x \in DOMAIN q
    BY <1>1, <1>6, <2>1, UptoAtleast
  <2>3. Upto(RootOf(p, left), RootOf(p, up)) \in {RootOf(p, left), RootOf(p, up)}
    <3>1. RootOf(p, left) \in Int /\ RootOf(p, up) \in Int
      BY <1>1, <1>6, RootStep
    <3> QED
      BY <3>1, UptoAtleast
  <2>4. t = [label |-> [s.label EXCEPT ![k] = x], parent |-> q]
    BY <1>6
  <2> HIDE DEF q, x
  <2>5. \A a, b \in DOMAIN q : RootOf(p, a) = RootOf(p, b) => RootOf(q, a) = RootOf(q, b)
    BY <2>1
  <2>6. RootOf(q, left) = RootOf(q, up)
    BY <1>1, <1>6, <2>1
  <2>7. \A j \in past : RootOf(q, x) = RootOf(q, s.label[j])
    BY <1>1, <2>2, <2>6
  <2>8. ASSUME NEW a \in DOMAIN q, NEW b \in DOMAIN q, RootOf(q, a) = RootOf(q, b)
        PROVE  \/ RootOf(p, a) = RootOf(p, b)
               \/ \E i, j \in past : RootOf(p, a) = RootAt(s, i) /\ RootOf(p, b) = RootAt(s, j)
    <3>1. k - 1 \in past /\ k - w \in past
      BY <1>1, <1>6
    <3>2. RootAt(s, k - 1) = RootOf(p, left) /\ RootAt(s, k - w) = RootOf(p, up)
      BY <1>2, <1>3, <1>6 DEF RootAt
    <3>3. \/ RootOf(p, a) = RootOf(p, b)
          \/ /\ RootOf(p, a) \in {RootOf(p, left), RootOf(p, up)}
             /\ RootOf(p, b) \in {RootOf(p, left), RootOf(p, up)}
      BY <2>1, <2>3, <2>8
    <3> QED
      BY <3>1, <3>2, <3>3
  <2>9. past # {}
    BY <1>1, <1>6
  <2>10. LabelInv(t, k + 1, mask, w)
    <3>1. Attaches(s, past, q, x)
      BY <2>1, <2>5, <2>7, <2>8, <2>9 DEF Attaches
    <3> QED
      BY <1>6, <2>1, <2>2, <2>4, <3>1, AttachInv DEF past
  <2> QED
    BY <2>10 DEF t
<1>7. CASE /\ mask[k] # 0 /\ (left # 0 \/ up # 0)
           /\ left = 0 \/ up = 0 \/ left = up
           /\ t = [label |-> [s.label EXCEPT ![k] = Atleast(left, up)],
                   parent |-> s.parent]
  <2> DEFINE q == s.parent
             x == Atleast(left, up)
  <2>1. x \in {left, up} /\ x # 0 /\ (left # 0 => x = left) /\ (up # 0 => x = up)
    BY <1>1, <1>7 DEF Atleast
  <2>2. x \in DOMAIN q /\ q \in Forest
    BY <1>1, <2>1
  <2>3. t = [label |-> [s.label EXCEPT ![k] = x], parent |-> q]
    BY <1>7
  <2> HIDE DEF x
  <2>4. \A j \in past : RootOf(q, x) = RootOf(q, s.label[j])
    BY <1>1, <1>7, <2>1
  <2>5. past # {}
    BY <1>1, <1>7
  <2>6. LabelInv(t, k + 1, mask, w)
    <3>1. Attaches(s, past, q, x)
      BY <2>4, <2>5 DEF Attaches
    <3> QED
      BY <1>7, <2>2, <2>3, <3>1, AttachInv DEF past
  <2> QED
    BY <2>6 DEF t
<1> QED
  <2>1. \/ t = s /\ (mask[k] = 0 \/ f >= MaxLabels)
        \/ /\ mask[k] # 0 /\ left = 0 /\ up = 0
           /\ t = [label |-> [s.label EXCEPT ![k] = f], parent |-> Append(s.parent, f)]
        \/ /\ mask[k] # 0 /\ left # 0 /\ up # 0
           /\ t = [label |-> [s.label EXCEPT ![k] = Upto(left, up)],
                   parent |-> Union(s.parent, left, up)]
        \/ /\ mask[k] # 0 /\ (left # 0 \/ up # 0)
           /\ left = 0 \/ up = 0 \/ left = up
           /\ t = [label |-> [s.label EXCEPT ![k] = Atleast(left, up)],
                   parent |-> s.parent]
    <3>1. PixelCase(s, mask, w, k, left, up, f, t)
      BY PixelCases DEF left, up, f, t
    <3> QED
      BY <3>1 DEF PixelCase
  <2> QED
    BY <1>4, <1>5, <1>6, <1>7, <2>1 DEF t

\* The first pass over the whole mask.
LEMMA ProvisionalInv ==
  ASSUME NEW n \in Nat, NEW w \in Nat \ {0}, NEW mask, DOMAIN mask = 0 .. n - 1
  PROVE  /\ Provisional(mask, w) \in Labelling(n)
         /\ LabelInv(Provisional(mask, w), n, mask, w)
<1> DEFINE start == [label |-> [i \in 0 .. n - 1 |-> 0], parent |-> <<>>]
           Def(a) == [k \in 0 .. n |-> IF k = 0 THEN start
                                       ELSE LabelPixel(a[k - 1], mask, w, k - 1)]
           T == Labelling(n)
           F == [x \in T \X (1 .. n) |-> LabelPixel(x[1], mask, w, x[2] - 1)]
           A == CHOOSE a : a = Def(a)
<1>1. start \in T /\ LabelInv(start, 0, mask, w)
  <2>1. <<>> \in Forest /\ DOMAIN <<>> = {}
    BY DEF Forest
  <2>2. start \in T
    BY <2>1 DEF Labelling
  <2>3. Labelled(start) = {} /\ DOMAIN start.parent = {}
    BY <2>1 DEF Labelled
  <2>4. AllLit(start, 0, mask)
    BY DEF AllLit
  <2>5. OnlyLit(start, 0, mask) /\ Joined(start, w) /\ Separate(start, mask, w) /\ InUse(start)
    BY <2>3 DEF OnlyLit, Joined, Separate, InUse
  <2> QED
    BY <2>2, <2>4, <2>5 DEF LabelInv
<1>2. ASSUME NEW s \in T, NEW k \in 1 .. n PROVE LabelPixel(s, mask, w, k - 1) \in T
  <2>1. k - 1 \in 0 .. n - 1
    OBVIOUS
  <2> QED
    BY <2>1, PixelType
<1> HIDE DEF start, T
<1>3. F \in [T \X (1 .. n) -> T]
  BY <1>2
<1>4. PICK a : IsRun(a, T, start, n, F)
  <2> HIDE DEF F
  <2> QED
    BY <1>1, <1>3, LoopRuns
<1>5. a = Def(a)
  <2>1. ASSUME NEW k \in 1 .. n PROVE a[k] = LabelPixel(a[k - 1], mask, w, k - 1)
    <3>1. <<a[k - 1], k>> \in T \X (1 .. n)
      <4>1. k - 1 \in 0 .. n
        OBVIOUS
      <4> QED
        BY <1>4, <4>1 DEF IsRun
    <3>2. a[k] = F[<<a[k - 1], k>>]
      BY <1>4 DEF IsRun
    <3> QED
      BY <3>1, <3>2
  <2> HIDE DEF F
  <2> QED
    BY <1>4, <2>1 DEF IsRun
<1>6. A = Def(A)
  BY <1>5
<1> HIDE DEF A, F
<1>7. A[0] = start /\ \A k \in 1 .. n : A[k] = LabelPixel(A[k - 1], mask, w, k - 1)
  BY <1>6
<1>8. A[n] \in T /\ LabelInv(A[n], n, mask, w)
  <2> DEFINE S == {k \in Nat : k <= n => A[k] \in T /\ LabelInv(A[k], k, mask, w)}
  <2>1. 0 \in S
    BY <1>1, <1>7
  <2>2. ASSUME NEW k \in Nat, k \in S PROVE k + 1 \in S
    <3> SUFFICES ASSUME k + 1 <= n
                 PROVE  A[k + 1] \in T /\ LabelInv(A[k + 1], k + 1, mask, w)
      OBVIOUS
    <3>1. A[k] \in T /\ LabelInv(A[k], k, mask, w)
      BY <2>2
    <3>2. k + 1 \in 1 .. n /\ (k + 1) - 1 = k /\ k \in 0 .. n - 1
      OBVIOUS
    <3>3. A[k + 1] = LabelPixel(A[k], mask, w, k)
      BY <1>7, <3>2
    <3> QED
      BY <3>1, <3>2, <3>3, PixelType, PixelInv DEF T
  <2> HIDE DEF S
  <2>3. n \in S
    BY <2>1, <2>2, Induction
  <2> QED
    BY <2>3 DEF S
<1>9. Provisional(mask, w) = A[n]
  <2>1. Cardinality(DOMAIN mask) = n
    BY IntervalSize
  <2> QED
    BY <2>1 DEF Provisional, Loop, A, start
<1> QED
  BY <1>8, <1>9 DEF T

-----------------------------------------------------------------------------
(* Components *)

LEMMA RootsAre ==
  ASSUME NEW n \in Nat, NEW s \in Labelling(n)
  PROVE  /\ Roots(s) = {l \in DOMAIN s.parent : RootOf(s.parent, l) = l}
         /\ \A l \in Roots(s) : Component(s, l) = {i \in Labelled(s) : RootAt(s, i) = l}
         /\ \A i \in Labelled(s) : RootAt(s, i) \in Roots(s)
<1>1. /\ s.label \in [0 .. n - 1 -> Nat] /\ s.parent \in Forest
      /\ \A i \in Labelled(s) : i \in 0 .. n - 1 /\ s.label[i] \in DOMAIN s.parent
  BY DEF Labelling, Labelled
<1>2. /\ DOMAIN Flattened(s.parent) = DOMAIN s.parent
      /\ \A l \in DOMAIN s.parent : Flattened(s.parent)[l] = RootOf(s.parent, l)
  BY <1>1, FlattenedIs
<1>3. Roots(s) = {l \in DOMAIN s.parent : RootOf(s.parent, l) = l}
  BY <1>2 DEF Roots
<1>4. ASSUME NEW l \in Roots(s)
      PROVE  Component(s, l) = {i \in Labelled(s) : RootAt(s, i) = l}
  <2>1. Component(s, l) = {i \in Labelled(s) : Flattened(s.parent)[s.label[i]] = l}
    BY DEF Component, Labelled
  <2>2. \A i \in Labelled(s) : Flattened(s.parent)[s.label[i]] = RootAt(s, i)
    BY <1>1, <1>2 DEF RootAt
  <2> QED
    BY <2>1, <2>2
<1>5. ASSUME NEW i \in Labelled(s) PROVE RootAt(s, i) \in Roots(s)
  <2>1. RootAt(s, i) \in DOMAIN s.parent /\ RootOf(s.parent, RootAt(s, i)) = RootAt(s, i)
    BY <1>1, RootStep DEF RootAt
  <2> QED
    BY <1>3, <2>1
<1> QED
  BY <1>3, <1>4, <1>5

\* A neighbour of a pixel was seen before it or is seen after it.
LEMMA AroundIs ==
  ASSUME NEW n \in Nat, NEW w \in Nat \ {0}, NEW i \in 0 .. n - 1, NEW j \in Around(i, w, n)
  PROVE  j \in 0 .. n - 1 /\ (j \in Before(i, w) \/ i \in Before(j, w))
  BY DEF Around, Before

\* What is reached from a pixel: the smallest set that has it and is closed.
LEMMA ReachedIs ==
  ASSUME NEW L, IsFiniteSet(L), NEW near \in [L -> SUBSET L], NEW i \in L
  PROVE  /\ Reached(near, i) \subseteq L /\ i \in Reached(near, i)
         /\ \A j \in Reached(near, i) : near[j] \subseteq Reached(near, i)
         /\ \A d \in SUBSET L : i \in d /\ (\A j \in d : near[j] \subseteq d)
                                  => Reached(near, i) \subseteq d
<1> DEFINE n == Cardinality(L)
           Wider(c) == c \cup UNION {near[j] : j \in c}
           Def(a) == [k \in 0 .. n |-> IF k = 0 THEN {i} ELSE Wider(a[k - 1])]
           T == SUBSET L
           F == [x \in T \X (1 .. n) |-> Wider(x[1])]
           A == CHOOSE a : a = Def(a)
           Shut == {c \in T : \A j \in c : near[j] \subseteq c}
<1>1. n \in Nat /\ DOMAIN near = L
  BY FS_CardinalityType
<1> HIDE DEF n, Wider, T, F, A, Shut
<1>2. ASSUME NEW c \in T
      PROVE  /\ Wider(c) \in T /\ c \subseteq Wider(c)
             /\ c \in Shut => Wider(c) = c
             /\ c \notin Shut => Wider(c) # c
             /\ \A d \in T : c \subseteq d /\ d \in Shut => Wider(c) \subseteq d
  BY DEF Wider, T, Shut
<1>3. {i} \in T
  BY DEF T
<1>4. PICK a : IsRun(a, T, {i}, n, F)
  <2>1. F \in [T \X (1 .. n) -> T]
    BY <1>2 DEF F
  <2> QED
    BY <1>1, <1>3, <2>1, LoopRuns
<1>5. a = Def(a)
  <2>1. ASSUME NEW k \in 1 .. n PROVE a[k] = Wider(a[k - 1])
    <3>1. <<a[k - 1], k>> \in T \X (1 .. n)
      <4>1. k - 1 \in 0 .. n
        BY <1>1
      <4> QED
        BY <1>4, <4>1 DEF IsRun
    <3>2. a[k] = F[<<a[k - 1], k>>]
      BY <1>4 DEF IsRun
    <3> QED
      BY <3>1, <3>2 DEF F
  <2> QED
    BY <1>1, <1>4, <2>1 DEF IsRun
<1>6. A = Def(A)
  BY <1>5 DEF A
<1>7. A[0] = {i} /\ \A k \in 1 .. n : A[k] = Wider(A[k - 1])
  <2>1. 0 \in 0 .. n /\ \A k \in 1 .. n : k \in 0 .. n /\ k # 0
    BY <1>1
  <2> QED
    BY <1>6, <2>1, Zenon
<1> DEFINE Good(k) == /\ A[k] \in T /\ i \in A[k]
                      /\ A[k] \in Shut \/ Cardinality(A[k]) > k
                      /\ \A d \in T : i \in d /\ d \in Shut => A[k] \subseteq d
<1>8. Good(n)
  <2> DEFINE S == {k \in Nat : k <= n => Good(k)}
  <2>1. 0 \in S
    <3>1. Cardinality({i}) = 1
      BY FS_Singleton
    <3>2. A[0] \in T /\ i \in A[0] /\ Cardinality(A[0]) > 0
      BY <1>3, <1>7, <3>1
    <3>3. \A d \in T : i \in d /\ d \in Shut => A[0] \subseteq d
      BY <1>7
    <3> QED
      BY <3>2, <3>3
  <2>2. ASSUME NEW k \in Nat, k \in S PROVE k + 1 \in S
    <3> SUFFICES ASSUME k + 1 <= n PROVE Good(k + 1)
      OBVIOUS
    <3>1. k + 1 \in 1 .. n /\ (k + 1) - 1 = k /\ k <= n
      BY <1>1
    <3> DEFINE e == A[k]
    <3>2. A[k + 1] = Wider(e)
      BY <1>7, <3>1
    <3>3. Good(k)
      BY <2>2, <3>1
    <3>4. /\ e \in T /\ i \in e
          /\ e \in Shut \/ Cardinality(e) > k
          /\ \A d \in T : i \in d /\ d \in Shut => e \subseteq d
      BY <3>3
    <3> HIDE DEF e
    <3>5. Wider(e) \in T /\ i \in Wider(e)
      BY <1>2, <3>4
    <3>6. \A d \in T : i \in d /\ d \in Shut => Wider(e) \subseteq d
      BY <1>2, <3>4
    <3>7. CASE e \in Shut
      BY <1>2, <3>2, <3>4, <3>5, <3>6, <3>7
    <3>8. CASE e \notin Shut
      <4>1. IsFiniteSet(Wider(e))
        BY <3>5, FS_Subset DEF T
      <4>2. e \in SUBSET Wider(e) /\ e # Wider(e)
        BY <1>2, <3>4, <3>8
      <4>3. /\ Cardinality(e) <= Cardinality(Wider(e))
            /\ Cardinality(e) # Cardinality(Wider(e))
            /\ IsFiniteSet(e)
        BY <4>1, <4>2, FS_Subset
      <4>4. Cardinality(e) \in Nat /\ Cardinality(Wider(e)) \in Nat
        BY <4>1, <4>3, FS_CardinalityType
      <4>5. Cardinality(Wider(e)) > k + 1
        BY <3>4, <3>8, <4>3, <4>4
      <4> QED
        BY <3>2, <3>5, <3>6, <4>5
    <3> QED
      BY <3>7, <3>8
  <2> HIDE DEF S
  <2>3. n \in S
    BY <1>1, <2>1, <2>2, Induction
  <2> QED
    BY <1>1, <2>3 DEF S
<1>9. Reached(near, i) = A[n]
  BY <1>1 DEF Reached, Loop, A, n, Wider
<1>10. A[n] \in Shut
  <2>1. A[n] \in SUBSET L
    BY <1>8 DEF T
  <2>2. Cardinality(A[n]) <= n /\ Cardinality(A[n]) \in Nat
    BY <2>1, FS_Subset, FS_CardinalityType DEF n
  <2> QED
    BY <1>1, <1>8, <2>2
<1> QED
  BY <1>8, <1>9, <1>10 DEF Shut, T

\* The connected components are the smallest closed sets.
LEMMA ComponentsAre ==
  ASSUME NEW n \in Nat, NEW w \in Nat \ {0}, NEW mask, DOMAIN mask = 0 .. n - 1
  PROVE  \A c : c \in Components(mask, w) <=>
           /\ c \in SUBSET Lit(mask) /\ c # {} /\ Closed(c, mask, w)
           /\ \A d \in SUBSET Lit(mask) :
                d # {} /\ Closed(d, mask, w) /\ d \subseteq c => d = c
<1> DEFINE L == Lit(mask)
           near == [i \in L |-> L \cap Around(i, w, Cardinality(DOMAIN mask))]
<1>1. L \subseteq 0 .. n - 1 /\ IsFiniteSet(L) /\ Cardinality(DOMAIN mask) = n
  <2>1. L \in SUBSET (0 .. n - 1)
    BY DEF Lit
  <2>2. IsFiniteSet(0 .. n - 1) /\ Cardinality(0 .. n - 1) = n
    BY IntervalSize
  <2> HIDE DEF L
  <2> QED
    BY <2>1, <2>2, FS_Subset
<1>2. /\ near \in [L -> SUBSET L]
      /\ \A i \in L : near[i] = L \cap Around(i, w, n)
  BY <1>1
<1>3. \A i, j \in L : j \in near[i] => i \in near[j]
  <2> SUFFICES ASSUME NEW i \in L, NEW j \in L, j \in near[i] PROVE i \in near[j]
    OBVIOUS
  <2>1. i \in 0 .. n - 1 /\ j \in 0 .. n - 1 /\ j \in Around(i, w, n)
    BY <1>1, <1>2
  <2>2. i \in Around(j, w, n)
    BY <2>1 DEF Around
  <2> QED
    BY <1>2, <2>2
<1>4. Components(mask, w) = {Reached(near, i) : i \in L}
  BY DEF Components
<1>5. ASSUME NEW d \in SUBSET L
      PROVE  Closed(d, mask, w) <=> \A j \in d : near[j] \subseteq d
  BY <1>1, <1>2 DEF Closed
<1> HIDE DEF near
<1>6. \A i \in L : /\ Reached(near, i) \in SUBSET L /\ i \in Reached(near, i)
                   /\ Closed(Reached(near, i), mask, w)
                   /\ \A d \in SUBSET L : i \in d /\ Closed(d, mask, w)
                                            => Reached(near, i) \subseteq d
  <2> HIDE DEF L
  <2> TAKE i \in L
  <2>1. /\ Reached(near, i) \subseteq L /\ i \in Reached(near, i)
        /\ \A j \in Reached(near, i) : near[j] \subseteq Reached(near, i)
        /\ \A d \in SUBSET L : i \in d /\ (\A j \in d : near[j] \subseteq d)
                                 => Reached(near, i) \subseteq d
    BY <1>1, <1>2, ReachedIs
  <2> QED
    BY <1>5, <2>1
<1> SUFFICES ASSUME NEW c
             PROVE  c \in Components(mask, w) <=>
                      /\ c \in SUBSET L /\ c # {} /\ Closed(c, mask, w)
                      /\ \A d \in SUBSET L :
                           d # {} /\ Closed(d, mask, w) /\ d \subseteq c => d = c
  OBVIOUS
<1> HIDE DEF L
<1>7. ASSUME c \in Components(mask, w),
             NEW d \in SUBSET L, d # {}, Closed(d, mask, w), d \subseteq c
      PROVE  d = c
  <2>1. PICK i \in L : c = Reached(near, i)
    BY <1>4, <1>7
  <2>2. CASE i \in d
    BY <1>6, <1>7, <2>1, <2>2
  <2>3. CASE i \notin d
    <3> DEFINE e == c \ d
    <3>1. c \in SUBSET L /\ i \in e /\ e \in SUBSET L
      BY <1>6, <2>1, <2>3
    <3>2. ASSUME NEW j \in e PROVE near[j] \subseteq e
      <4>1. near[j] \subseteq c
        BY <1>5, <1>6, <2>1, <3>1
      <4>2. ASSUME NEW m \in near[j], m \in d PROVE FALSE
        <5>1. m \in L /\ j \in L
          BY <1>2, <3>1, <4>2
        <5>2. j \in near[m]
          BY <1>3, <4>2, <5>1
        <5> QED
          BY <1>5, <1>7, <4>2, <5>2
      <4> QED
        BY <4>1, <4>2
    <3>3. c \subseteq e
      BY <1>5, <1>6, <2>1, <3>1, <3>2
    <3> QED
      BY <1>7, <3>3
  <2> QED
    BY <2>2, <2>3
<1>8. ASSUME c \in Components(mask, w)
      PROVE  c \in SUBSET L /\ c # {} /\ Closed(c, mask, w)
  BY <1>4, <1>6, <1>8
<1>9. ASSUME c \in SUBSET L, c # {}, Closed(c, mask, w),
             \A d \in SUBSET L : d # {} /\ Closed(d, mask, w) /\ d \subseteq c => d = c
      PROVE  c \in Components(mask, w)
  <2>1. PICK i \in c : TRUE
    BY <1>9
  <2>2. Reached(near, i) = c
    BY <1>6, <1>9
  <2> QED
    BY <1>4, <1>9, <2>2
<1> QED
  BY <1>7, <1>8, <1>9

\* The components the labelling has found are the connected components.
LEMMA RootsAreComponents ==
  ASSUME NEW n \in Nat, NEW w \in Nat \ {0}, NEW mask, DOMAIN mask = 0 .. n - 1,
         NEW s \in Labelling(n), LabelInv(s, n, mask, w), Len(s.parent) + 1 < MaxLabels
  PROVE  /\ \A l \in Roots(s) : Component(s, l) \in Components(mask, w)
         /\ \A l, m \in Roots(s) : Component(s, l) = Component(s, m) => l = m
         /\ \A c \in Components(mask, w) : \E l \in Roots(s) : c = Component(s, l)
<1>1. Lit(mask) = Labelled(s) /\ Lit(mask) \subseteq 0 .. n - 1 /\ Cardinality(0 .. n - 1) = n
  <2>1. \A i \in 0 .. n - 1 : i < n
    OBVIOUS
  <2>2. Labelled(s) \subseteq 0 .. n - 1
    BY DEF Labelled, Labelling
  <2>3. Lit(mask) \subseteq 0 .. n - 1
    BY DEF Lit
  <2>4. Lit(mask) \subseteq Labelled(s)
    BY <2>1 DEF LabelInv, AllLit, Lit
  <2>5. Labelled(s) \subseteq Lit(mask)
    BY <2>2 DEF LabelInv, OnlyLit, Lit
  <2>6. Cardinality(0 .. n - 1) = n
    BY IntervalSize
  <2> QED
    BY <2>3, <2>4, <2>5, <2>6
<1>2. ASSUME NEW l \in Roots(s)
      PROVE  /\ Component(s, l) = {i \in Labelled(s) : RootAt(s, i) = l}
             /\ Component(s, l) \in SUBSET Lit(mask) /\ Component(s, l) # {}
             /\ Closed(Component(s, l), mask, w)
  <2>1. Component(s, l) = {i \in Labelled(s) : RootAt(s, i) = l}
    BY RootsAre
  <2>2. PICK i \in Labelled(s) : s.label[i] = l
    BY RootsAre DEF LabelInv, InUse
  <2>3. RootAt(s, i) = l
    BY <2>2, RootsAre DEF RootAt
  <2>4. ASSUME NEW a \in Component(s, l), NEW b \in Lit(mask), b \in Around(a, w, n)
        PROVE  b \in Component(s, l)
    <3>1. a \in Labelled(s) /\ b \in Labelled(s) /\ a \in 0 .. n - 1
      BY <1>1, <2>1, <2>4
    <3>2. b \in Before(a, w) \/ a \in Before(b, w)
      BY <2>4, <3>1, AroundIs
    <3>3. RootAt(s, a) = RootAt(s, b)
      BY <3>1, <3>2 DEF LabelInv, Joined
    <3> QED
      BY <2>1, <3>1, <3>3
  <2> QED
    BY <1>1, <2>1, <2>2, <2>3, <2>4 DEF Closed
<1>3. ASSUME NEW d \in SUBSET Lit(mask), Closed(d, mask, w), NEW i \in d
      PROVE  /\ RootAt(s, i) \in Roots(s) /\ i \in Component(s, RootAt(s, i))
             /\ Component(s, RootAt(s, i)) \subseteq d
  <2>1. i \in Labelled(s) /\ RootAt(s, i) \in Roots(s)
    BY <1>1, RootsAre
  <2>2. Component(s, RootAt(s, i)) = {j \in Labelled(s) : RootAt(s, j) = RootAt(s, i)}
    BY <1>2, <2>1
  <2> QED
    BY <1>3, <2>1, <2>2 DEF LabelInv, Separate
<1>4. ASSUME NEW l \in Roots(s) PROVE Component(s, l) \in Components(mask, w)
  <2>1. ASSUME NEW d \in SUBSET Lit(mask), d # {}, Closed(d, mask, w), d \subseteq Component(s, l)
        PROVE  d = Component(s, l)
    <3>1. PICK i \in d : TRUE
      BY <2>1
    <3>2. RootAt(s, i) = l
      BY <1>2, <2>1
    <3> QED
      BY <1>3, <2>1, <3>2
  <2> QED
    BY <1>2, <2>1, ComponentsAre
<1>5. ASSUME NEW l \in Roots(s), NEW m \in Roots(s), Component(s, l) = Component(s, m)
      PROVE  l = m
  BY <1>2, <1>5
<1>6. ASSUME NEW c \in Components(mask, w) PROVE \E l \in Roots(s) : c = Component(s, l)
  <2>1. /\ c \in SUBSET Lit(mask) /\ c # {} /\ Closed(c, mask, w)
        /\ \A d \in SUBSET Lit(mask) :
             d # {} /\ Closed(d, mask, w) /\ d \subseteq c => d = c
    BY ComponentsAre
  <2>2. PICK i \in c : TRUE
    BY <2>1
  <2> DEFINE l == RootAt(s, i)
  <2>3. l \in Roots(s) /\ Component(s, l) \subseteq c
    BY <1>3, <2>1
  <2> HIDE DEF l
  <2>4. Component(s, l) = c
    BY <1>2, <2>1, <2>3
  <2> QED
    BY <2>3, <2>4
<1> QED
  BY <1>4, <1>5, <1>6

-----------------------------------------------------------------------------
(* The list of blobs *)

LEMMA GreatestIn ==
  ASSUME NEW S, S \subseteq Nat, S # {}, NEW m \in Nat, \A x \in S : x <= m
  PROVE  Greatest(S) \in S /\ \A y \in S : Greatest(S) >= y
<1>1. \E x \in S : \A y \in S : x >= y
  BY LargestIn
<1> QED
  BY <1>1 DEF Greatest

\* Least of a set of naturals is one of them.
LEMMA LeastIn ==
  ASSUME NEW S, S \subseteq Nat, S # {}
  PROVE  Least(S) \in S /\ \A y \in S : Least(S) <= y
<1>1. \E x \in S : \A y \in S : x <= y
  BY SmallestIn
<1> QED
  BY <1>1 DEF Least

\* An injection of 1 .. n into itself takes every value.
OneToOne(f, n) ==
  f \in [1 .. n -> 1 .. n] /\ \A i, j \in 1 .. n : f[i] = f[j] => i = j

LEMMA InjectionIsOnto ==
  ASSUME NEW n \in Nat, NEW f, OneToOne(f, n)
  PROVE  \A k \in 1 .. n : \E i \in 1 .. n : f[i] = k
<1>1. f \in Injection(1 .. n, 1 .. n)
  BY DEF OneToOne, Injection, IsInjective
<1>2. IsFiniteSet(1 .. n)
  BY IntervalSize
<1>3. f \in Surjection(1 .. n, 1 .. n)
  BY <1>1, <1>2, FS_Injection
<1> QED
  BY <1>3 DEF Surjection

\* The sorting: a permutation after which no area is larger than the one before.
LEMMA ByAreaSorts ==
  ASSUME NEW n \in Nat, NEW kept, DOMAIN kept = 1 .. n,
         \A i \in 1 .. n : kept[i].area \in Nat
  PROVE  \E from \in [1 .. n -> 1 .. n] :
           /\ \A i, j \in 1 .. n : from[i] = from[j] => i = j
           /\ \A i \in 1 .. n : \E k \in 1 .. n : from[k] = i
           /\ ByArea(kept) = [k \in 1 .. n |-> kept[from[k]]]
           /\ \A j, k \in 1 .. n : j < k => kept[from[j]].area >= kept[from[k]].area
<1> DEFINE Upon(i) == {j \in DOMAIN kept : \/ kept[j].area > kept[i].area
                                           \/ kept[j].area = kept[i].area /\ j <= i}
           rank == [i \in 1 .. n |-> Cardinality(Upon(i))]
           from == [k \in 1 .. n |-> CHOOSE i \in DOMAIN kept : Cardinality(Upon(i)) = k]
<1>1. IsFiniteSet(1 .. n) /\ Cardinality(1 .. n) = n
  BY IntervalSize
<1>2. ASSUME NEW i \in 1 .. n
      PROVE  i \in Upon(i) /\ Upon(i) \in SUBSET (1 .. n)
  OBVIOUS
<1>3. ASSUME NEW i \in 1 .. n, NEW j \in 1 .. n, i # j,
             \/ kept[i].area > kept[j].area
             \/ kept[i].area = kept[j].area /\ i < j
      PROVE  Upon(i) \subseteq Upon(j) /\ j \notin Upon(i)
  BY <1>3
<1> HIDE DEF Upon
<1>4. ASSUME NEW i \in 1 .. n PROVE IsFiniteSet(Upon(i)) /\ rank[i] \in 1 .. n
  <2>1. IsFiniteSet(Upon(i)) /\ Cardinality(Upon(i)) <= n
    BY <1>1, <1>2, FS_Subset
  <2>2. Cardinality(Upon(i)) \in Nat /\ Cardinality(Upon(i)) # 0
    BY <1>2, <2>1, FS_CardinalityType, FS_EmptySet
  <2> QED
    BY <2>1, <2>2
<1>5. ASSUME NEW i \in 1 .. n, NEW j \in 1 .. n, i # j,
             \/ kept[i].area > kept[j].area
             \/ kept[i].area = kept[j].area /\ i < j
      PROVE  rank[i] < rank[j]
  <2>1. Upon(i) \in SUBSET Upon(j) /\ Upon(i) # Upon(j)
    BY <1>2, <1>3, <1>5
  <2>2. Cardinality(Upon(i)) <= Cardinality(Upon(j))
        /\ Cardinality(Upon(i)) # Cardinality(Upon(j))
    BY <1>4, <2>1, FS_Subset
  <2>3. rank[i] = Cardinality(Upon(i)) /\ rank[j] = Cardinality(Upon(j))
    OBVIOUS
  <2> QED
    BY <1>4, <2>2, <2>3
<1> HIDE DEF rank
<1>6. \A i, j \in 1 .. n : rank[i] = rank[j] => i = j
  <2> SUFFICES ASSUME NEW i \in 1 .. n, NEW j \in 1 .. n, i # j
               PROVE  rank[i] # rank[j]
    OBVIOUS
  <2>1. \/ kept[i].area > kept[j].area
        \/ kept[i].area = kept[j].area /\ i < j
        \/ kept[j].area > kept[i].area
        \/ kept[j].area = kept[i].area /\ j < i
    OBVIOUS
  <2>2. rank[i] < rank[j] \/ rank[j] < rank[i]
    BY <1>5, <2>1
  <2>3. rank[i] \in Nat /\ rank[j] \in Nat
    BY <1>4
  <2> QED
    BY <2>2, <2>3
<1>7. rank \in [1 .. n -> 1 .. n]
  BY <1>4 DEF rank
<1>8. ASSUME NEW k \in 1 .. n PROVE from[k] \in 1 .. n /\ rank[from[k]] = k
  <2>1. \E i \in 1 .. n : rank[i] = k
    <3>1. OneToOne(rank, n)
      BY <1>6, <1>7 DEF OneToOne
    <3> HIDE DEF from
    <3>2. \A j \in 1 .. n : \E i \in 1 .. n : rank[i] = j
      BY <3>1, InjectionIsOnto
    <3> QED
      BY <3>2
  <2>2. \A i \in 1 .. n : rank[i] = Cardinality(Upon(i))
    BY DEF rank
  <2> QED
    BY <2>1, <2>2
<1>9. ByArea(kept) = [k \in 1 .. n |-> kept[from[k]]]
  <2>1. ByArea(kept) =
          [k \in DOMAIN kept |-> kept[CHOOSE i \in DOMAIN kept : Cardinality(Upon(i)) = k]]
    BY Zenon DEF ByArea, Upon
  <2> QED
    BY <2>1
<1> HIDE DEF from
<1>10. from \in [1 .. n -> 1 .. n]
  BY <1>8 DEF from
<1>11. \A i, j \in 1 .. n : from[i] = from[j] => i = j
  BY <1>8
<1>12. \A i \in 1 .. n : \E k \in 1 .. n : from[k] = i
  <2> SUFFICES ASSUME NEW i \in 1 .. n PROVE \E k \in 1 .. n : from[k] = i
    OBVIOUS
  <2>1. rank[i] \in 1 .. n
    BY <1>7
  <2>2. rank[from[rank[i]]] = rank[i] /\ from[rank[i]] \in 1 .. n
    BY <1>8, <2>1
  <2> QED
    BY <1>6, <2>1, <2>2
<1>13. ASSUME NEW j \in 1 .. n, NEW k \in 1 .. n, j < k
       PROVE  kept[from[j]].area >= kept[from[k]].area
  <2>1. from[j] \in 1 .. n /\ from[k] \in 1 .. n /\ rank[from[j]] = j /\ rank[from[k]] = k
    BY <1>8
  <2>2. CASE kept[from[k]].area > kept[from[j]].area
    <3>0. from[k] # from[j]
      BY <1>13, <2>1
    <3>1. rank[from[k]] < rank[from[j]]
      BY <1>5, <2>1, <2>2, <3>0
    <3> QED
      BY <1>13, <2>1, <3>1
  <2> QED
    BY <2>1, <2>2
<1> QED
  BY <1>9, <1>10, <1>11, <1>12, <1>13

\* kept holds the boxes D of the labels of, which are the largest of big: all of
\* them unless they are more than fit.
Chosen(kept, of, big, D) ==
  /\ of \in [DOMAIN kept -> big]
  /\ \A i, j \in DOMAIN kept : of[i] = of[j] => i = j
  /\ \A i \in DOMAIN kept : kept[i] = D[of[i]]
  /\ Len(kept) <= MaxBlobs
  /\ Len(kept) < MaxBlobs => \A l \in big : \E i \in DOMAIN kept : of[i] = l
  /\ \A l \in big : (\A i \in DOMAIN kept : of[i] # l)
                      => \A i \in DOMAIN kept : D[l].area <= kept[i].area

\* One more component is collected, or not: the kept ones remain a choice of the
\* largest.
LEMMA CollectStep ==
  ASSUME NEW R, NEW Boxes, \A b \in Boxes : b.area \in Nat, NEW D \in [R -> Boxes],
         NEW kept \in Seq(Boxes), NEW big \in SUBSET R, NEW of, Chosen(kept, of, big, D),
         NEW l \in R, l \notin big
  PROVE  /\ Collect(kept, D[l]) \in Seq(Boxes)
         /\ \E g : Chosen(Collect(kept, D[l]), g,
                          IF D[l].area < MinArea THEN big ELSE big \cup {l}, D)
<1> DEFINE n == Len(kept)
           b == D[l]
           small == {i \in DOMAIN kept : \A j \in DOMAIN kept : kept[i].area <= kept[j].area}
           smallest == Least(small)
<1>1. /\ n \in Nat /\ DOMAIN kept = 1 .. n /\ MaxBlobs \in Nat /\ MaxBlobs > 0
      /\ \A i \in 1 .. n : kept[i] \in Boxes
      /\ MinArea \in Nat
  BY BlobsAssumption DEF BlobsAssumption
<1>2. b \in Boxes /\ b.area \in Nat /\ \A i \in 1 .. n : kept[i].area \in Nat
  BY <1>1
<1>3. /\ of \in [1 .. n -> big]
      /\ \A i, j \in 1 .. n : of[i] = of[j] => i = j
      /\ \A i \in 1 .. n : kept[i] = D[of[i]]
      /\ n <= MaxBlobs
      /\ n < MaxBlobs => \A m \in big : \E i \in 1 .. n : of[i] = m
      /\ \A m \in big : (\A i \in 1 .. n : of[i] # m)
                          => \A i \in 1 .. n : D[m].area <= kept[i].area
      /\ \A m \in big : D[m].area \in Nat
  BY <1>1 DEF Chosen
<1> HIDE DEF n, b
<1>4. CASE b.area < MinArea
  BY <1>4 DEF Collect, b
<1>5. CASE b.area >= MinArea /\ n < MaxBlobs
  <2> DEFINE k == Append(kept, b)
             g == [i \in 1 .. n + 1 |-> IF i = n + 1 THEN l ELSE of[i]]
  <2>1. Collect(kept, b) = k /\ k \in Seq(Boxes)
    <3>1. ~(b.area < MinArea)
      BY <1>1, <1>2, <1>5
    <3>2. Collect(kept, b) = k
      BY <1>5, <3>1 DEF Collect, n
    <3> QED
      BY <1>2, <3>2
  <2>2. /\ DOMAIN k = 1 .. n + 1 /\ Len(k) = n + 1 /\ k[n + 1] = b
        /\ \A i \in 1 .. n : k[i] = kept[i]
    BY <1>1, <1>2 DEF n
  <2> HIDE DEF k
  <2>3. /\ DOMAIN g = 1 .. n + 1 /\ g[n + 1] = l /\ n + 1 \in 1 .. n + 1
        /\ \A i \in 1 .. n : g[i] = of[i] /\ i \in 1 .. n + 1 /\ i # n + 1
        /\ \A i \in 1 .. n + 1 : i = n + 1 \/ i \in 1 .. n
    BY <1>1
  <2> HIDE DEF g
  <2>4. g \in [1 .. n + 1 -> big \cup {l}]
    <3>1. \A i \in 1 .. n + 1 : g[i] \in big \cup {l}
      BY <1>3, <2>3
    <3> QED
      BY <1>1, <2>3, <3>1 DEF g
  <2>5. \A i, j \in 1 .. n + 1 : g[i] = g[j] => i = j
    <3> TAKE i, j \in 1 .. n + 1
    <3> HAVE g[i] = g[j]
    <3>1. CASE i \in 1 .. n /\ j \in 1 .. n
      BY <1>3, <2>3, <3>1
    <3>2. \A x \in 1 .. n : g[x] # l
      BY <1>3, <2>3
    <3> QED
      BY <2>3, <3>1, <3>2
  <2>6. \A i \in 1 .. n + 1 : k[i] = D[g[i]]
    BY <1>3, <2>2, <2>3 DEF b
  <2>7. \A m \in big \cup {l} : \E i \in 1 .. n + 1 : g[i] = m
    BY <1>3, <1>5, <2>3
  <2>8. n + 1 <= MaxBlobs
    BY <1>1, <1>5
  <2>9. Chosen(k, g, big \cup {l}, D)
    BY <2>2, <2>4, <2>5, <2>6, <2>7, <2>8 DEF Chosen
  <2> QED
    BY <1>1, <1>2, <1>5, <2>1, <2>9 DEF b
<1>6. CASE b.area >= MinArea /\ n = MaxBlobs
  <2>1. small \subseteq Nat /\ small # {}
    <3> DEFINE areas == {kept[i].area : i \in 1 .. n}
    <3>1. areas \subseteq Nat
      BY <1>2
    <3>2. kept[1].area \in areas
      BY <1>1, <1>6
    <3>3. PICK a \in areas : \A c \in areas : a <= c
      BY <3>1, <3>2, SmallestIn
    <3>4. PICK i \in 1 .. n : kept[i].area = a
      BY <3>3
    <3>5. i \in small
      BY <1>1, <3>3, <3>4
    <3>6. small \subseteq 1 .. n
      BY <1>1
    <3> HIDE DEF small
    <3> QED
      BY <1>1, <3>5, <3>6
  <2>2. smallest \in small
    BY <2>1, LeastIn
  <2>3. smallest \in 1 .. n /\ \A i \in 1 .. n : kept[smallest].area <= kept[i].area
    BY <1>1, <2>2
  <2> DEFINE z == smallest
  <2>4. Collect(kept, b) = IF b.area > kept[z].area THEN [kept EXCEPT ![z] = b] ELSE kept
    <3>1. ~(b.area < MinArea) /\ ~(n < MaxBlobs)
      BY <1>1, <1>2, <1>6
    <3> QED
      BY <3>1 DEF Collect, n
  <2> HIDE DEF smallest, z, small
  <2>5. CASE b.area > kept[z].area
    <3> DEFINE k == [kept EXCEPT ![z] = b]
               g == [of EXCEPT ![z] = l]
    <3>1. /\ k \in Seq(Boxes) /\ DOMAIN k = 1 .. n /\ Len(k) = n /\ k[z] = b
          /\ \A i \in 1 .. n : i # z => k[i] = kept[i]
      BY <1>1, <1>2, <2>3 DEF n, z
    <3> HIDE DEF k
    <3>2. /\ g \in [1 .. n -> big \cup {l}] /\ g[z] = l
          /\ \A i \in 1 .. n : i # z => g[i] = of[i]
      BY <1>3, <2>3 DEF z
    <3> HIDE DEF g
    <3>3. \A i, j \in 1 .. n : g[i] = g[j] => i = j
      BY <1>3, <3>2
    <3>4. \A i \in 1 .. n : k[i] = D[g[i]]
      BY <1>3, <3>1, <3>2 DEF b
    <3>5. ASSUME NEW m \in big \cup {l}, \A i \in 1 .. n : g[i] # m, NEW i \in 1 .. n
          PROVE  D[m].area <= k[i].area
      <4>1. m \in big
        BY <2>3, <3>2, <3>5 DEF z
      <4>2. D[m].area <= kept[i].area /\ D[m].area <= kept[z].area
        <5>1. CASE \A j \in 1 .. n : of[j] # m
          BY <1>3, <2>3, <4>1, <5>1 DEF z
        <5>2. CASE \E j \in 1 .. n : of[j] = m
          <6>1. of[z] = m
            BY <3>2, <3>5, <5>2
          <6> QED
            BY <1>2, <1>3, <2>3, <6>1 DEF z
        <5> QED
          BY <5>1, <5>2
      <4>3. D[m].area \in Nat /\ kept[z].area \in Nat
        BY <1>2, <1>3, <2>3, <4>1 DEF z
      <4>4. CASE i = z
        BY <1>2, <2>5, <3>1, <4>2, <4>3, <4>4
      <4> QED
        BY <3>1, <4>2, <4>4
    <3>6. Chosen(k, g, big \cup {l}, D)
      <4>1. Len(k) <= MaxBlobs /\ ~(Len(k) < MaxBlobs)
        BY <1>1, <1>6, <3>1
      <4> QED
        <5>1. DOMAIN k = 1 .. n
          BY <3>1
        <5> QED
          BY <3>2, <3>3, <3>4, <3>5, <4>1, <5>1, Zenon DEF Chosen
    <3> QED
      BY <1>1, <1>2, <1>6, <2>4, <2>5, <3>1, <3>6 DEF b, k
  <2>6. CASE ~(b.area > kept[z].area)
    <3>1. b.area <= kept[z].area
      BY <1>2, <2>3, <2>6 DEF z
    <3>2. \A i \in 1 .. n : b.area <= kept[i].area
      <4> TAKE i \in 1 .. n
      <4>1. kept[z].area <= kept[i].area /\ kept[z].area \in Nat /\ kept[i].area \in Nat
        BY <1>2, <2>3 DEF z
      <4> QED
        BY <1>2, <3>1, <4>1
    <3>3. of \in [1 .. n -> big \cup {l}]
      BY <1>3
    <3>4. \A m \in big \cup {l} : (\A i \in 1 .. n : of[i] # m)
                                    => \A i \in 1 .. n : D[m].area <= kept[i].area
      BY <1>3, <3>2 DEF b
    <3>5. Chosen(kept, of, big \cup {l}, D)
      <4>1. /\ DOMAIN kept = 1 .. n /\ Len(kept) <= MaxBlobs /\ ~(Len(kept) < MaxBlobs)
            /\ \A i, j \in 1 .. n : of[i] = of[j] => i = j
            /\ \A i \in 1 .. n : kept[i] = D[of[i]]
        BY <1>1, <1>3, <1>6 DEF n
      <4> QED
        BY <3>3, <3>4, <4>1, Zenon DEF Chosen
    <3> QED
      BY <1>1, <1>2, <1>6, <2>4, <2>6, <3>5 DEF b
  <2> QED
    BY <2>5, <2>6
<1>7. \/ b.area < MinArea
      \/ b.area >= MinArea /\ n < MaxBlobs
      \/ b.area >= MinArea /\ n = MaxBlobs
  BY <1>1, <1>2, <1>3
<1> QED
  BY <1>4, <1>5, <1>6, <1>7

\* The box of each root's pixels, and the roots of enough of them.
BoxOf(mask, w) ==
  LET s == Provisional(mask, w)
  IN  [l \in Roots(s) |-> Describe(Component(s, l), mask, w)]
Large(mask, w) ==
  LET s == Provisional(mask, w)
  IN  {l \in Roots(s) : Cardinality(Component(s, l)) >= MinArea}

\* The pixels of a root are some, and their box says how many.
LEMMA ComponentType ==
  ASSUME NEW n \in Nat, NEW w \in Nat \ {0}, NEW mask, DOMAIN mask = 0 .. n - 1,
         NEW s, s = Provisional(mask, w), NEW l \in Roots(s)
  PROVE  /\ Component(s, l) \subseteq 0 .. n - 1 /\ Component(s, l) # {}
         /\ IsFiniteSet(Component(s, l)) /\ Cardinality(Component(s, l)) \in Nat
         /\ s.parent \in Forest /\ l \in DOMAIN s.parent
         /\ l \in DOMAIN BoxOf(mask, w)
         /\ BoxOf(mask, w)[l] = Describe(Component(s, l), mask, w)
         /\ BoxOf(mask, w)[l].area = Cardinality(Component(s, l))
<1>1. s \in Labelling(n) /\ LabelInv(s, n, mask, w)
  BY ProvisionalInv
<1>2. /\ s.parent \in Forest /\ l \in DOMAIN s.parent /\ RootOf(s.parent, l) = l
      /\ Component(s, l) = {i \in Labelled(s) : RootAt(s, i) = l}
      /\ Labelled(s) \subseteq 0 .. n - 1
  BY <1>1, RootsAre DEF Labelling, Labelled
<1>3. PICK i \in Labelled(s) : s.label[i] = l
  BY <1>1, <1>2 DEF LabelInv, InUse
<1>4. i \in Component(s, l)
  BY <1>2, <1>3 DEF RootAt
<1>5. IsFiniteSet(Component(s, l)) /\ Cardinality(Component(s, l)) \in Nat
  <2>1. IsFiniteSet(0 .. n - 1) /\ Component(s, l) \in SUBSET (0 .. n - 1)
    BY <1>2, FS_Interval
  <2> QED
    BY <2>1, FS_Subset, FS_CardinalityType
<1>6. l \in DOMAIN BoxOf(mask, w) /\ BoxOf(mask, w)[l] = Describe(Component(s, l), mask, w)
  BY DEF BoxOf
<1>7. BoxOf(mask, w)[l].area = Cardinality(Component(s, l))
  BY <1>6 DEF Describe
<1> QED
  BY <1>2, <1>4, <1>5, <1>6, <1>7

\* Collecting the components, one label after the other, and sorting them.
LEMMA FoundAre ==
  ASSUME NEW n \in Nat, NEW w \in Nat \ {0}, NEW mask, DOMAIN mask = 0 .. n - 1,
         NEW found, found = FindBlobs(mask, w)
  PROVE  /\ found \in Seq({BoxOf(mask, w)[l] : l \in DOMAIN BoxOf(mask, w)})
         /\ \E of : Chosen(found, of, Large(mask, w), BoxOf(mask, w))
         /\ \A j, k \in DOMAIN found : j < k => found[j].area >= found[k].area
<1> DEFINE s == Provisional(mask, w)
           R == Roots(s)
           D == BoxOf(mask, w)
           N == Len(s.parent)
           Boxes == {D[l] : l \in DOMAIN D}
           Step(kept, l) == IF l \in R
                            THEN Collect(kept, Describe(Component(s, l), mask, w)) ELSE kept
           Def(a) == [k \in 0 .. N |-> IF k = 0 THEN <<>> ELSE Step(a[k - 1], k)]
           T == Seq(Boxes)
           F == [x \in T \X (1 .. N) |-> Step(x[1], x[2])]
           A == CHOOSE a : a = Def(a)
           Big(k) == {l \in R : l <= k /\ D[l].area >= MinArea}
<1>1. s \in Labelling(n) /\ s.parent \in Forest
  <2>1. s \in Labelling(n)
    BY ProvisionalInv
  <2> HIDE DEF s
  <2> QED
    BY <2>1 DEF Labelling
<1>2. N \in Nat /\ R \subseteq 1 .. N
  <2> HIDE DEF s
  <2> QED
    BY <1>1, ForestFacts, RootsAre
<1>3. DOMAIN D = R
  BY DEF BoxOf
<1>4. \A l \in R : /\ D[l] = Describe(Component(s, l), mask, w) /\ D[l].area \in Nat
                   /\ D[l].area = Cardinality(Component(s, l))
  BY ComponentType
<1>5. D \in [R -> Boxes] /\ \A b \in Boxes : b.area \in Nat
  <2>1. D \in [R -> Boxes]
    BY Zenon DEF BoxOf
  <2> HIDE DEF R, D
  <2> QED
    BY <1>3, <1>4, <2>1
<1> HIDE DEF s, R, D, N, Boxes, Step, T, Big, F, A, Def
<1>6. /\ Big(0) = {}
      /\ \A k \in 1 .. N : k \notin R => Big(k) = Big(k - 1)
      /\ \A k \in R : /\ Big(k - 1) \in SUBSET R /\ k \notin Big(k - 1)
                      /\ Big(k) = IF D[k].area < MinArea THEN Big(k - 1)
                                                         ELSE Big(k - 1) \cup {k}
  <2>1. \A l \in R, k \in 1 .. N : l <= k <=> l <= k - 1 \/ l = k
    BY <1>2
  <2>2. \A l \in R : ~(l <= 0) /\ ~(l <= l - 1) /\ l \in 1 .. N
    BY <1>2
  <2>3. \A l \in R : D[l].area >= MinArea <=> ~(D[l].area < MinArea)
    <3>1. MinArea \in Nat
      BY BlobsAssumption DEF BlobsAssumption
    <3> QED
      BY <1>4, <3>1
  <2>4. Big(0) = {}
    BY <2>2 DEF Big
  <2>5. ASSUME NEW k \in 1 .. N, k \notin R PROVE Big(k) = Big(k - 1)
    <3>1. \A l \in R : l <= k <=> l <= k - 1
      BY <2>1, <2>5
    <3> QED
      BY <3>1 DEF Big
  <2>6. ASSUME NEW k \in R
        PROVE  /\ Big(k - 1) \in SUBSET R /\ k \notin Big(k - 1)
               /\ Big(k) = IF D[k].area < MinArea THEN Big(k - 1) ELSE Big(k - 1) \cup {k}
    <3>1. \A l \in R : l <= k <=> l <= k - 1 \/ l = k
      BY <2>1, <2>2
    <3>2. \A l \in R : l \in Big(k) <=> (l <= k - 1 \/ l = k) /\ D[l].area >= MinArea
      BY <3>1 DEF Big
    <3>3. \A l \in R : l \in Big(k - 1) <=> l <= k - 1 /\ D[l].area >= MinArea
      BY DEF Big
    <3>4. Big(k) \subseteq R /\ Big(k - 1) \subseteq R
      BY DEF Big
    <3>5. CASE D[k].area < MinArea
      <4>1. \A l \in R : l \in Big(k) <=> l \in Big(k - 1)
        BY <2>3, <3>2, <3>3, <3>5
      <4> QED
        BY <2>2, <3>3, <3>4, <3>5, <4>1
    <3>6. CASE ~(D[k].area < MinArea)
      <4>1. \A l \in R : l \in Big(k) <=> l \in Big(k - 1) \/ l = k
        BY <2>3, <3>2, <3>3, <3>6
      <4> QED
        BY <2>2, <3>3, <3>4, <3>6, <4>1
    <3> QED
      BY <3>5, <3>6
  <2> QED
    BY <2>4, <2>5, <2>6
<1>7. ASSUME NEW got \in T, NEW k \in 1 .. N, NEW of, Chosen(got, of, Big(k - 1), D)
      PROVE  Step(got, k) \in T /\ \E g : Chosen(Step(got, k), g, Big(k), D)
  <2>1. CASE k \notin R
    BY <1>6, <1>7, <2>1 DEF Step
  <2>2. CASE k \in R
    <3>1. /\ Collect(got, D[k]) \in T
          /\ \E g : Chosen(Collect(got, D[k]), g, Big(k), D)
      <4>1. Big(k - 1) \in SUBSET R /\ k \notin Big(k - 1) /\ got \in Seq(Boxes)
        BY <1>6, <1>7, <2>2 DEF T
      <4>2. /\ Collect(got, D[k]) \in Seq(Boxes)
            /\ \E g : Chosen(Collect(got, D[k]), g,
                             IF D[k].area < MinArea THEN Big(k - 1)
                             ELSE Big(k - 1) \cup {k}, D)
        BY <1>5, <1>7, <2>2, <4>1, CollectStep
      <4> DEFINE C == Collect(got, D[k])
                 after == IF D[k].area < MinArea THEN Big(k - 1) ELSE Big(k - 1) \cup {k}
      <4>3. Big(k) = after /\ C \in Seq(Boxes) /\ \E g : Chosen(C, g, after, D)
        BY <1>6, <2>2, <4>2
      <4> HIDE DEF C, after
      <4>4. C \in T /\ \E g : Chosen(C, g, Big(k), D)
        BY <4>3 DEF T
      <4> QED
        BY <4>4 DEF C
    <3> QED
      BY <1>4, <2>2, <3>1 DEF Step
  <2> QED
    BY <2>1, <2>2
<1>8. ASSUME NEW got \in T, NEW k \in 1 .. N PROVE Step(got, k) \in T
  <2>1. CASE k \in R
    <3> DEFINE b == D[k]
    <3>1. b \in Boxes /\ Step(got, k) = Collect(got, b) /\ got \in Seq(Boxes)
      BY <1>4, <1>5, <2>1 DEF Step, T
    <3> HIDE DEF b
    <3>2. Append(got, b) \in Seq(Boxes)
      BY <3>1
    <3>3. ASSUME NEW z PROVE [got EXCEPT ![z] = b] \in Seq(Boxes)
      <4>1. got \in [1 .. Len(got) -> Boxes] /\ Len(got) \in Nat
        BY <3>1
      <4>2. [got EXCEPT ![z] = b] \in [1 .. Len(got) -> Boxes]
        BY <3>1, <4>1
      <4> QED
        BY <4>1, <4>2
    <3>4. Collect(got, b) \in Seq(Boxes)
      BY <3>1, <3>2, <3>3, Zenon DEF Collect
    <3> QED
      BY <3>1, <3>4 DEF T
  <2> QED
    BY <2>1 DEF Step
<1>70. ASSUME NEW a, a[0] = <<>>, NEW m \in 0 .. N, \A k \in 1 .. m : a[k] = Step(a[k - 1], k)
      PROVE  a[m] \in T /\ \E of : Chosen(a[m], of, Big(m), D)
  <2> DEFINE S == {k \in Nat : k <= m => a[k] \in T /\ \E of : Chosen(a[k], of, Big(k), D)}
  <2>1. 0 \in S
    <3>1. <<>> \in T /\ Chosen(<<>>, <<>>, {}, D)
      <4>1. <<>> \in [{} -> {}] /\ DOMAIN <<>> = {} /\ Len(<<>>) = 0
        OBVIOUS
      <4>2. 0 <= MaxBlobs
        BY BlobsAssumption DEF BlobsAssumption
      <4>3. <<>> \in T
        BY DEF T
      <4> QED
        BY <4>1, <4>2, <4>3 DEF Chosen
    <3> QED
      <4>1. Big(0) = {}
        BY <1>6
      <4> QED
        BY <1>70, <3>1, <4>1
  <2>2. ASSUME NEW k \in Nat, k \in S PROVE k + 1 \in S
    <3> SUFFICES ASSUME k + 1 <= m
                 PROVE  a[k + 1] \in T /\ \E of : Chosen(a[k + 1], of, Big(k + 1), D)
      OBVIOUS
    <3>1. k + 1 \in 1 .. N /\ (k + 1) - 1 = k /\ k + 1 \in 1 .. m /\ k <= m
      BY <1>2
    <3>2. a[k + 1] = Step(a[k], k + 1)
      BY <1>70, <3>1
    <3>3. a[k] \in T
      BY <2>2, <3>1
    <3>4. PICK of : Chosen(a[k], of, Big(k), D)
      BY <2>2, <3>1
    <3> QED
      BY <1>7, <3>1, <3>2, <3>3, <3>4
  <2>3. m \in Nat /\ m <= m
    BY <1>2
  <2> HIDE DEF S
  <2>4. m \in S
    BY <2>1, <2>2, <2>3, Induction
  <2> QED
    BY <2>3, <2>4 DEF S
<1>9. PICK a : IsRun(a, T, <<>>, N, F)
  <2>1. F \in [T \X (1 .. N) -> T] /\ <<>> \in T
    <3>1. <<>> \in T
      BY DEF T
    <3> QED
      BY <1>8, <3>1 DEF F
  <2> QED
    BY <1>2, <2>1, LoopRuns
<1> USE DEF Def
<1>10. a = Def(a)
  <2>1. ASSUME NEW k \in 1 .. N PROVE a[k] = Step(a[k - 1], k)
    <3>1. <<a[k - 1], k>> \in T \X (1 .. N)
      <4>1. k - 1 \in 0 .. N
        BY <1>2
      <4> QED
        BY <1>9, <4>1 DEF IsRun
    <3>2. a[k] = F[<<a[k - 1], k>>]
      BY <1>9 DEF IsRun
    <3> QED
      BY <3>1, <3>2 DEF F
  <2> QED
    BY <1>2, <1>9, <2>1 DEF IsRun
<1>11. A = Def(A)
  BY <1>10 DEF A
<1> DEFINE kept == A[N]
<1>12. FindBlobs(mask, w) = ByArea(kept)
  BY DEF FindBlobs, Loop, s, R, N, A, Step
<1>13. A[0] = <<>> /\ \A k \in 1 .. N : A[k] = Step(A[k - 1], k)
  BY <1>2, <1>11
<1>14. kept \in T /\ \E of : Chosen(kept, of, Big(N), D)
  <2> QED
    BY <1>2, <1>70, <1>13
<1>15. Big(N) = Large(mask, w)
  <2>1. \A l \in R : l <= N
    BY <1>2
  <2> QED
    BY <1>4, <2>1 DEF Large, s, R, Big
<1> HIDE DEF kept
<1>16. PICK of : Chosen(kept, of, Large(mask, w), D)
  BY <1>14, <1>15
<1> DEFINE c == Len(kept)
           big == Large(mask, w)
<1>17. /\ c \in Nat /\ DOMAIN kept = 1 .. c /\ \A i \in 1 .. c : kept[i] \in Boxes
  BY <1>14 DEF T
<1> HIDE DEF c, big
<1>18. /\ of \in [1 .. c -> big]
       /\ \A i, j \in 1 .. c : of[i] = of[j] => i = j
       /\ \A i \in 1 .. c : kept[i] = D[of[i]]
       /\ c <= MaxBlobs
       /\ c < MaxBlobs => \A l \in big : \E i \in 1 .. c : of[i] = l
       /\ \A l \in big : (\A i \in 1 .. c : of[i] # l)
                           => \A i \in 1 .. c : D[l].area <= kept[i].area
  BY <1>16, <1>17 DEF Chosen, c, big
<1>19. PICK from \in [1 .. c -> 1 .. c] :
           /\ \A i, j \in 1 .. c : from[i] = from[j] => i = j
           /\ \A i \in 1 .. c : \E k \in 1 .. c : from[k] = i
           /\ ByArea(kept) = [k \in 1 .. c |-> kept[from[k]]]
           /\ \A j, k \in 1 .. c : j < k => kept[from[j]].area >= kept[from[k]].area
  <2>1. \A i \in 1 .. c : kept[i].area \in Nat
    BY <1>5, <1>17
  <2> QED
    BY <1>17, <2>1, ByAreaSorts
<1>20. found = [k \in 1 .. c |-> kept[from[k]]]
  BY <1>12, <1>19
<1>21. /\ DOMAIN found = 1 .. c /\ found \in Seq(Boxes) /\ Len(found) = c
       /\ \A k \in 1 .. c : found[k] = kept[from[k]]
  <2>1. \A k \in 1 .. c : kept[from[k]] \in Boxes
    BY <1>17, <1>19
  <2>2. found \in [1 .. c -> Boxes]
    BY <1>20, <2>1
  <2>3. found \in Seq(Boxes)
    BY <1>17, <2>2
  <2> QED
    BY <1>17, <1>20, <2>2, <2>3
<1> DEFINE g == [k \in 1 .. c |-> of[from[k]]]
<1>22. /\ g \in [1 .. c -> big] /\ \A k \in 1 .. c : g[k] = of[from[k]] /\ from[k] \in 1 .. c
  BY <1>18, <1>19
<1> HIDE DEF g
<1>23. Chosen(found, g, big, D)
  <2>1. ASSUME NEW i \in 1 .. c, NEW j \in 1 .. c, g[i] = g[j] PROVE i = j
    <3>1. from[i] = from[j]
      BY <1>18, <1>22, <2>1
    <3> QED
      BY <1>19, <3>1
  <2>2. ASSUME NEW i \in 1 .. c PROVE found[i] = D[g[i]]
    <3>1. found[i] = kept[from[i]] /\ kept[from[i]] = D[of[from[i]]]
      BY <1>18, <1>21, <1>22
    <3> QED
      BY <1>22, <3>1
  <2>3. ASSUME c < MaxBlobs, NEW l \in big PROVE \E i \in 1 .. c : g[i] = l
    BY <1>18, <1>19, <1>22, <2>3
  <2>4. ASSUME NEW l \in big, \A i \in 1 .. c : g[i] # l, NEW i \in 1 .. c
        PROVE  D[l].area <= found[i].area
    <3>1. ASSUME NEW j \in 1 .. c PROVE of[j] # l
      <4>1. PICK k \in 1 .. c : from[k] = j
        BY <1>19
      <4> QED
        BY <1>22, <2>4, <4>1
    <3>2. from[i] \in 1 .. c
      BY <1>19
    <3> QED
      BY <1>18, <1>21, <3>1, <3>2
  <2>5. /\ g \in [DOMAIN found -> big] /\ DOMAIN found = 1 .. c /\ Len(found) = c
        /\ c <= MaxBlobs
    BY <1>18, <1>21, <1>22
  <2> HIDE DEF c
  <2> QED
    <3>1. \A i, j \in DOMAIN found : g[i] = g[j] => i = j
      BY <2>1, <2>5
    <3>2. \A i \in DOMAIN found : found[i] = D[g[i]]
      BY <2>2, <2>5
    <3>3. Len(found) < MaxBlobs => \A l \in big : \E i \in DOMAIN found : g[i] = l
      BY <2>3, <2>5
    <3>4. \A l \in big : (\A i \in DOMAIN found : g[i] # l)
                           => \A i \in DOMAIN found : D[l].area <= found[i].area
      BY <2>4, <2>5
    <3>5. g \in [DOMAIN found -> big]
      BY <2>5
    <3>6. Len(found) <= MaxBlobs
      BY <2>5
    <3> QED
      BY <3>1, <3>2, <3>3, <3>4, <3>5, <3>6, Zenon DEF Chosen
<1>24. ASSUME NEW j \in 1 .. c, NEW k \in 1 .. c, j < k
       PROVE  found[j].area >= found[k].area
  <2>1. kept[from[j]].area >= kept[from[k]].area
    BY <1>19, <1>24
  <2>2. found[j] = kept[from[j]] /\ found[k] = kept[from[k]]
    BY <1>21
  <2> QED
    BY <2>1, <2>2
<1> QED
  BY <1>21, <1>23, <1>24 DEF Boxes, D, big

\* The blob finder does what it is for, whatever the mask (blob_finder.c:75).
THEOREM BlobsAreComponents ==
  ASSUME NEW n \in Nat, NEW w \in Nat \ {0}, NEW mask, DOMAIN mask = 0 .. n - 1
  PROVE  FindsComponents(mask, w)
<1> DEFINE s == Provisional(mask, w)
           R == Roots(s)
           C == [l \in R |-> Component(s, l)]
           found == FindBlobs(mask, w)
           big == Large(mask, w)
           large == {c \in Components(mask, w) : Cardinality(c) >= MinArea}
           D == BoxOf(mask, w)
           N == Len(s.parent)
<1> SUFFICES ASSUME N + 1 < MaxLabels
    PROVE  \E of \in [DOMAIN found -> large] :
        /\ \A j, k \in DOMAIN found : of[j] = of[k] => j = k
        /\ \A k \in DOMAIN found : found[k] = Describe(of[k], mask, w)
        /\ Len(found) = Upto(MaxBlobs, Cardinality(large))
        /\ \A c \in large : (\A k \in DOMAIN found : of[k] # c)
                              => \A k \in DOMAIN found : Cardinality(c) <= found[k].area
        /\ \A j, k \in DOMAIN found : j < k => found[j].area >= found[k].area
  BY DEF FindsComponents
<1>1. /\ \A l \in R : C[l] \in Components(mask, w)
      /\ \A l, m \in R : C[l] = C[m] => l = m
      /\ \A c \in Components(mask, w) : \E l \in R : c = C[l]
      /\ N \in Nat /\ R \subseteq 1 .. N
  <2>1. s \in Labelling(n) /\ LabelInv(s, n, mask, w)
    BY ProvisionalInv
  <2>2. s.parent \in Forest
    BY <2>1 DEF Labelling
  <2> HIDE DEF s
  <2>3. N \in Nat /\ R \subseteq 1 .. N
    BY <2>1, <2>2, ForestFacts, RootsAre
  <2> QED
    BY <2>1, <2>3, RootsAreComponents
<1>2. \A l \in R : /\ D[l] = Describe(C[l], mask, w) /\ D[l].area = Cardinality(C[l])
                   /\ Cardinality(C[l]) \in Nat
  BY ComponentType
<1>3. big = {l \in R : Cardinality(C[l]) >= MinArea}
  BY DEF Large
<1> HIDE DEF s, R, C, N, D, big
<1>4. PICK of : Chosen(found, of, big, D)
  BY FoundAre DEF big, D
<1> DEFINE c == Len(found)
<1>5. /\ c \in Nat /\ DOMAIN found = 1 .. c
      /\ \A j, k \in 1 .. c : j < k => found[j].area >= found[k].area
  <2> HIDE DEF found
  <2>1. /\ found \in Seq({D[l] : l \in DOMAIN D})
        /\ \A j, k \in DOMAIN found : j < k => found[j].area >= found[k].area
    BY FoundAre DEF found, D
  <2> QED
    BY <2>1
<1> HIDE DEF found, c
<1>6. /\ of \in [1 .. c -> big]
      /\ \A i, j \in 1 .. c : of[i] = of[j] => i = j
      /\ \A i \in 1 .. c : found[i] = D[of[i]]
      /\ c <= MaxBlobs
      /\ c < MaxBlobs => \A l \in big : \E i \in 1 .. c : of[i] = l
      /\ \A l \in big : (\A i \in 1 .. c : of[i] # l)
                          => \A i \in 1 .. c : D[l].area <= found[i].area
  BY <1>4, <1>5 DEF Chosen, c
<1>7. big \subseteq R /\ \A l \in big : C[l] \in large
  BY <1>1, <1>3
<1>8. \A x \in large : \E l \in big : x = C[l]
  BY <1>1, <1>3
<1> DEFINE g == [k \in 1 .. c |-> C[of[k]]]
<1>9. /\ g \in [1 .. c -> large]
      /\ \A k \in 1 .. c : g[k] = C[of[k]] /\ of[k] \in big /\ of[k] \in R
  BY <1>6, <1>7
<1> HIDE DEF g
<1>10. ASSUME NEW j \in 1 .. c, NEW k \in 1 .. c, g[j] = g[k] PROVE j = k
  <2>1. C[of[j]] = C[of[k]]
    BY <1>9, <1>10
  <2>2. of[j] = of[k]
    BY <1>1, <1>9, <2>1
  <2> QED
    BY <1>6, <2>2
<1>11. ASSUME NEW k \in 1 .. c PROVE found[k] = Describe(g[k], mask, w)
  BY <1>2, <1>6, <1>9
<1>12. ASSUME NEW x \in large, \A k \in 1 .. c : g[k] # x, NEW k \in 1 .. c
       PROVE  Cardinality(x) <= found[k].area
  <2>1. PICK l \in big : x = C[l]
    BY <1>8
  <2>2. \A i \in 1 .. c : of[i] # l
    BY <1>9, <1>12, <2>1
  <2>3. D[l].area = Cardinality(x)
    BY <1>2, <1>7, <2>1
  <2> QED
    BY <1>6, <2>2, <2>3
<1>13. IsFiniteSet(big) /\ IsFiniteSet(large)
       /\ Cardinality(large) = Cardinality(big) /\ Cardinality(big) \in Nat
  <2>0. IsFiniteSet(1 .. N)
    BY <1>1, FS_Interval
  <2>1. IsFiniteSet(1 .. N) /\ big \in SUBSET (1 .. N)
    BY <1>1, <1>7, <2>0
  <2>2. IsFiniteSet(big) /\ Cardinality(big) \in Nat
    BY <2>1, FS_Subset, FS_CardinalityType
  <2> DEFINE f == [l \in big |-> C[l]]
  <2>3. f \in [big -> large] /\ \A l \in big : f[l] = C[l]
    BY <1>7
  <2> HIDE DEF f
  <2>4. \A l, m \in big : f[l] = f[m] => l = m
    BY <1>1, <1>7, <2>3
  <2>5. \A x \in large : \E l \in big : f[l] = x
    BY <1>8, <2>3
  <2>6. f \in Bijection(big, large)
    BY <2>3, <2>4, <2>5 DEF Bijection, Injection, Surjection, IsInjective
  <2>7. ExistsBijection(big, large)
    BY <2>6 DEF ExistsBijection
  <2> QED
    BY <2>2, <2>7, FS_Bijection
<1>14. IsFiniteSet(1 .. c) /\ Cardinality(1 .. c) = c
  BY <1>5, FS_Interval
<1>15. of \in Injection(1 .. c, big)
  BY <1>6 DEF Injection, IsInjective
<1>16. c <= Cardinality(big)
  BY <1>13, <1>14, <1>15, FS_Injection
<1>17. c < MaxBlobs => c = Cardinality(big)
  <2>1. c < MaxBlobs => of \in Surjection(1 .. c, big)
    BY <1>6 DEF Surjection
  <2> QED
    BY <1>13, <1>14, <1>15, <2>1, FS_Injection
<1>18. c = Upto(MaxBlobs, Cardinality(large))
  <2>1. MaxBlobs \in Nat
    BY BlobsAssumption DEF BlobsAssumption
  <2> QED
    BY <1>5, <1>6, <1>13, <1>16, <1>17, <2>1 DEF Upto
<1> HIDE DEF large
<1>19. g \in [DOMAIN found -> large]
  BY <1>5, <1>9
<1> QED
  BY <1>5, <1>19, <1>10, <1>11, <1>12, <1>18 DEF c

-----------------------------------------------------------------------------
(* Sums *)

\* Induction on the size of finite sets.
LEMMA SizeInduction ==
  ASSUME NEW S, IsFiniteSet(S), NEW P, {} \in P,
         \A s \in SUBSET S : (\A x \in s : s \ {x} \in P) => s \in P
  PROVE  \A s \in SUBSET S : s \in P
<1> DEFINE U == {m \in Nat : \A s \in SUBSET S : Cardinality(s) = m => s \in P}
<1>1. \A s \in SUBSET S : IsFiniteSet(s) /\ Cardinality(s) \in Nat
  BY FS_Subset, FS_CardinalityType
<1>2. 0 \in U
  BY <1>1, FS_EmptySet
<1>3. ASSUME NEW m \in Nat, m \in U PROVE m + 1 \in U
  <2> SUFFICES ASSUME NEW s \in SUBSET S, Cardinality(s) = m + 1 PROVE s \in P
    OBVIOUS
  <2>1. ASSUME NEW x \in s PROVE s \ {x} \in P
    <3>1. Cardinality(s \ {x}) = m
      BY <1>1, FS_RemoveElement
    <3> QED
      BY <1>3, <3>1
  <2> QED
    BY <2>1
<1> HIDE DEF U
<1>4. \A m \in Nat : m \in U
  BY <1>2, <1>3, Induction
<1> QED
  BY <1>1, <1>4 DEF U

\* What is added up, from any end.
Adds(G, S, f) ==
  /\ G \in [SUBSET S -> Nat] /\ G[{}] = 0
  /\ \A s \in SUBSET S : \A x \in s : G[s] = f[x] + G[s \ {x}]

LEMMA TotalIs ==
  ASSUME NEW S, IsFiniteSet(S), NEW f \in [S -> Nat]
  PROVE  \E G : Adds(G, S, f) /\ Total(f) = G[S]
<1> DEFINE Pick(s) == CHOOSE x \in s : TRUE
           Step(g, s) == IF s = {} THEN 0 ELSE f[Pick(s)] + g[s \ {Pick(s)}]
           iter == CHOOSE g : g = [s \in SUBSET S |-> Step(g, s)]
           Upon(m) == {s \in SUBSET S : Cardinality(s) <= m}
           U == {m \in Nat : \E g \in [Upon(m) -> Nat] : \A s \in Upon(m) : g[s] = Step(g, s)}
<1>1. Total(f) = iter[S]
  BY DEF Total, FoldFunction, FoldFunctionOnSet, MapThenFoldSet
<1> HIDE DEF iter
<1>2. \A s \in SUBSET S : /\ IsFiniteSet(s) /\ Cardinality(s) \in Nat
                          /\ Cardinality(s) = 0 <=> s = {}
  BY FS_Subset, FS_CardinalityType, FS_EmptySet
<1>3. \A s \in SUBSET S : s # {} => /\ Pick(s) \in s /\ s \ {Pick(s)} \in SUBSET S
                                    /\ Cardinality(s \ {Pick(s)}) = Cardinality(s) - 1
  BY <1>2, FS_RemoveElement
<1> HIDE DEF Pick
<1>4. 0 \in U
  <2> DEFINE g == [s \in Upon(0) |-> 0]
  <2>1. \A s \in Upon(0) : s = {}
    BY <1>2
  <2>2. g \in [Upon(0) -> Nat] /\ \A s \in Upon(0) : g[s] = Step(g, s)
    BY <2>1
  <2> HIDE DEF g, Upon, Step
  <2> QED
    BY <2>2
<1>5. ASSUME NEW m \in Nat, m \in U PROVE m + 1 \in U
  <2>1. PICK g \in [Upon(m) -> Nat] : \A s \in Upon(m) : g[s] = Step(g, s)
    BY <1>5
  <2> DEFINE h == [s \in Upon(m + 1) |-> Step(g, s)]
  <2>2. \A s \in Upon(m + 1) : s # {} => s \ {Pick(s)} \in Upon(m) /\ Pick(s) \in S
    BY <1>2, <1>3
  <2>3. Upon(m) \subseteq Upon(m + 1)
    BY <1>2
  <2> HIDE DEF Upon
  <2>4. \A s \in Upon(m + 1) : Step(g, s) \in Nat
    BY <2>1, <2>2
  <2>5. \A s \in Upon(m) : h[s] = g[s]
    BY <2>1, <2>3
  <2>6. \A s \in Upon(m + 1) : h[s] = Step(h, s)
    BY <2>2, <2>3, <2>5
  <2>7. h \in [Upon(m + 1) -> Nat]
    BY <2>4
  <2> HIDE DEF h, Step
  <2> QED
    BY <2>6, <2>7
<1> HIDE DEF U
<1>6. \A m \in Nat : m \in U
  BY <1>4, <1>5, Induction
<1>7. PICK g \in [SUBSET S -> Nat] : \A s \in SUBSET S : g[s] = Step(g, s)
  <2>1. Cardinality(S) \in Nat /\ \A s \in SUBSET S : Cardinality(s) <= Cardinality(S)
    BY FS_Subset, FS_CardinalityType
  <2>2. Upon(Cardinality(S)) = SUBSET S
    BY <2>1
  <2> HIDE DEF Step, Upon
  <2> QED
    BY <1>6, <2>1, <2>2 DEF U
<1>8. g = [s \in SUBSET S |-> Step(g, s)]
  <2> HIDE DEF Step
  <2> QED
    BY <1>7
<1>9. iter = [s \in SUBSET S |-> Step(iter, s)]
  BY <1>8 DEF iter
<1> DEFINE G == iter
<1>10. \A s \in SUBSET S : G[s] = Step(G, s)
  <2> HIDE DEF Step
  <2> QED
    BY <1>9
<1>11. G[{}] = 0 /\ \A s \in SUBSET S : s # {} => G[s] = f[Pick(s)] + G[s \ {Pick(s)}]
  BY <1>10
<1> DEFINE N == {s \in SUBSET S : G[s] \in Nat}
<1>12. \A s \in SUBSET S : s \in N
  <2>1. {} \in N
    BY <1>11
  <2>2. ASSUME NEW s \in SUBSET S, \A x \in s : s \ {x} \in N PROVE s \in N
    <3>1. CASE s = {}
      BY <2>1, <3>1
    <3>2. CASE s # {}
      <4> DEFINE c == Pick(s)
      <4>1. c \in s /\ G[s] = f[c] + G[s \ {c}]
        BY <1>3, <1>11, <3>2
      <4> HIDE DEF c
      <4>2. f[c] \in Nat /\ G[s \ {c}] \in Nat
        BY <2>2, <4>1
      <4> QED
        BY <4>1, <4>2
    <3> QED
      BY <3>1, <3>2
  <2> HIDE DEF N
  <2> QED
    BY <2>1, <2>2, SizeInduction
<1>13. G \in [SUBSET S -> Nat]
  <2>1. G = [s \in SUBSET S |-> G[s]]
    BY <1>9
  <2> QED
    BY <1>12, <2>1
<1> HIDE DEF G
<1> DEFINE P == {s \in SUBSET S : \A x \in s : G[s] = f[x] + G[s \ {x}]}
<1>14. \A s \in SUBSET S : s \in P
  <2>1. {} \in P
    OBVIOUS
  <2>2. ASSUME NEW s \in SUBSET S, \A x \in s : s \ {x} \in P PROVE s \in P
    <3> SUFFICES ASSUME NEW x \in s PROVE G[s] = f[x] + G[s \ {x}]
      OBVIOUS
    <3> DEFINE c == Pick(s)
    <3>1. c \in s /\ G[s] = f[c] + G[s \ {c}]
      BY <1>3, <1>11
    <3> HIDE DEF c
    <3>2. CASE x = c
      BY <3>1, <3>2
    <3>3. CASE x # c
      <4>1. G[s \ {c}] = f[x] + G[(s \ {c}) \ {x}]
        BY <2>2, <3>1, <3>3
      <4>2. G[s \ {x}] = f[c] + G[(s \ {x}) \ {c}]
        BY <2>2, <3>1, <3>3
      <4>3. (s \ {c}) \ {x} = (s \ {x}) \ {c}
        OBVIOUS
      <4> DEFINE u == f[c]
                 v == f[x]
                 rest == G[(s \ {x}) \ {c}]
                 sx == G[s \ {x}]
                 sc == G[s \ {c}]
                 all == G[s]
      <4>4. u \in Nat /\ v \in Nat /\ rest \in Nat
        BY <1>13, <3>1
      <4>5. sx = u + rest /\ sc = v + rest /\ all = u + sc
        BY <3>1, <4>1, <4>2, <4>3
      <4> HIDE DEF u, v, rest, sx, sc, all
      <4>6. all = v + sx
        BY <4>4, <4>5
      <4> QED
        BY <4>6 DEF all, v, sx
    <3> QED
      BY <3>2, <3>3
  <2> HIDE DEF P
  <2> QED
    BY <2>1, <2>2, SizeInduction
<1>15. Adds(G, S, f)
  BY <1>11, <1>13, <1>14 DEF Adds, G
<1> QED
  BY <1>1, <1>15 DEF G

-----------------------------------------------------------------------------
(* Merging *)

\* What the merging keeps, whatever it is: lists that stay what they are when a
\* blob absorbs one that is close.
MergeClosed(T) ==
  \A bs \in T : \A i, j \in 1 .. Len(bs) :
    i < j /\ Close(bs[i], bs[j]) => Absorb(bs, i, j) \in T
NoneClose(bs) == \A i, j \in 1 .. Len(bs) : i < j => ~Close(bs[i], bs[j])

Turns(T, i) == [bs : T, j : {j \in Nat : j > i}]

LEMMA AbsorbLen ==
  ASSUME NEW B, NEW bs \in Seq(B), NEW i \in 1 .. Len(bs), NEW j, Absorb(bs, i, j) \in Seq(B)
  PROVE  Len(Absorb(bs, i, j)) = Len(bs) - 1
<1> DEFINE n == Len(bs)
           a == Absorb(bs, i, j)
<1>1. n \in Nat /\ n - 1 \in Nat
  OBVIOUS
<1>2. DOMAIN a = 1 .. n - 1
  BY DEF Absorb
<1>3. DOMAIN a = 1 .. Len(a) /\ Len(a) \in Nat
  OBVIOUS
<1> HIDE DEF a, n
<1>4. Len(a) = n - 1
  BY <1>1, <1>2, <1>3
<1> QED
  BY <1>4 DEF a, n

LEMMA TurnIs ==
  ASSUME NEW B, NEW T, T \subseteq Seq(B), MergeClosed(T),
         NEW i \in Nat \ {0}, NEW s \in Turns(T, i)
  PROVE  /\ Turn(s, i) \in Turns(T, i)
         /\ \/ s.j > Len(s.bs) /\ Turn(s, i) = s
            \/ /\ s.j <= Len(s.bs) /\ Turn(s, i).j = s.j
               /\ Len(Turn(s, i).bs) = Len(s.bs) - 1
            \/ /\ s.j <= Len(s.bs) /\ Turn(s, i).j = s.j + 1 /\ Turn(s, i).bs = s.bs
               /\ ~Close(s.bs[i], s.bs[s.j])
<1>1. /\ s.bs \in T /\ s.bs \in Seq(B) /\ Len(s.bs) \in Nat
      /\ s.j \in Nat /\ s.j > i /\ s = [bs |-> s.bs, j |-> s.j]
  BY DEF Turns
<1>2. CASE s.j > Len(s.bs)
  BY <1>2 DEF Turn
<1>3. CASE s.j <= Len(s.bs) /\ Close(s.bs[i], s.bs[s.j])
  <2> DEFINE a == Absorb(s.bs, i, s.j)
  <2>1. i \in 1 .. Len(s.bs) /\ s.j \in 1 .. Len(s.bs)
    BY <1>1, <1>3
  <2>2. a \in T /\ Len(a) = Len(s.bs) - 1
    BY <1>1, <1>3, <2>1, AbsorbLen DEF MergeClosed
  <2>3. Turn(s, i) = [bs |-> a, j |-> s.j]
    BY <1>1, <1>3 DEF Turn
  <2> HIDE DEF a
  <2> QED
    BY <1>1, <1>3, <2>2, <2>3 DEF Turns
<1>4. CASE s.j <= Len(s.bs) /\ ~Close(s.bs[i], s.bs[s.j])
  <2>1. Turn(s, i) = [bs |-> s.bs, j |-> s.j + 1]
    BY <1>1, <1>4 DEF Turn
  <2> QED
    BY <1>1, <1>4, <2>1 DEF Turns
<1> QED
  BY <1>1, <1>2, <1>3, <1>4

\* What has become of bs when the inner loop has taken k turns for blob i.
Scanned(s, bs, i, k) ==
  /\ Len(s.bs) <= Len(bs)
  /\ Len(s.bs) = Len(bs) => s.bs = bs /\ \A j \in i + 1 .. s.j - 1 : ~Close(bs[i], bs[j])
  /\ s.j > Len(s.bs) \/ (s.j - i) + (Len(bs) - Len(s.bs)) = k + 1

LEMMA ScannedStep ==
  ASSUME NEW B, NEW T, T \subseteq Seq(B), MergeClosed(T), NEW bs \in T,
         NEW i \in 1 .. Len(bs), NEW k \in Nat,
         NEW s \in Turns(T, i), Scanned(s, bs, i, k)
  PROVE  Turn(s, i) \in Turns(T, i) /\ Scanned(Turn(s, i), bs, i, k + 1)
<1> DEFINE t == Turn(s, i)
           n == Len(bs)
<1>1. /\ Len(s.bs) \in Nat /\ s.j \in Nat /\ n \in Nat /\ i \in Nat /\ s.j > i
  BY DEF Turns
<1>2. t \in Turns(T, i)
  BY TurnIs
<1>3. \/ s.j > Len(s.bs) /\ t = s
      \/ s.j <= Len(s.bs) /\ t.j = s.j /\ Len(t.bs) = Len(s.bs) - 1
      \/ /\ s.j <= Len(s.bs) /\ t.j = s.j + 1 /\ t.bs = s.bs
         /\ ~Close(s.bs[i], s.bs[s.j])
  BY TurnIs
<1> HIDE DEF t
<1>4. CASE s.j > Len(s.bs) /\ t = s
  <2>1. Scanned(t, bs, i, k + 1)
    BY <1>4 DEF Scanned
  <2> QED
    BY <1>2, <2>1 DEF t
<1>5. CASE s.j <= Len(s.bs) /\ t.j = s.j /\ Len(t.bs) = Len(s.bs) - 1
  <2> DEFINE l == Len(s.bs)
             z == s.j
             m == Len(t.bs)
  <2>1. /\ l \in Nat /\ z \in Nat /\ m = l - 1 /\ l <= n /\ t.j = z
        /\ (z - i) + (n - l) = k + 1
    BY <1>1, <1>5 DEF Scanned
  <2> HIDE DEF l, z, m
  <2>2. m <= n /\ m # n /\ (z - i) + (n - m) = (k + 1) + 1
    BY <1>1, <2>1
  <2>3. Scanned(t, bs, i, k + 1)
    BY <2>1, <2>2 DEF Scanned, m
  <2> QED
    BY <1>2, <2>3 DEF t
<1>6. CASE /\ s.j <= Len(s.bs) /\ t.j = s.j + 1 /\ t.bs = s.bs
           /\ ~Close(s.bs[i], s.bs[s.j])
  <2>1. Len(t.bs) = Len(s.bs)
    BY <1>6
  <2>2. ASSUME Len(s.bs) = n, NEW j \in i + 1 .. t.j - 1 PROVE ~Close(bs[i], bs[j])
    <3>1. s.bs = bs
      BY <2>2 DEF Scanned
    <3>2. CASE j = s.j
      BY <1>6, <3>1, <3>2
    <3>3. CASE j # s.j
      <4>1. j \in i + 1 .. s.j - 1
        BY <1>1, <1>6, <3>3
      <4> QED
        BY <2>2, <4>1 DEF Scanned
    <3> QED
      BY <3>2, <3>3
  <2>3. (t.j - i) + (n - Len(t.bs)) = (k + 1) + 1
    <3> DEFINE l == Len(s.bs)
               z == s.j
               y == t.j
    <3>1. /\ l \in Nat /\ z \in Nat /\ y = z + 1 /\ Len(t.bs) = l
          /\ (z - i) + (n - l) = k + 1
      BY <1>1, <1>6, <2>1 DEF Scanned
    <3> HIDE DEF l, z, y
    <3>2. (y - i) + (n - l) = (k + 1) + 1
      BY <1>1, <3>1
    <3> QED
      BY <3>1, <3>2 DEF y
  <2>4. Scanned(t, bs, i, k + 1)
    BY <1>6, <2>1, <2>2, <2>3 DEF Scanned
  <2> QED
    BY <1>2, <2>4 DEF t
<1> QED
  BY <1>2, <1>3, <1>4, <1>5, <1>6 DEF t

\* The inner loop makes the list shorter, or finds nothing close to blob i.
LEMMA InnerIs ==
  ASSUME NEW B, NEW T, T \subseteq Seq(B), MergeClosed(T), NEW bs \in T,
         NEW i \in 1 .. Len(bs)
  PROVE  /\ Inner(bs, i) \in T /\ Len(Inner(bs, i)) <= Len(bs)
         /\ Len(Inner(bs, i)) = Len(bs)
              => Inner(bs, i) = bs /\ \A j \in i + 1 .. Len(bs) : ~Close(bs[i], bs[j])
<1> DEFINE n == Len(bs)
           St == Turns(T, i)
           start == [bs |-> bs, j |-> i + 1]
           Def(a) == [k \in 0 .. n |-> IF k = 0 THEN start ELSE Turn(a[k - 1], i)]
           F == [x \in St \X (1 .. n) |-> Turn(x[1], i)]
           A == CHOOSE a : a = Def(a)
<1>1. n \in Nat /\ i \in Nat \ {0} /\ i <= n /\ bs \in Seq(B)
  OBVIOUS
<1>2. start \in St /\ Scanned(start, bs, i, 0)
  BY <1>1 DEF Turns, Scanned
<1>3. \A x \in St : Turn(x, i) \in St
  BY <1>1, TurnIs
<1> HIDE DEF St
<1>4. \E a \in [0 .. n -> St] : a = Def(a)
  <2>1. F \in [St \X (1 .. n) -> St]
    BY <1>3
  <2>2. PICK a : IsRun(a, St, start, n, F)
    BY <1>1, <1>2, <2>1, LoopRuns
  <2>3. ASSUME NEW k \in 1 .. n PROVE a[k] = Turn(a[k - 1], i)
    <3>1. k - 1 \in 0 .. n
      BY <1>1
    <3>2. <<a[k - 1], k>> \in St \X (1 .. n)
      BY <2>2, <3>1 DEF IsRun
    <3> QED
      BY <2>2, <3>2 DEF IsRun
  <2> QED
    BY <1>1, <2>2, <2>3 DEF IsRun
<1>5. A = Def(A)
  BY <1>4
<1>6. Inner(bs, i) = A[n].bs
  BY DEF Inner, Loop
<1> HIDE DEF A, start
<1>7. A[0] = start /\ \A k \in 1 .. n : A[k] = Turn(A[k - 1], i)
  BY <1>1, <1>5
<1> DEFINE S == {k \in Nat : k <= n => A[k] \in St /\ Scanned(A[k], bs, i, k)}
<1>8. 0 \in S
  BY <1>2, <1>7
<1>9. ASSUME NEW k \in Nat, k \in S PROVE k + 1 \in S
  <2> SUFFICES ASSUME k + 1 <= n PROVE A[k + 1] \in St /\ Scanned(A[k + 1], bs, i, k + 1)
    OBVIOUS
  <2>1. A[k] \in St /\ Scanned(A[k], bs, i, k)
    BY <1>1, <1>9
  <2>2. A[k + 1] = Turn(A[k], i)
    <3>1. k + 1 \in 1 .. n /\ (k + 1) - 1 = k
      BY <1>1
    <3> QED
      BY <1>7, <3>1
  <2> QED
    BY <2>1, <2>2, ScannedStep DEF St
<1> HIDE DEF S
<1>10. n \in S
  BY <1>1, <1>8, <1>9, Induction
<1>11. A[n] \in Turns(T, i) /\ Scanned(A[n], bs, i, n)
  BY <1>1, <1>10 DEF S, St
<1> DEFINE r == A[n].bs
           z == A[n].j
<1>12. /\ r \in T /\ r \in Seq(B) /\ Len(r) \in Nat /\ z \in Nat /\ z > i
       /\ Len(r) <= n
       /\ Len(r) = n => r = bs /\ \A j \in i + 1 .. z - 1 : ~Close(bs[i], bs[j])
       /\ z > Len(r) \/ (z - i) + (n - Len(r)) = n + 1
  BY <1>11 DEF Turns, Scanned
<1> HIDE DEF r, z
<1>13. z > Len(r)
  BY <1>1, <1>12
<1>14. Len(r) = n => \A j \in i + 1 .. n : j \in i + 1 .. z - 1
  BY <1>1, <1>12, <1>13
<1> QED
  BY <1>6, <1>12, <1>14 DEF r

SweepStep(r, i) == IF i < Len(r) THEN Inner(r, i) ELSE r
Swept(r, bs, m) ==
  /\ Len(r) <= Len(bs)
  /\ Len(r) = Len(bs) =>
       /\ r = bs
       /\ \A i, j \in 1 .. Len(bs) : i <= m /\ i < j => ~Close(bs[i], bs[j])

LEMMA SweptStep ==
  ASSUME NEW B, NEW T, T \subseteq Seq(B), MergeClosed(T), NEW bs \in T,
         NEW r \in T, NEW m \in Nat, Swept(r, bs, m)
  PROVE  SweepStep(r, m + 1) \in T /\ Swept(SweepStep(r, m + 1), bs, m + 1)
<1> DEFINE i == m + 1
           q == SweepStep(r, i)
<1>1. Len(r) \in Nat /\ Len(bs) \in Nat /\ i \in Nat
  OBVIOUS
<1>2. CASE i < Len(r)
  <2>1. q = Inner(r, i) /\ i \in 1 .. Len(r)
    BY <1>1, <1>2 DEF SweepStep
  <2>2. /\ q \in T /\ Len(q) <= Len(r)
        /\ Len(q) = Len(r) => q = r /\ \A j \in i + 1 .. Len(r) : ~Close(r[i], r[j])
    BY <2>1, InnerIs
  <2> HIDE DEF q
  <2>3. Len(q) \in Nat
    BY <2>2
  <2>4. ASSUME Len(q) = Len(bs)
        PROVE  /\ q = bs
               /\ \A a, b \in 1 .. Len(bs) : a <= m + 1 /\ a < b => ~Close(bs[a], bs[b])
    <3>1. Len(q) = Len(r) /\ Len(r) = Len(bs) /\ r = bs
      BY <1>1, <2>2, <2>3, <2>4 DEF Swept
    <3>2. ASSUME NEW a \in 1 .. Len(bs), NEW b \in 1 .. Len(bs), a <= m + 1, a < b
          PROVE  ~Close(bs[a], bs[b])
      <4>1. CASE a <= m
        BY <3>1, <3>2, <4>1 DEF Swept
      <4>2. CASE ~(a <= m)
        <5>1. a = i /\ b \in i + 1 .. Len(r)
          BY <1>1, <3>1, <3>2, <4>2
        <5> QED
          BY <2>2, <3>1, <5>1
      <4> QED
        BY <4>1, <4>2
    <3> QED
      BY <2>2, <3>1, <3>2
  <2>5. Len(q) <= Len(bs)
    BY <1>1, <2>2, <2>3 DEF Swept
  <2>6. q \in T /\ Swept(q, bs, m + 1)
    BY <2>2, <2>4, <2>5 DEF Swept
  <2> QED
    BY <2>6 DEF q
<1>3. CASE ~(i < Len(r))
  <2>1. SweepStep(r, m + 1) = r
    BY <1>3 DEF SweepStep
  <2>2. ASSUME Len(r) = Len(bs), NEW a \in 1 .. Len(bs), NEW b \in 1 .. Len(bs),
               a <= m + 1, a < b
        PROVE  ~Close(bs[a], bs[b])
    <3>1. a <= m
      BY <1>1, <1>3, <2>2
    <3> QED
      BY <2>2, <3>1 DEF Swept
  <2>3. Swept(r, bs, m + 1)
    BY <2>2 DEF Swept
  <2> QED
    BY <2>1, <2>3
<1> QED
  BY <1>2, <1>3

\* A sweep makes the list shorter, or nothing in it is close.
LEMMA SweepIs ==
  ASSUME NEW B, NEW T, T \subseteq Seq(B), MergeClosed(T), NEW bs \in T
  PROVE  /\ Sweep(bs) \in T /\ Len(Sweep(bs)) <= Len(bs)
         /\ Len(Sweep(bs)) = Len(bs) => Sweep(bs) = bs /\ NoneClose(bs)
<1> DEFINE n == Len(bs)
           Def(a) == [k \in 0 .. n |-> IF k = 0 THEN bs ELSE SweepStep(a[k - 1], k)]
           F == [x \in T \X (1 .. n) |-> SweepStep(x[1], x[2])]
           A == CHOOSE a : a = Def(a)
<1>1. n \in Nat /\ bs \in Seq(B)
  OBVIOUS
<1>2. Swept(bs, bs, 0)
  BY DEF Swept
<1>3. \A x \in T, k \in 1 .. n : SweepStep(x, k) \in T
  <2> TAKE x \in T, k \in 1 .. n
  <2>1. CASE k < Len(x)
    <3>1. k \in 1 .. Len(x)
      BY <1>1, <2>1
    <3> QED
      BY <2>1, <3>1, InnerIs DEF SweepStep
  <2> QED
    BY <2>1 DEF SweepStep
<1>4. \E a \in [0 .. n -> T] : a = Def(a)
  <2>1. F \in [T \X (1 .. n) -> T]
    BY <1>3
  <2>2. PICK a : IsRun(a, T, bs, n, F)
    BY <1>1, <2>1, LoopRuns
  <2>3. ASSUME NEW k \in 1 .. n PROVE a[k] = SweepStep(a[k - 1], k)
    <3>1. k - 1 \in 0 .. n
      BY <1>1
    <3>2. <<a[k - 1], k>> \in T \X (1 .. n)
      BY <2>2, <3>1 DEF IsRun
    <3> QED
      BY <2>2, <3>2 DEF IsRun
  <2> QED
    BY <1>1, <2>2, <2>3 DEF IsRun
<1>5. A = Def(A)
  BY <1>4
<1>6. Sweep(bs) = A[n]
  BY DEF Sweep, Loop, SweepStep
<1> HIDE DEF A
<1>7. A[0] = bs /\ \A k \in 1 .. n : A[k] = SweepStep(A[k - 1], k)
  BY <1>1, <1>5
<1> DEFINE S == {k \in Nat : k <= n => A[k] \in T /\ Swept(A[k], bs, k)}
<1>8. 0 \in S
  BY <1>2, <1>7
<1>9. ASSUME NEW k \in Nat, k \in S PROVE k + 1 \in S
  <2> SUFFICES ASSUME k + 1 <= n PROVE A[k + 1] \in T /\ Swept(A[k + 1], bs, k + 1)
    OBVIOUS
  <2>1. A[k] \in T /\ Swept(A[k], bs, k)
    BY <1>1, <1>9
  <2>2. A[k + 1] = SweepStep(A[k], k + 1)
    <3>1. k + 1 \in 1 .. n /\ (k + 1) - 1 = k
      BY <1>1
    <3> QED
      BY <1>7, <3>1
  <2> QED
    BY <2>1, <2>2, SweptStep
<1> HIDE DEF S
<1>10. n \in S
  BY <1>1, <1>8, <1>9, Induction
<1>11. A[n] \in T /\ Swept(A[n], bs, n)
  BY <1>1, <1>10 DEF S
<1>12. \A i, j \in 1 .. n : i <= n
  BY <1>1
<1> QED
  BY <1>6, <1>11, <1>12 DEF Swept, NoneClose

\* The merging ends with nothing close, and keeps what absorptions keep.
LEMMA MergeIs ==
  ASSUME NEW B, NEW T, T \subseteq Seq(B), MergeClosed(T), NEW bs \in T
  PROVE  MergeClose(bs) \in T /\ NoneClose(MergeClose(bs))
<1> DEFINE n == Len(bs)
           Def(a) == [k \in 0 .. n |-> IF k = 0 THEN bs ELSE Sweep(a[k - 1])]
           F == [x \in T \X (1 .. n) |-> Sweep(x[1])]
           A == CHOOSE a : a = Def(a)
           Near(k) == {r \in T : Len(r) <= n - k \/ NoneClose(r)}
<1>1. n \in Nat /\ bs \in Seq(B)
  OBVIOUS
<1>2. \A x \in T : Sweep(x) \in T
  BY SweepIs
<1>3. ASSUME NEW k \in Nat, NEW r \in Near(k) PROVE Sweep(r) \in Near(k + 1)
  <2> DEFINE q == Sweep(r)
  <2>1. /\ q \in T /\ Len(q) <= Len(r) /\ Len(q) \in Nat /\ Len(r) \in Nat
        /\ Len(q) = Len(r) => q = r /\ NoneClose(r)
    BY SweepIs
  <2>2. CASE NoneClose(r)
    <3>1. {r} \subseteq Seq(B) /\ MergeClosed({r})
      BY <2>2 DEF MergeClosed, NoneClose
    <3>2. q \in {r}
      BY <3>1, SweepIs
    <3> QED
      BY <2>1, <2>2, <3>2
  <2>3. CASE ~NoneClose(r)
    <3>1. Len(q) <= n - (k + 1)
      <4> HIDE DEF q
      <4> QED
        BY <1>1, <2>1, <2>3
    <3> QED
      BY <2>1, <3>1
  <2> QED
    BY <2>2, <2>3
<1>4. \E a \in [0 .. n -> T] : a = Def(a)
  <2>1. F \in [T \X (1 .. n) -> T]
    BY <1>2
  <2>2. PICK a : IsRun(a, T, bs, n, F)
    BY <1>1, <2>1, LoopRuns
  <2>3. ASSUME NEW k \in 1 .. n PROVE a[k] = Sweep(a[k - 1])
    <3>1. k - 1 \in 0 .. n
      BY <1>1
    <3>2. <<a[k - 1], k>> \in T \X (1 .. n)
      BY <2>2, <3>1 DEF IsRun
    <3> QED
      BY <2>2, <3>2 DEF IsRun
  <2> QED
    BY <1>1, <2>2, <2>3 DEF IsRun
<1>5. A = Def(A)
  BY <1>4
<1>6. MergeClose(bs) = A[n]
  BY DEF MergeClose, Loop
<1> HIDE DEF A
<1>7. A[0] = bs /\ \A k \in 1 .. n : A[k] = Sweep(A[k - 1])
  BY <1>1, <1>5
<1> DEFINE S == {k \in Nat : k <= n => A[k] \in Near(k)}
<1>8. 0 \in S
  BY <1>1, <1>7
<1> HIDE DEF Near
<1>9. ASSUME NEW k \in Nat, k \in S PROVE k + 1 \in S
  <2> SUFFICES ASSUME k + 1 <= n PROVE A[k + 1] \in Near(k + 1)
    OBVIOUS
  <2>1. A[k] \in Near(k)
    BY <1>1, <1>9
  <2>2. A[k + 1] = Sweep(A[k])
    <3>1. k + 1 \in 1 .. n /\ (k + 1) - 1 = k
      BY <1>1
    <3> QED
      BY <1>7, <3>1
  <2> QED
    BY <1>3, <2>1, <2>2
<1> HIDE DEF S
<1>10. n \in S
  BY <1>1, <1>8, <1>9, Induction
<1>11. A[n] \in T /\ (Len(A[n]) <= 0 \/ NoneClose(A[n]))
  BY <1>1, <1>10 DEF S, Near
<1>12. Len(A[n]) <= 0 => NoneClose(A[n])
  <2>1. Len(A[n]) \in Nat
    BY <1>11
  <2> QED
    BY <2>1 DEF NoneClose
<1> QED
  BY <1>6, <1>11, <1>12

-----------------------------------------------------------------------------
(* Boxes *)

Boxes == [x : Nat, y : Nat, w : Nat \ {0}, h : Nat \ {0}, area : Nat, sum : Nat]
InPicture(w, h) == {b \in Boxes : b.x + b.w <= w /\ b.y + b.h <= h}

LEMMA BoxFields ==
  ASSUME NEW b \in Boxes
  PROVE  /\ b.x \in Nat /\ b.y \in Nat /\ b.w \in Nat /\ b.h \in Nat
         /\ b.w > 0 /\ b.h > 0 /\ b.area \in Nat /\ b.sum \in Nat
  BY DEF Boxes

LEMMA HullType ==
  ASSUME NEW w \in Nat, NEW h \in Nat, NEW a \in InPicture(w, h), NEW b \in InPicture(w, h)
  PROVE  Hull(a, b) \in InPicture(w, h)
<1> DEFINE x1 == Upto(a.x, b.x)
           y1 == Upto(a.y, b.y)
           x2 == Atleast(a.x + a.w, b.x + b.w)
           y2 == Atleast(a.y + a.h, b.y + b.h)
           c == [x |-> x1, y |-> y1, w |-> x2 - x1, h |-> y2 - y1,
                 area |-> a.area + b.area, sum |-> a.sum + b.sum]
<1>1. a \in Boxes /\ b \in Boxes /\ a.x + a.w <= w /\ a.y + a.h <= h
      /\ b.x + b.w <= w /\ b.y + b.h <= h
  BY DEF InPicture
<1>2. /\ a.x \in Nat /\ a.y \in Nat /\ a.w \in Nat /\ a.h \in Nat /\ a.w > 0 /\ a.h > 0
      /\ b.x \in Nat /\ b.y \in Nat /\ b.w \in Nat /\ b.h \in Nat /\ b.w > 0 /\ b.h > 0
      /\ a.area + b.area \in Nat /\ a.sum + b.sum \in Nat
  BY <1>1, BoxFields
<1>3. x1 \in Nat /\ x2 \in Nat /\ x1 < x2 /\ x2 <= w
  BY <1>1, <1>2 DEF Upto, Atleast
<1>4. y1 \in Nat /\ y2 \in Nat /\ y1 < y2 /\ y2 <= h
  BY <1>1, <1>2 DEF Upto, Atleast
<1>5. Hull(a, b) = c
  BY DEF Hull
<1> HIDE DEF x1, x2, y1, y2
<1>6. x2 - x1 \in Nat \ {0} /\ y2 - y1 \in Nat \ {0} /\ x1 + (x2 - x1) = x2 /\ y1 + (y2 - y1) = y2
  BY <1>3, <1>4
<1>7. c \in Boxes
  BY <1>2, <1>3, <1>4, <1>6 DEF Boxes
<1> QED
  BY <1>3, <1>4, <1>5, <1>6, <1>7 DEF InPicture

\* Merging boxes of a picture gives boxes of that picture.
LEMMA MergeStaysIn ==
  ASSUME NEW w \in Nat, NEW h \in Nat, NEW bs \in Seq(InPicture(w, h))
  PROVE  MergeClose(bs) \in Seq(InPicture(w, h))
<1> DEFINE B == InPicture(w, h)
<1>1. ASSUME NEW r \in Seq(B), NEW i \in 1 .. Len(r), NEW j \in 1 .. Len(r), i < j
      PROVE  Absorb(r, i, j) \in Seq(B)
  <2> DEFINE n == Len(r)
  <2>1. n \in Nat /\ n - 1 \in Nat /\ \A k \in 1 .. n : r[k] \in B
    OBVIOUS
  <2>2. Hull(r[i], r[j]) \in B
    BY <2>1, HullType
  <2> HIDE DEF B, n
  <2>3. \A k \in 1 .. n - 1 : k \in 1 .. n /\ n \in 1 .. n
    BY <2>1
  <2>4. Absorb(r, i, j) \in [1 .. n - 1 -> B]
    BY <2>1, <2>2, <2>3 DEF Absorb, n
  <2> QED
    BY <2>1, <2>4
<1>2. MergeClosed(Seq(B))
  BY <1>1 DEF MergeClosed
<1> HIDE DEF B
<1> QED
  BY <1>2, MergeIs DEF B

\* The box around pixels of a picture is in the picture.
LEMMA DescribeType ==
  ASSUME NEW w \in Nat \ {0}, NEW h \in Nat, NEW mask \in [0 .. w * h - 1 -> Nat],
         NEW S \in SUBSET (0 .. w * h - 1), S # {}
  PROVE  Describe(S, mask, w) \in InPicture(w, h)
<1> DEFINE xs == {i % w : i \in S}
           ys == {i \div w : i \in S}
           d == Describe(S, mask, w)
           f == [i \in S |-> mask[i]]
<1>1. IsFiniteSet(S) /\ Cardinality(S) \in Nat /\ w * h \in Nat
  <2>1. w * h \in Nat
    OBVIOUS
  <2>2. IsFiniteSet(0 .. w * h - 1)
    BY <2>1, FS_Interval
  <2> QED
    BY <2>1, <2>2, FS_Subset, FS_CardinalityType
<1>2. \A i \in S : i \div w \in 0 .. h - 1 /\ i % w \in 0 .. w - 1
  <2> TAKE i \in S
  <2>1. i \in Nat /\ i < h * w
    <3>1. w * h = h * w
      OBVIOUS
    <3> QED
      BY <1>1, <3>1
  <2> QED
    BY <2>1, DivMod
<1>3. /\ xs # {} /\ xs \subseteq 0 .. w - 1 /\ xs \subseteq Nat
      /\ ys # {} /\ ys \subseteq 0 .. h - 1 /\ ys \subseteq Nat
  <2>1. xs \subseteq 0 .. w - 1 /\ ys \subseteq 0 .. h - 1
    BY <1>2
  <2>2. PICK i : i \in S
    OBVIOUS
  <2>3. i % w \in xs /\ i \div w \in ys
    BY <2>2
  <2>4. 0 .. w - 1 \subseteq Nat /\ 0 .. h - 1 \subseteq Nat
    OBVIOUS
  <2> HIDE DEF xs, ys
  <2> QED
    BY <2>1, <2>3, <2>4
<1>4. Total(f) \in Nat
  <2>1. f \in [S -> Nat]
    OBVIOUS
  <2> HIDE DEF f
  <2>2. PICK G : Adds(G, S, f) /\ Total(f) = G[S]
    BY <1>1, <2>1, TotalIs
  <2> QED
    BY <2>2 DEF Adds
<1>5. d = [x |-> Least(xs), y |-> Least(ys),
           w |-> Greatest(xs) - Least(xs) + 1, h |-> Greatest(ys) - Least(ys) + 1,
           area |-> Cardinality(S), sum |-> Total(f)]
  BY DEF Describe
<1> HIDE DEF xs, ys, f, d
<1>6. /\ Least(xs) \in xs /\ Greatest(xs) \in xs /\ Least(xs) <= Greatest(xs)
      /\ Least(ys) \in ys /\ Greatest(ys) \in ys /\ Least(ys) <= Greatest(ys)
  <2>1. \A x \in xs : x <= w
    BY <1>3
  <2>2. \A y \in ys : y <= h
    BY <1>3
  <2>3. Least(xs) \in xs /\ Greatest(xs) \in xs /\ \A x \in xs : Least(xs) <= x
    BY <1>3, <2>1, LeastIn, GreatestIn
  <2>4. Least(ys) \in ys /\ Greatest(ys) \in ys /\ \A y \in ys : Least(ys) <= y
    BY <1>3, <2>2, LeastIn, GreatestIn
  <2> QED
    BY <2>3, <2>4
<1> DEFINE x1 == Least(xs)
           x2 == Greatest(xs)
           y1 == Least(ys)
           y2 == Greatest(ys)
<1>7. /\ x1 \in 0 .. w - 1 /\ x2 \in 0 .. w - 1 /\ x1 <= x2
      /\ y1 \in 0 .. h - 1 /\ y2 \in 0 .. h - 1 /\ y1 <= y2
  BY <1>3, <1>6
<1>8. d = [x |-> x1, y |-> y1, w |-> x2 - x1 + 1, h |-> y2 - y1 + 1,
           area |-> Cardinality(S), sum |-> Total(f)]
  BY <1>5
<1> HIDE DEF x1, x2, y1, y2
<1>9. /\ x1 \in Nat /\ y1 \in Nat /\ x2 - x1 + 1 \in Nat \ {0} /\ y2 - y1 + 1 \in Nat \ {0}
      /\ x1 + (x2 - x1 + 1) <= w /\ y1 + (y2 - y1 + 1) <= h
  BY <1>7
<1>10. d \in Boxes
  BY <1>1, <1>4, <1>8, <1>9 DEF Boxes
<1>11. d \in InPicture(w, h)
  BY <1>8, <1>9, <1>10 DEF InPicture
<1> QED
  BY <1>11 DEF d

-----------------------------------------------------------------------------
(* Merged boxes *)

LEMMA GreatestIs ==
  ASSUME NEW S, S \subseteq Int, NEW x \in S, \A y \in S : x >= y
  PROVE  Greatest(S) = x
<1>1. Greatest(S) \in S /\ \A y \in S : Greatest(S) >= y
  BY DEF Greatest
<1> HIDE DEF Greatest
<1>2. Greatest(S) >= x /\ x >= Greatest(S) /\ x \in Int /\ Greatest(S) \in Int
  BY <1>1
<1> QED
  BY <1>2

\* The ends of two sets of numbers taken together.
LEMMA EndsOfUnion ==
  ASSUME NEW S, NEW R, NEW m \in Nat, S \subseteq 0 .. m, R \subseteq 0 .. m, S # {}, R # {}
  PROVE  /\ Least(S \cup R) = Upto(Least(S), Least(R))
         /\ Greatest(S \cup R) = Atleast(Greatest(S), Greatest(R))
<1>1. /\ Least(S) \in S /\ \A x \in S : Least(S) <= x
      /\ Least(R) \in R /\ \A x \in R : Least(R) <= x
      /\ Greatest(S) \in S /\ \A x \in S : Greatest(S) >= x
      /\ Greatest(R) \in R /\ \A x \in R : Greatest(R) >= x
  <2>1. S \subseteq Nat /\ R \subseteq Nat /\ \A x \in S \cup R : x <= m
    OBVIOUS
  <2> QED
    BY <2>1, LeastIn, GreatestIn
<1> DEFINE a == Least(S)
           b == Least(R)
           c == Greatest(S)
           d == Greatest(R)
<1>2. /\ a \in S /\ b \in R /\ c \in S /\ d \in R
      /\ a \in Int /\ b \in Int /\ c \in Int /\ d \in Int /\ S \cup R \subseteq Int
      /\ \A x \in S : a <= x /\ c >= x
      /\ \A x \in R : b <= x /\ d >= x
  <2>1. a \in S /\ b \in R /\ c \in S /\ d \in R
    BY <1>1
  <2>2. S \subseteq Int /\ R \subseteq Int
    OBVIOUS
  <2>3. /\ \A x \in S : a <= x /\ c >= x
        /\ \A x \in R : b <= x /\ d >= x
    BY <1>1
  <2> HIDE DEF a, b, c, d
  <2> QED
    BY <2>1, <2>2, <2>3
<1> HIDE DEF a, b, c, d
<1>3. Least(S \cup R) = Upto(a, b)
  <2>1. Upto(a, b) \in S \cup R /\ \A x \in S \cup R : Upto(a, b) <= x
    BY <1>2 DEF Upto
  <2> QED
    BY <1>2, <2>1, LeastIs
<1>4. Greatest(S \cup R) = Atleast(c, d)
  <2>1. Atleast(c, d) \in S \cup R /\ \A x \in S \cup R : Atleast(c, d) >= x
    BY <1>2 DEF Atleast
  <2> QED
    BY <1>2, <2>1, GreatestIs
<1> QED
  BY <1>3, <1>4 DEF a, b, c, d

LEMMA AddsUnion ==
  ASSUME NEW S, IsFiniteSet(S), NEW f, f \in [S -> Nat], NEW G, Adds(G, S, f)
  PROVE  \A a, b \in SUBSET S : a \cap b = {} => G[a \cup b] = G[a] + G[b]
<1> SUFFICES ASSUME NEW a \in SUBSET S, NEW b \in SUBSET S, a \cap b = {}
             PROVE  G[a \cup b] = G[a] + G[b]
  OBVIOUS
<1> DEFINE P == {r \in SUBSET S : a \cap r = {} => G[a \cup r] = G[a] + G[r]}
<1>1. G \in [SUBSET S -> Nat] /\ G[{}] = 0
      /\ \A s \in SUBSET S : \A x \in s : G[s] = f[x] + G[s \ {x}]
  BY DEF Adds
<1>2. {} \in P
  <2>1. a \cup {} = a /\ G[a] \in Nat
    BY <1>1
  <2> QED
    BY <1>1, <2>1
<1>3. ASSUME NEW r \in SUBSET S, \A x \in r : r \ {x} \in P PROVE r \in P
  <2>1. CASE r = {}
    BY <1>2, <2>1
  <2>2. CASE r # {}
    <3> SUFFICES ASSUME a \cap r = {} PROVE G[a \cup r] = G[a] + G[r]
      OBVIOUS
    <3>1. PICK x : x \in r
      BY <2>2
    <3> DEFINE all == G[a \cup r]
               rest == G[a \cup (r \ {x})]
               u == G[r]
               v == G[r \ {x}]
               y == f[x]
               z == G[a]
    <3>2. (a \cup r) \ {x} = a \cup (r \ {x}) /\ a \cap (r \ {x}) = {} /\ x \in a \cup r
      BY <3>1
    <3>3. all = y + rest /\ u = y + v /\ rest = z + v
      <4>1. a \cup r \in SUBSET S /\ r \in SUBSET S
        OBVIOUS
      <4>2. G[a \cup r] = f[x] + G[(a \cup r) \ {x}]
        BY <1>1, <3>2, <4>1
      <4>3. G[r] = f[x] + G[r \ {x}]
        BY <1>1, <3>1
      <4>4. G[a \cup (r \ {x})] = G[a] + G[r \ {x}]
        BY <1>3, <3>1, <3>2
      <4> QED
        BY <3>2, <4>2, <4>3, <4>4
    <3>4. v \in Nat /\ y \in Nat /\ z \in Nat
      BY <1>1, <3>1
    <3> HIDE DEF all, rest, u, v, y, z
    <3>5. all = z + u
      BY <3>3, <3>4
    <3> QED
      BY <3>5 DEF all, z, u
  <2> QED
    BY <2>1, <2>2
<1> HIDE DEF P
<1>4. b \in P
  BY <1>2, <1>3, SizeInduction
<1> QED
  BY <1>4 DEF P

\* What adds up the areas and the sums of a list of blobs.
Sums(bs, A, U) ==
  /\ Adds(A, 1 .. Len(bs), [k \in 1 .. Len(bs) |-> bs[k].area])
  /\ Adds(U, 1 .. Len(bs), [k \in 1 .. Len(bs) |-> bs[k].sum])

LEMMA SumsExist ==
  ASSUME NEW bs \in Seq(Boxes) PROVE \E A, U : Sums(bs, A, U)
<1> DEFINE n == Len(bs)
           f == [k \in 1 .. n |-> bs[k].area]
           g == [k \in 1 .. n |-> bs[k].sum]
<1>1. n \in Nat /\ IsFiniteSet(1 .. n)
  BY IntervalSize
<1>2. f \in [1 .. n -> Nat] /\ g \in [1 .. n -> Nat]
  BY BoxFields
<1> HIDE DEF n, f, g
<1>3. \E A : Adds(A, 1 .. n, f)
  BY <1>1, <1>2, TotalIs
<1>4. \E U : Adds(U, 1 .. n, g)
  BY <1>1, <1>2, TotalIs
<1> QED
  BY <1>3, <1>4 DEF Sums, n, f, g

\* The box around some blobs of a list.
Lefts(bs, S)   == {bs[k].x : k \in S}
Rights(bs, S)  == {bs[k].x + bs[k].w : k \in S}
Tops(bs, S)    == {bs[k].y : k \in S}
Bottoms(bs, S) == {bs[k].y + bs[k].h : k \in S}
BoxAt(bs, A, U, S) ==
  [x |-> Least(Lefts(bs, S)), y |-> Least(Tops(bs, S)),
   w |-> Greatest(Rights(bs, S)) - Least(Lefts(bs, S)),
   h |-> Greatest(Bottoms(bs, S)) - Least(Tops(bs, S)),
   area |-> A[S], sum |-> U[S]]

LEMMA EdgesType ==
  ASSUME NEW w \in Nat, NEW h \in Nat, NEW bs \in Seq(InPicture(w, h)),
         NEW S \in SUBSET (1 .. Len(bs)), S # {}
  PROVE  /\ Lefts(bs, S) \subseteq 0 .. w /\ Lefts(bs, S) # {}
         /\ Rights(bs, S) \subseteq 0 .. w /\ Rights(bs, S) # {}
         /\ Tops(bs, S) \subseteq 0 .. h /\ Tops(bs, S) # {}
         /\ Bottoms(bs, S) \subseteq 0 .. h /\ Bottoms(bs, S) # {}
<1>1. ASSUME NEW k \in S
      PROVE  /\ bs[k].x \in 0 .. w /\ bs[k].x + bs[k].w \in 0 .. w
             /\ bs[k].y \in 0 .. h /\ bs[k].y + bs[k].h \in 0 .. h
  <2>1. PICK b \in InPicture(w, h) : bs[k] = b
    OBVIOUS
  <2>2. b \in Boxes /\ b.x + b.w <= w /\ b.y + b.h <= h
    BY DEF InPicture
  <2>3. b.x \in Nat /\ b.y \in Nat /\ b.w \in Nat /\ b.h \in Nat
    BY <2>2, BoxFields
  <2>4. \A p \in Nat, q \in Nat, m \in Nat : p + q <= m => p \in 0 .. m /\ p + q \in 0 .. m
    OBVIOUS
  <2>5. b.x \in 0 .. w /\ b.x + b.w \in 0 .. w /\ b.y \in 0 .. h /\ b.y + b.h \in 0 .. h
    BY <2>2, <2>3, <2>4, Zenon
  <2> QED
    BY <2>1, <2>5
<1>2. PICK k : k \in S
  OBVIOUS
<1>3. /\ bs[k].x \in Lefts(bs, S) /\ bs[k].x + bs[k].w \in Rights(bs, S)
      /\ bs[k].y \in Tops(bs, S) /\ bs[k].y + bs[k].h \in Bottoms(bs, S)
  BY <1>2 DEF Lefts, Rights, Tops, Bottoms
<1>4. /\ Lefts(bs, S) \subseteq 0 .. w /\ Rights(bs, S) \subseteq 0 .. w
      /\ Tops(bs, S) \subseteq 0 .. h /\ Bottoms(bs, S) \subseteq 0 .. h
  BY <1>1 DEF Lefts, Rights, Tops, Bottoms
<1> QED
  BY <1>3, <1>4

\* The box of one blob is that blob.
LEMMA BoxOfOne ==
  ASSUME NEW w \in Nat, NEW h \in Nat, NEW bs \in Seq(InPicture(w, h)),
         NEW A, NEW U, Sums(bs, A, U), NEW k \in 1 .. Len(bs)
  PROVE  BoxAt(bs, A, U, {k}) = bs[k]
<1> DEFINE b == bs[k]
           n == Len(bs)
<1>1. b \in InPicture(w, h) /\ b \in Boxes
  <2>1. b \in InPicture(w, h)
    OBVIOUS
  <2> QED
    BY <2>1 DEF InPicture
<1>2. /\ Lefts(bs, {k}) = {b.x} /\ Rights(bs, {k}) = {b.x + b.w}
      /\ Tops(bs, {k}) = {b.y} /\ Bottoms(bs, {k}) = {b.y + b.h}
  BY DEF Lefts, Rights, Tops, Bottoms
<1>3. A[{k}] = b.area /\ U[{k}] = b.sum
  <2> DEFINE f == [i \in 1 .. n |-> bs[i].area]
             g == [i \in 1 .. n |-> bs[i].sum]
  <2>1. f[k] = b.area /\ g[k] = b.sum
    OBVIOUS
  <2> HIDE DEF f, g
  <2>2. /\ A[{}] = 0 /\ \A s \in SUBSET (1 .. n) : \A x \in s : A[s] = f[x] + A[s \ {x}]
        /\ U[{}] = 0 /\ \A s \in SUBSET (1 .. n) : \A x \in s : U[s] = g[x] + U[s \ {x}]
    BY DEF Sums, Adds, f, g
  <2>3. {k} \in SUBSET (1 .. n) /\ k \in {k} /\ {k} \ {k} = {}
    OBVIOUS
  <2>4. A[{k}] = f[k] + 0 /\ U[{k}] = g[k] + 0
    BY <2>2, <2>3
  <2>5. b.area \in Nat /\ b.sum \in Nat
    BY <1>1, BoxFields
  <2> HIDE DEF b
  <2> QED
    BY <2>1, <2>4, <2>5
<1> HIDE DEF b
<1>4. /\ b.x \in Nat /\ b.y \in Nat /\ b.w \in Nat /\ b.h \in Nat
      /\ b = [x |-> b.x, y |-> b.y, w |-> b.w, h |-> b.h, area |-> b.area, sum |-> b.sum]
  BY <1>1 DEF Boxes
<1>5. \A z \in Nat : Least({z}) = z /\ Greatest({z}) = z
  <2> TAKE z \in Nat
  <2>1. {z} \subseteq Int /\ z \in {z} /\ \A y \in {z} : z <= y /\ z >= y
    OBVIOUS
  <2> QED
    <3> DEFINE S == {z}
    <3>1. S \subseteq Int /\ z \in S /\ (\A y \in S : z <= y) /\ (\A y \in S : z >= y)
      BY <2>1
    <3> HIDE DEF S
    <3>2. Least(S) = z
      BY <3>1, LeastIs
    <3>3. Greatest(S) = z
      BY <3>1, GreatestIs
    <3> QED
      BY <3>2, <3>3 DEF S
<1>6. /\ Least({b.x}) = b.x /\ Greatest({b.x + b.w}) = b.x + b.w
      /\ Least({b.y}) = b.y /\ Greatest({b.y + b.h}) = b.y + b.h
  <2>1. b.x + b.w \in Nat /\ b.y + b.h \in Nat
    BY <1>4
  <2> QED
    BY <1>4, <1>5, <2>1
<1>7. (b.x + b.w) - b.x = b.w /\ (b.y + b.h) - b.y = b.h
  BY <1>4
<1>8. BoxAt(bs, A, U, {k}) = [x |-> b.x, y |-> b.y, w |-> b.w, h |-> b.h,
                               area |-> b.area, sum |-> b.sum]
  BY <1>2, <1>3, <1>6, <1>7 DEF BoxAt
<1> QED
  BY <1>4, <1>8 DEF b

\* The box around the blobs of two groups is the hull of theirs.
LEMMA HullOf ==
  ASSUME NEW w \in Nat, NEW h \in Nat, NEW bs \in Seq(InPicture(w, h)),
         NEW A, NEW U, Sums(bs, A, U),
         NEW S \in SUBSET (1 .. Len(bs)), S # {},
         NEW R \in SUBSET (1 .. Len(bs)), R # {}, S \cap R = {}
  PROVE  BoxAt(bs, A, U, S \cup R) = Hull(BoxAt(bs, A, U, S), BoxAt(bs, A, U, R))
<1> DEFINE n == Len(bs)
           s == BoxAt(bs, A, U, S)
           r == BoxAt(bs, A, U, R)
           x1 == Least(Lefts(bs, S))    x2 == Greatest(Rights(bs, S))
           y1 == Least(Tops(bs, S))     y2 == Greatest(Bottoms(bs, S))
           u1 == Least(Lefts(bs, R))    u2 == Greatest(Rights(bs, R))
           v1 == Least(Tops(bs, R))     v2 == Greatest(Bottoms(bs, R))
<1>1. /\ Lefts(bs, S \cup R) = Lefts(bs, S) \cup Lefts(bs, R)
      /\ Rights(bs, S \cup R) = Rights(bs, S) \cup Rights(bs, R)
      /\ Tops(bs, S \cup R) = Tops(bs, S) \cup Tops(bs, R)
      /\ Bottoms(bs, S \cup R) = Bottoms(bs, S) \cup Bottoms(bs, R)
  BY DEF Lefts, Rights, Tops, Bottoms
<1>2. /\ Lefts(bs, S) \subseteq 0 .. w /\ Lefts(bs, S) # {}
      /\ Rights(bs, S) \subseteq 0 .. w /\ Rights(bs, S) # {}
      /\ Tops(bs, S) \subseteq 0 .. h /\ Tops(bs, S) # {}
      /\ Bottoms(bs, S) \subseteq 0 .. h /\ Bottoms(bs, S) # {}
  BY EdgesType
<1>3. /\ Lefts(bs, R) \subseteq 0 .. w /\ Lefts(bs, R) # {}
      /\ Rights(bs, R) \subseteq 0 .. w /\ Rights(bs, R) # {}
      /\ Tops(bs, R) \subseteq 0 .. h /\ Tops(bs, R) # {}
      /\ Bottoms(bs, R) \subseteq 0 .. h /\ Bottoms(bs, R) # {}
  BY EdgesType
<1>4. /\ Least(Lefts(bs, S \cup R)) = Upto(x1, u1)
      /\ Greatest(Rights(bs, S \cup R)) = Atleast(x2, u2)
      /\ Least(Tops(bs, S \cup R)) = Upto(y1, v1)
      /\ Greatest(Bottoms(bs, S \cup R)) = Atleast(y2, v2)
  BY <1>1, <1>2, <1>3, EndsOfUnion
<1>5. /\ x1 \in Int /\ x2 \in Int /\ y1 \in Int /\ y2 \in Int
      /\ u1 \in Int /\ u2 \in Int /\ v1 \in Int /\ v2 \in Int
  <2>1. ASSUME NEW E, NEW m \in Nat, E \subseteq 0 .. m, E # {}
        PROVE  Least(E) \in Int /\ Greatest(E) \in Int
    <3>1. E \subseteq Nat /\ E \subseteq Int /\ \A x \in E : x <= m
      BY <2>1
    <3>2. Least(E) \in E /\ Greatest(E) \in E
      BY <2>1, <3>1, LeastIn, GreatestIn
    <3> QED
      BY <3>1, <3>2, Zenon
  <2> QED
    BY <1>2, <1>3, <2>1
<1>6. A[S \cup R] = A[S] + A[R] /\ U[S \cup R] = U[S] + U[R]
  <2> DEFINE f == [k \in 1 .. n |-> bs[k].area]
             g == [k \in 1 .. n |-> bs[k].sum]
  <2>1. n \in Nat /\ IsFiniteSet(1 .. n)
    BY IntervalSize
  <2>2. f \in [1 .. n -> Nat] /\ g \in [1 .. n -> Nat]
    <3>1. \A k \in 1 .. n : bs[k] \in InPicture(w, h)
      OBVIOUS
    <3> QED
      BY <3>1, BoxFields DEF InPicture
  <2>3. Adds(A, 1 .. n, f) /\ Adds(U, 1 .. n, g)
    BY DEF Sums
  <2> DEFINE E == 1 .. n
  <2>4. S \in SUBSET E /\ R \in SUBSET E /\ S \cap R = {}
    OBVIOUS
  <2>5. f \in [E -> Nat] /\ IsFiniteSet(E) /\ Adds(A, E, f)
    BY <2>1, <2>2, <2>3
  <2>6. g \in [E -> Nat] /\ IsFiniteSet(E) /\ Adds(U, E, g)
    BY <2>1, <2>2, <2>3
  <2> HIDE DEF f, g, E
  <2>7. \A a, b \in SUBSET E : a \cap b = {} => A[a \cup b] = A[a] + A[b]
    BY <2>5, AddsUnion
  <2>8. \A a, b \in SUBSET E : a \cap b = {} => U[a \cup b] = U[a] + U[b]
    BY <2>6, AddsUnion
  <2> QED
    BY <2>4, <2>7, <2>8
<1>7. s = [x |-> x1, y |-> y1, w |-> x2 - x1, h |-> y2 - y1, area |-> A[S], sum |-> U[S]]
  BY DEF BoxAt
<1>8. r = [x |-> u1, y |-> v1, w |-> u2 - u1, h |-> v2 - v1, area |-> A[R], sum |-> U[R]]
  BY DEF BoxAt
<1>9. BoxAt(bs, A, U, S \cup R) =
        [x |-> Upto(x1, u1), y |-> Upto(y1, v1),
         w |-> Atleast(x2, u2) - Upto(x1, u1), h |-> Atleast(y2, v2) - Upto(y1, v1),
         area |-> A[S] + A[R], sum |-> U[S] + U[R]]
  BY <1>4, <1>6 DEF BoxAt
<1> HIDE DEF s, r, x1, x2, y1, y2, u1, u2, v1, v2
<1>10. /\ s.x = x1 /\ s.y = y1 /\ s.x + s.w = x2 /\ s.y + s.h = y2
       /\ r.x = u1 /\ r.y = v1 /\ r.x + r.w = u2 /\ r.y + r.h = v2
       /\ s.area = A[S] /\ r.area = A[R] /\ s.sum = U[S] /\ r.sum = U[R]
  BY <1>5, <1>7, <1>8
<1> QED
  BY <1>9, <1>10 DEF Hull, s, r

\* The box of a larger group contains that of a smaller one.
Within(a, b) ==
  /\ b.x <= a.x /\ a.x + a.w <= b.x + b.w
  /\ b.y <= a.y /\ a.y + a.h <= b.y + b.h

LEMMA BoxAtType ==
  ASSUME NEW w \in Nat, NEW h \in Nat, NEW bs \in Seq(InPicture(w, h)),
         NEW A, NEW U, Sums(bs, A, U),
         NEW S \in SUBSET (1 .. Len(bs)), S # {}
  PROVE  LET b == BoxAt(bs, A, U, S)
         IN  /\ b.x \in Nat /\ b.w \in Nat \ {0} /\ b.x + b.w \in Rights(bs, S)
             /\ b.y \in Nat /\ b.h \in Nat \ {0} /\ b.y + b.h \in Bottoms(bs, S)
             /\ b.x \in Lefts(bs, S) /\ b.y \in Tops(bs, S)
             /\ \A k \in S : /\ b.x <= bs[k].x /\ bs[k].x + bs[k].w <= b.x + b.w
                             /\ b.y <= bs[k].y /\ bs[k].y + bs[k].h <= b.y + b.h
<1> DEFINE b == BoxAt(bs, A, U, S)
           x1 == Least(Lefts(bs, S))    x2 == Greatest(Rights(bs, S))
           y1 == Least(Tops(bs, S))     y2 == Greatest(Bottoms(bs, S))
<1>1. /\ Lefts(bs, S) \subseteq 0 .. w /\ Lefts(bs, S) # {}
      /\ Rights(bs, S) \subseteq 0 .. w /\ Rights(bs, S) # {}
      /\ Tops(bs, S) \subseteq 0 .. h /\ Tops(bs, S) # {}
      /\ Bottoms(bs, S) \subseteq 0 .. h /\ Bottoms(bs, S) # {}
  BY EdgesType
<1>2. ASSUME NEW E, NEW m \in Nat, E \subseteq 0 .. m, E # {}
      PROVE  /\ Least(E) \in E /\ Greatest(E) \in E /\ Least(E) \in Nat /\ Greatest(E) \in Nat
             /\ \A x \in E : Least(E) <= x /\ x <= Greatest(E)
  <2>1. E \subseteq Nat /\ \A x \in E : x <= m
    BY <1>2
  <2>2. Least(E) \in E /\ Greatest(E) \in E /\ \A x \in E : Least(E) <= x /\ Greatest(E) >= x
    BY <1>2, <2>1, LeastIn, GreatestIn
  <2> QED
    BY <2>1, <2>2
<1>3. /\ x1 \in Lefts(bs, S) /\ x1 \in Nat /\ \A x \in Lefts(bs, S) : x1 <= x
      /\ x2 \in Rights(bs, S) /\ x2 \in Nat /\ \A x \in Rights(bs, S) : x <= x2
      /\ y1 \in Tops(bs, S) /\ y1 \in Nat /\ \A x \in Tops(bs, S) : y1 <= x
      /\ y2 \in Bottoms(bs, S) /\ y2 \in Nat /\ \A x \in Bottoms(bs, S) : x <= y2
  BY <1>1, <1>2
<1>4. b.x = x1 /\ b.y = y1 /\ b.w = x2 - x1 /\ b.h = y2 - y1
  BY DEF BoxAt
<1> HIDE DEF b, x1, x2, y1, y2
<1>5. ASSUME NEW k \in S
      PROVE  /\ x1 <= bs[k].x /\ bs[k].x + bs[k].w <= x2
             /\ y1 <= bs[k].y /\ bs[k].y + bs[k].h <= y2
  BY <1>3 DEF Lefts, Rights, Tops, Bottoms
<1>6. PICK k : k \in S
  OBVIOUS
<1>7. bs[k] \in Boxes
  <2>1. bs[k] \in InPicture(w, h)
    BY <1>6
  <2> QED
    BY <2>1 DEF InPicture
<1>8. bs[k].x \in Nat /\ bs[k].w \in Nat /\ bs[k].w > 0
      /\ bs[k].y \in Nat /\ bs[k].h \in Nat /\ bs[k].h > 0
  BY <1>7, BoxFields
<1>9. x1 < x2 /\ y1 < y2
  <2> DEFINE p == bs[k].x
             q == bs[k].w
             t == bs[k].y
             z == bs[k].h
  <2>1. /\ p \in Nat /\ q \in Nat /\ q > 0 /\ x1 <= p /\ p + q <= x2
        /\ t \in Nat /\ z \in Nat /\ z > 0 /\ y1 <= t /\ t + z <= y2
    BY <1>5, <1>6, <1>8
  <2> HIDE DEF p, q, t, z
  <2> QED
    BY <1>3, <2>1
<1>10. /\ b.w \in Nat \ {0} /\ b.x + b.w = x2
       /\ b.h \in Nat \ {0} /\ b.y + b.h = y2
  BY <1>3, <1>4, <1>9
<1> QED
  BY <1>3, <1>4, <1>5, <1>10 DEF b

LEMMA BoxGrows ==
  ASSUME NEW w \in Nat, NEW h \in Nat, NEW bs \in Seq(InPicture(w, h)),
         NEW A, NEW U, Sums(bs, A, U),
         NEW R \in SUBSET (1 .. Len(bs)), NEW S \in SUBSET R, S # {}
  PROVE  Within(BoxAt(bs, A, U, S), BoxAt(bs, A, U, R))
<1> DEFINE s == BoxAt(bs, A, U, S)
           r == BoxAt(bs, A, U, R)
<1>1. /\ s.x \in Lefts(bs, S) /\ s.x + s.w \in Rights(bs, S)
      /\ s.y \in Tops(bs, S) /\ s.y + s.h \in Bottoms(bs, S)
  BY BoxAtType
<1>2. \A k \in R : /\ r.x <= bs[k].x /\ bs[k].x + bs[k].w <= r.x + r.w
                   /\ r.y <= bs[k].y /\ bs[k].y + bs[k].h <= r.y + r.h
  BY BoxAtType
<1> HIDE DEF s, r
<1>3. /\ \E k \in R : s.x = bs[k].x
      /\ \E k \in R : s.x + s.w = bs[k].x + bs[k].w
      /\ \E k \in R : s.y = bs[k].y
      /\ \E k \in R : s.y + s.h = bs[k].y + bs[k].h
  BY <1>1 DEF Lefts, Rights, Tops, Bottoms
<1>4. r.x <= s.x /\ s.x + s.w <= r.x + r.w /\ r.y <= s.y /\ s.y + s.h <= r.y + r.h
  BY <1>2, <1>3
<1> QED
  BY <1>4 DEF Within, s, r

LEMMA GapShrinks ==
  ASSUME NEW a1 \in Int, NEW a2 \in Int, NEW b1 \in Int, NEW b2 \in Int,
         NEW c1 \in Int, NEW c2 \in Int, NEW d1 \in Int, NEW d2 \in Int,
         c1 <= a1, a2 <= c2, d1 <= b1, b2 <= d2, a1 <= a2, b1 <= b2,
         NEW m \in Nat, Gap(a1, a2, b1, b2) <= m
  PROVE  Gap(c1, c2, d1, d2) <= m /\ Gap(d1, d2, c1, c2) <= m
  BY DEF Gap

Sized(b) == /\ b.x \in Nat /\ b.w \in Nat /\ b.w > 0
            /\ b.y \in Nat /\ b.h \in Nat /\ b.h > 0

\* What is close stays close when the boxes grow, from either side.
LEMMA StaysClose ==
  ASSUME NEW s, NEW r, NEW p, NEW q, Sized(s), Sized(r), Sized(p), Sized(q),
         Within(s, p), Within(r, q), Close(s, r)
  PROVE  Close(p, q) /\ Close(q, p)
<1>1. Margin \in Nat
  BY BlobsAssumption DEF BlobsAssumption
<1>2. /\ Gap(p.x, p.x + p.w - 1, q.x, q.x + q.w - 1) <= Margin
      /\ Gap(q.x, q.x + q.w - 1, p.x, p.x + p.w - 1) <= Margin
  <2> DEFINE a1 == s.x
             a2 == s.x + s.w - 1
             b1 == r.x
             b2 == r.x + r.w - 1
             c1 == p.x
             c2 == p.x + p.w - 1
             d1 == q.x
             d2 == q.x + q.w - 1
  <2>1. a1 \in Int /\ a2 \in Int /\ b1 \in Int /\ b2 \in Int /\ a1 <= a2 /\ b1 <= b2
    BY DEF Sized
  <2>2. c1 \in Int /\ c2 \in Int /\ d1 \in Int /\ d2 \in Int
    BY DEF Sized
  <2>3. c1 <= a1 /\ a2 <= c2
    BY DEF Within, Sized
  <2>4. d1 <= b1 /\ b2 <= d2
    BY DEF Within, Sized
  <2>5. Gap(a1, a2, b1, b2) <= Margin
    BY DEF Close
  <2> HIDE DEF a1, a2, b1, b2, c1, c2, d1, d2
  <2>6. Gap(c1, c2, d1, d2) <= Margin /\ Gap(d1, d2, c1, c2) <= Margin
    BY <1>1, <2>1, <2>2, <2>3, <2>4, <2>5, GapShrinks
  <2> QED
    BY <2>6 DEF c1, c2, d1, d2
<1>3. /\ Gap(p.y, p.y + p.h - 1, q.y, q.y + q.h - 1) <= Margin
      /\ Gap(q.y, q.y + q.h - 1, p.y, p.y + p.h - 1) <= Margin
  <2> DEFINE a1 == s.y
             a2 == s.y + s.h - 1
             b1 == r.y
             b2 == r.y + r.h - 1
             c1 == p.y
             c2 == p.y + p.h - 1
             d1 == q.y
             d2 == q.y + q.h - 1
  <2>1. a1 \in Int /\ a2 \in Int /\ b1 \in Int /\ b2 \in Int /\ a1 <= a2 /\ b1 <= b2
    BY DEF Sized
  <2>2. c1 \in Int /\ c2 \in Int /\ d1 \in Int /\ d2 \in Int
    BY DEF Sized
  <2>3. c1 <= a1 /\ a2 <= c2
    BY DEF Within, Sized
  <2>4. d1 <= b1 /\ b2 <= d2
    BY DEF Within, Sized
  <2>5. Gap(a1, a2, b1, b2) <= Margin
    BY DEF Close
  <2> HIDE DEF a1, a2, b1, b2, c1, c2, d1, d2
  <2>6. Gap(c1, c2, d1, d2) <= Margin /\ Gap(d1, d2, c1, c2) <= Margin
    BY <1>1, <2>1, <2>2, <2>3, <2>4, <2>5, GapShrinks
  <2> QED
    BY <2>6 DEF c1, c2, d1, d2
<1> QED
  BY <1>2, <1>3 DEF Close

LEMMA CloseGrows ==
  ASSUME NEW w \in Nat, NEW h \in Nat, NEW bs \in Seq(InPicture(w, h)),
         NEW A, NEW U, Sums(bs, A, U),
         NEW P \in SUBSET (1 .. Len(bs)), NEW S \in SUBSET P, S # {},
         NEW Q \in SUBSET (1 .. Len(bs)), NEW R \in SUBSET Q, R # {},
         Close(BoxAt(bs, A, U, S), BoxAt(bs, A, U, R))
  PROVE  /\ Close(BoxAt(bs, A, U, P), BoxAt(bs, A, U, Q))
         /\ Close(BoxAt(bs, A, U, Q), BoxAt(bs, A, U, P))
<1>1. ASSUME NEW E \in SUBSET (1 .. Len(bs)), E # {} PROVE Sized(BoxAt(bs, A, U, E))
  <2> DEFINE b == BoxAt(bs, A, U, E)
  <2>1. b.x \in Nat /\ b.w \in Nat \ {0} /\ b.y \in Nat /\ b.h \in Nat \ {0}
    BY <1>1, BoxAtType
  <2> HIDE DEF b
  <2>2. Sized(b)
    BY <2>1 DEF Sized
  <2> QED
    BY <2>2 DEF b
<1>2. P # {} /\ Q # {} /\ S \in SUBSET (1 .. Len(bs)) /\ R \in SUBSET (1 .. Len(bs))
  OBVIOUS
<1>3. /\ Sized(BoxAt(bs, A, U, S)) /\ Sized(BoxAt(bs, A, U, P))
      /\ Sized(BoxAt(bs, A, U, R)) /\ Sized(BoxAt(bs, A, U, Q))
  BY <1>1, <1>2
<1>4. /\ Within(BoxAt(bs, A, U, S), BoxAt(bs, A, U, P))
      /\ Within(BoxAt(bs, A, U, R), BoxAt(bs, A, U, Q))
  BY BoxGrows
<1> QED
  BY <1>3, <1>4, StaysClose

\* The ways to divide the numbers up to n into groups, and those whose boxes are
\* apart.
Class(n, f, k) == {i \in 1 .. n : f[i] = k}
Divisions(n) == {{Class(n, f, f[i]) : i \in 1 .. n} : f \in [1 .. n -> 1 .. n]}
ApartAt(bs, A, U, division) ==
  \A g, h \in division : g # h => ~Close(BoxAt(bs, A, U, g), BoxAt(bs, A, U, h))

\* The list r has the boxes of a division of bs, f telling the group of each blob,
\* and no division whose boxes are apart parts one of its groups.
GroupedBy(r, f, bs, A, U) ==
  /\ f \in [1 .. Len(bs) -> 1 .. Len(r)]
  /\ \A k \in 1 .. Len(r) :
       /\ Class(Len(bs), f, k) # {}
       /\ r[k] = BoxAt(bs, A, U, Class(Len(bs), f, k))
       /\ \A other \in Divisions(Len(bs)) : ApartAt(bs, A, U, other) =>
            \E g \in other : Class(Len(bs), f, k) \subseteq g
Grouped(w, h, bs, A, U) ==
  {r \in Seq(InPicture(w, h)) : Len(r) <= Len(bs) /\ \E f : GroupedBy(r, f, bs, A, U)}

LEMMA GroupsAre ==
  ASSUME NEW n \in Nat, NEW division \in Divisions(n)
  PROVE  /\ \A g \in division : g \in SUBSET (1 .. n)
         /\ \A i \in 1 .. n : \E g \in division : i \in g
<1>1. PICK f \in [1 .. n -> 1 .. n] : division = {Class(n, f, f[i]) : i \in 1 .. n}
  BY DEF Divisions
<1>2. \A i \in 1 .. n : Class(n, f, f[i]) \in division /\ i \in Class(n, f, f[i])
  BY <1>1 DEF Class
<1>3. \A k : Class(n, f, k) \in SUBSET (1 .. n)
  BY DEF Class
<1> QED
  BY <1>1, <1>2, <1>3

\* In the beginning each blob is a group of its own.
LEMMA GroupedStart ==
  ASSUME NEW w \in Nat, NEW h \in Nat, NEW bs \in Seq(InPicture(w, h)),
         NEW A, NEW U, Sums(bs, A, U)
  PROVE  bs \in Grouped(w, h, bs, A, U)
<1> DEFINE n == Len(bs)
           f == [i \in 1 .. n |-> i]
<1>1. n \in Nat
  OBVIOUS
<1>2. f \in [1 .. n -> 1 .. n] /\ \A k \in 1 .. n : Class(n, f, k) = {k}
  BY DEF Class
<1> HIDE DEF f
<1>3. ASSUME NEW k \in 1 .. n
      PROVE  /\ Class(n, f, k) # {}
             /\ bs[k] = BoxAt(bs, A, U, Class(n, f, k))
             /\ \A other \in Divisions(n) : ApartAt(bs, A, U, other) =>
                  \E g \in other : Class(n, f, k) \subseteq g
  <2>1. bs[k] = BoxAt(bs, A, U, {k})
    BY BoxOfOne
  <2>2. \A other \in Divisions(n) : \E g \in other : {k} \subseteq g
    BY <1>1, GroupsAre
  <2> DEFINE c == Class(n, f, k)
  <2>3. c = {k}
    BY <1>2
  <2> HIDE DEF c
  <2>4. c # {} /\ bs[k] = BoxAt(bs, A, U, c)
    BY <2>1, <2>3
  <2>5. \A other \in Divisions(n) : ApartAt(bs, A, U, other) => \E g \in other : c \subseteq g
    BY <2>2, <2>3
  <2> QED
    BY <2>4, <2>5 DEF c
<1>4. GroupedBy(bs, f, bs, A, U)
  BY <1>2, <1>3 DEF GroupedBy
<1> QED
  BY <1>1, <1>4 DEF Grouped

\* Two groups with close boxes are in one group of every division that is apart.
LEMMA NotParted ==
  ASSUME NEW w \in Nat, NEW h \in Nat, NEW bs \in Seq(InPicture(w, h)),
         NEW A, NEW U, Sums(bs, A, U),
         NEW S \in SUBSET (1 .. Len(bs)), S # {},
         NEW R \in SUBSET (1 .. Len(bs)), R # {},
         Close(BoxAt(bs, A, U, S), BoxAt(bs, A, U, R)),
         NEW other \in Divisions(Len(bs)), ApartAt(bs, A, U, other),
         NEW p \in other, S \subseteq p, NEW q \in other, R \subseteq q
  PROVE  p = q
<1>1. p \in SUBSET (1 .. Len(bs)) /\ q \in SUBSET (1 .. Len(bs))
  BY GroupsAre
<1>2. Close(BoxAt(bs, A, U, p), BoxAt(bs, A, U, q))
  BY <1>1, CloseGrows
<1> QED
  BY <1>2 DEF ApartAt

\* One group takes in another whose box is close, and the last one takes its place.
LEMMA GroupedAbsorb ==
  ASSUME NEW w \in Nat, NEW h \in Nat, NEW bs \in Seq(InPicture(w, h)),
         NEW A, NEW U, Sums(bs, A, U),
         NEW r \in Grouped(w, h, bs, A, U), NEW i \in 1 .. Len(r), NEW j \in 1 .. Len(r),
         i < j, Close(r[i], r[j])
  PROVE  Absorb(r, i, j) \in Grouped(w, h, bs, A, U)
<1> DEFINE n == Len(bs)
           m == Len(r)
           a == Absorb(r, i, j)
           B == InPicture(w, h)
<1>1. /\ n \in Nat /\ m \in Nat /\ m <= n /\ r \in Seq(B) /\ m - 1 \in Nat
      /\ i \in 1 .. m /\ j \in 1 .. m /\ \A k \in 1 .. m : r[k] \in B
  BY DEF Grouped
<1>2. PICK f : GroupedBy(r, f, bs, A, U)
  BY DEF Grouped
<1> DEFINE C(k) == Class(n, f, k)
<1>3. /\ f \in [1 .. n -> 1 .. m]
      /\ \A k \in 1 .. m : /\ C(k) # {} /\ C(k) \in SUBSET (1 .. n)
                           /\ r[k] = BoxAt(bs, A, U, C(k))
      /\ \A k \in 1 .. m : \A other \in Divisions(n) :
           ApartAt(bs, A, U, other) => \E g \in other : C(k) \subseteq g
  BY <1>2 DEF GroupedBy, Class
<1> DEFINE f2 == [x \in 1 .. n |-> IF f[x] = j THEN i ELSE IF f[x] = m THEN j ELSE f[x]]
           D(k) == Class(n, f2, k)
<1>4. /\ a = [k \in 1 .. m - 1 |->
                IF k = i THEN Hull(r[i], r[j]) ELSE IF k = j THEN r[m] ELSE r[k]]
      /\ a \in Seq(B) /\ Len(a) = m - 1
  <2>1. Hull(r[i], r[j]) \in B
    BY <1>1, HullType
  <2>2. \A k \in 1 .. m - 1 : k \in 1 .. m /\ m \in 1 .. m
    BY <1>1
  <2> HIDE DEF B, m
  <2>3. a = [k \in 1 .. m - 1 |->
               IF k = i THEN Hull(r[i], r[j]) ELSE IF k = j THEN r[m] ELSE r[k]]
    BY DEF Absorb, m
  <2>4. a \in [1 .. m - 1 -> B]
    BY <1>1, <2>1, <2>2, <2>3
  <2>5. a \in Seq(B)
    BY <1>1, <2>4
  <2>6. Len(a) = m - 1
    BY <1>1, <2>5, AbsorbLen DEF m
  <2> QED
    BY <2>3, <2>5, <2>6
<1>5. f2 \in [1 .. n -> 1 .. m - 1]
  <2>1. \A x \in 1 .. n : f[x] \in 1 .. m
    BY <1>3
  <2>2. ASSUME NEW x \in 1 .. n
        PROVE  (IF f[x] = j THEN i ELSE IF f[x] = m THEN j ELSE f[x]) \in 1 .. m - 1
    <3> DEFINE y == f[x]
    <3>1. y \in 1 .. m
      BY <2>1
    <3> HIDE DEF y, m
    <3>2. (IF y = j THEN i ELSE IF y = m THEN j ELSE y) \in 1 .. m - 1
      BY <1>1, <3>1
    <3> QED
      BY <3>2 DEF y
  <2> QED
    BY <2>2
<1>6. /\ D(i) = C(i) \cup C(j)
      /\ j \in 1 .. m - 1 => D(j) = C(m)
      /\ \A k \in 1 .. m - 1 : k # i /\ k # j => D(k) = C(k)
  <2>1. \A x \in 1 .. n : /\ f[x] \in 1 .. m
                          /\ f2[x] = IF f[x] = j THEN i ELSE IF f[x] = m THEN j ELSE f[x]
    BY <1>3
  <2> HIDE DEF f2, m
  <2>2. \A x \in 1 .. n : f2[x] = i <=> f[x] = i \/ f[x] = j
    BY <1>1, <2>1
  <2>3. j \in 1 .. m - 1 => \A x \in 1 .. n : f2[x] = j <=> f[x] = m
    BY <1>1, <2>1
  <2>4. \A k \in 1 .. m - 1 : k # i /\ k # j => \A x \in 1 .. n : f2[x] = k <=> f[x] = k
    BY <1>1, <2>1
  <2> QED
    BY <2>2, <2>3, <2>4 DEF Class
<1> HIDE DEF f2, C, D, a, n, m
<1>7. C(i) \cap C(j) = {}
  BY <1>1 DEF C, Class
<1>8. ASSUME NEW k \in 1 .. m - 1
      PROVE  /\ D(k) # {} /\ a[k] = BoxAt(bs, A, U, D(k))
             /\ \A other \in Divisions(n) : ApartAt(bs, A, U, other) =>
                  \E g \in other : D(k) \subseteq g
  <2>1. CASE k = i
    <3>1. a[k] = Hull(r[i], r[j]) /\ D(k) = C(i) \cup C(j) /\ D(k) # {}
      BY <1>1, <1>3, <1>4, <1>6, <2>1
    <3>2. BoxAt(bs, A, U, C(i) \cup C(j)) = Hull(BoxAt(bs, A, U, C(i)), BoxAt(bs, A, U, C(j)))
      <4>1. /\ C(i) \in SUBSET (1 .. Len(bs)) /\ C(i) # {}
            /\ C(j) \in SUBSET (1 .. Len(bs)) /\ C(j) # {}
        BY <1>1, <1>3 DEF n
      <4> QED
        <5>1. C(i) \cap C(j) = {}
          BY <1>7
        <5> HIDE DEF C
        <5> QED
          BY <4>1, <5>1, HullOf
    <3>3. r[i] = BoxAt(bs, A, U, C(i)) /\ r[j] = BoxAt(bs, A, U, C(j))
      BY <1>1, <1>3
    <3>4. ASSUME NEW other \in Divisions(n), ApartAt(bs, A, U, other)
          PROVE  \E g \in other : D(k) \subseteq g
      <4>1. PICK p \in other : C(i) \subseteq p
        BY <1>1, <1>3, <3>4
      <4>2. PICK q \in other : C(j) \subseteq q
        BY <1>1, <1>3, <3>4
      <4>3. /\ C(i) \in SUBSET (1 .. Len(bs)) /\ C(i) # {}
            /\ C(j) \in SUBSET (1 .. Len(bs)) /\ C(j) # {}
            /\ Close(BoxAt(bs, A, U, C(i)), BoxAt(bs, A, U, C(j)))
        BY <1>1, <1>3, <3>3 DEF n
      <4>4. p = q
        BY <3>4, <4>1, <4>2, <4>3, NotParted DEF n
      <4> QED
        BY <3>1, <4>1, <4>2, <4>4
    <3> QED
      BY <3>1, <3>2, <3>3, <3>4
  <2>2. CASE k = j
    <3>1. a[k] = r[m] /\ D(k) = C(m) /\ m \in 1 .. m
      BY <1>1, <1>4, <1>6, <2>2
    <3>2. /\ C(m) # {} /\ r[m] = BoxAt(bs, A, U, C(m))
          /\ \A other \in Divisions(n) :
               ApartAt(bs, A, U, other) => \E g \in other : C(m) \subseteq g
      BY <1>3, <3>1
    <3> QED
      BY <3>1, <3>2
  <2>3. CASE k # i /\ k # j
    <3>1. a[k] = r[k] /\ D(k) = C(k) /\ k \in 1 .. m
      BY <1>1, <1>4, <1>6, <2>3
    <3> QED
      BY <1>3, <3>1
  <2> QED
    BY <2>1, <2>2, <2>3
<1>9. GroupedBy(a, f2, bs, A, U)
  BY <1>4, <1>5, <1>8 DEF GroupedBy, D, n
<1>10. Len(a) <= Len(bs)
  BY <1>1, <1>4 DEF n
<1>11. a \in Grouped(w, h, bs, A, U)
  BY <1>4, <1>9, <1>10 DEF Grouped
<1> QED
  BY <1>11 DEF a

\* Merging gives the finest division into groups whose boxes are apart.
FinestIs(finest, r, bs, A, U) ==
  /\ finest \in Divisions(Len(bs)) /\ ApartAt(bs, A, U, finest)
  /\ \A other \in Divisions(Len(bs)) : ApartAt(bs, A, U, other) =>
       \A g \in finest : \E h \in other : g \subseteq h
  /\ ToSet(r) = {BoxAt(bs, A, U, g) : g \in finest}
  /\ Len(r) = Cardinality(finest)

LEMMA FinestExists ==
  ASSUME NEW w \in Nat, NEW h \in Nat, NEW bs \in Seq(InPicture(w, h)),
         NEW A, NEW U, Sums(bs, A, U)
  PROVE  \E finest : FinestIs(finest, MergeClose(bs), bs, A, U)
<1> DEFINE n == Len(bs)
           r == MergeClose(bs)
           m == Len(r)
           T == Grouped(w, h, bs, A, U)
<1>1. n \in Nat
  OBVIOUS
<1>2. r \in T /\ NoneClose(r)
  <2>1. MergeClosed(T)
    <3>1. ASSUME NEW x \in T, NEW i \in 1 .. Len(x), NEW j \in 1 .. Len(x), i < j,
                 Close(x[i], x[j])
          PROVE  Absorb(x, i, j) \in T
      BY <3>1, GroupedAbsorb
    <3> QED
      BY <3>1 DEF MergeClosed
  <2>2. T \subseteq Seq(InPicture(w, h)) /\ bs \in T
    BY GroupedStart DEF Grouped
  <2> HIDE DEF T
  <2> QED
    BY <2>1, <2>2, MergeIs
<1> HIDE DEF r
<1>3. m \in Nat /\ m <= n /\ r \in Seq(InPicture(w, h))
  BY <1>2 DEF Grouped
<1>4. PICK f : GroupedBy(r, f, bs, A, U)
  BY <1>2 DEF Grouped
<1> DEFINE C(k) == Class(n, f, k)
           finest == {C(k) : k \in 1 .. m}
<1>5. /\ f \in [1 .. n -> 1 .. m]
      /\ \A k \in 1 .. m : /\ C(k) # {} /\ C(k) \in SUBSET (1 .. n)
                           /\ r[k] = BoxAt(bs, A, U, C(k))
      /\ \A k \in 1 .. m : \A other \in Divisions(n) :
           ApartAt(bs, A, U, other) => \E g \in other : C(k) \subseteq g
  BY <1>4 DEF GroupedBy, Class
<1>6. \A i, j \in 1 .. m : C(i) = C(j) => i = j
  <2>1. \A i \in 1 .. m : \E x \in C(i) : x \in 1 .. n /\ f[x] = i
    BY <1>5 DEF Class
  <2> QED
    BY <2>1 DEF Class
<1>7. finest \in Divisions(n)
  <2>1. f \in [1 .. n -> 1 .. n]
    <3>1. \A k \in 1 .. m : k \in 1 .. n
      BY <1>1, <1>3
    <3> QED
      BY <1>5, <3>1
  <2>2. \A i \in 1 .. n : f[i] \in 1 .. m
    BY <1>5
  <2>3. \A k \in 1 .. m : \E i \in 1 .. n : f[i] = k
    BY <1>5 DEF Class
  <2>4. finest = {C(f[i]) : i \in 1 .. n}
    BY <2>2, <2>3
  <2> QED
    BY <2>1, <2>4 DEF Divisions
<1>8. ApartAt(bs, A, U, finest)
  <2> SUFFICES ASSUME NEW i \in 1 .. m, NEW j \in 1 .. m, C(i) # C(j),
                      Close(BoxAt(bs, A, U, C(i)), BoxAt(bs, A, U, C(j)))
               PROVE  FALSE
    BY DEF ApartAt
  <2>1. /\ C(i) \in SUBSET (1 .. Len(bs)) /\ C(i) # {}
        /\ C(j) \in SUBSET (1 .. Len(bs)) /\ C(j) # {}
        /\ C(i) \in SUBSET C(i) /\ C(j) \in SUBSET C(j)
        /\ r[i] = BoxAt(bs, A, U, C(i)) /\ r[j] = BoxAt(bs, A, U, C(j))
    BY <1>5
  <2> DEFINE p == C(i)
             q == C(j)
  <2>2. /\ p \in SUBSET (1 .. Len(bs)) /\ p # {} /\ q \in SUBSET (1 .. Len(bs)) /\ q # {}
        /\ r[i] = BoxAt(bs, A, U, p) /\ r[j] = BoxAt(bs, A, U, q)
        /\ Close(BoxAt(bs, A, U, p), BoxAt(bs, A, U, q)) /\ i # j
    BY <2>1
  <2> HIDE DEF p, q
  <2>3. p \in SUBSET p /\ q \in SUBSET q
    OBVIOUS
  <2>4. Close(BoxAt(bs, A, U, q), BoxAt(bs, A, U, p))
    BY <2>2, <2>3, CloseGrows
  <2>5. i < j \/ j < i
    BY <1>3, <2>2
  <2> QED
    BY <1>2, <2>2, <2>4, <2>5 DEF NoneClose
<1>9. \A other \in Divisions(n) : ApartAt(bs, A, U, other) =>
        \A g \in finest : \E p \in other : g \subseteq p
  BY <1>5
<1>10. ToSet(r) = {BoxAt(bs, A, U, g) : g \in finest}
  <2>1. DOMAIN r = 1 .. m /\ ToSet(r) = {r[k] : k \in DOMAIN r}
    BY <1>3 DEF ToSet
  <2> HIDE DEF C, m
  <2>2. ToSet(r) = {BoxAt(bs, A, U, C(k)) : k \in 1 .. m}
    BY <1>5, <2>1
  <2> QED
    BY <2>2
<1>11. m = Cardinality(finest)
  <2> DEFINE g == [k \in 1 .. m |-> C(k)]
  <2>1. g \in [1 .. m -> finest] /\ \A k \in 1 .. m : g[k] = C(k)
    OBVIOUS
  <2>2. \A x \in finest : \E k \in 1 .. m : x = C(k)
    OBVIOUS
  <2> HIDE DEF g, finest, C, m
  <2>3. g \in Bijection(1 .. m, finest)
    BY <1>6, <2>1, <2>2 DEF Bijection, Injection, Surjection, IsInjective
  <2>4. ExistsBijection(1 .. m, finest)
    BY <2>3 DEF ExistsBijection
  <2>5. IsFiniteSet(1 .. m) /\ Cardinality(1 .. m) = m
    BY <1>3, FS_Interval
  <2> QED
    BY <2>4, <2>5, FS_Bijection
<1> HIDE DEF finest
<1>12. FinestIs(finest, r, bs, A, U)
  BY <1>7, <1>8, <1>9, <1>10, <1>11 DEF FinestIs
<1> QED
  BY <1>12 DEF r

\* For any blobs in a picture, merging gives the finest division into groups whose
\* boxes are apart, whatever the order of the blobs (motion_detect.c:163).
THEOREM MergingIsFinest ==
  ASSUME NEW w \in Nat, NEW h \in Nat, NEW bs \in Seq(InPicture(w, h))
  PROVE  \E A, U : Sums(bs, A, U) /\ \E finest : FinestIs(finest, MergeClose(bs), bs, A, U)
<1>1. bs \in Seq(Boxes)
  <2>1. InPicture(w, h) \subseteq Boxes
    BY DEF InPicture
  <2> QED
    BY <2>1
<1>2. PICK A, U : Sums(bs, A, U)
  BY <1>1, SumsExist
<1> QED
  BY <1>2, FinestExists

-----------------------------------------------------------------------------
(* The tracker *)

IdsFollow ==
  \A t \in Tracks : active[t] /\ since[t] < MaxId =>
    \/ next_id = id[t] + since[t] + 1
    \/ next_id = id[t] + since[t] + 1 - MaxId

SpawnedApart ==
  \A t, u \in Tracks :
    t # u /\ active[t] /\ active[u] /\ since[t] < MaxId => since[t] # since[u]

\* alert_frames never runs ahead of the matches in a row, and is behind them
\* between a match and the end of the frame.
EscalationInv ==
  \A t \in Tracks : active[t] =>
    /\ alert_frames[t] <= streak[t]
    /\ pc = "match" /\ matched_now[t] =>
         alert_frames[t] < streak[t] \/ streak[t] = AlertSustain
    /\ streak[t] = AlertSustain => earned[t]
    /\ was_alert[t] => earned[t]

ShownInv == pc = "frame" => \A t \in DOMAIN result : result[t] = "alert" => earned[t]

-----------------------------------------------------------------------------
(* Facts about the operators *)

LEMMA ConstantsType ==
  /\ MaxTracks \in Nat /\ MaxTracks > 0 /\ MaxId \in Nat /\ MaxId > 0
  /\ AlertSustain \in Nat /\ AlertSustain > 0
  /\ ConfirmHits \in Nat /\ ConfirmHits > 0
  /\ PossibleHold \in Nat /\ Reach \in Nat
  /\ HitCap \in Nat /\ HitCap > 0
  BY TrackerAssumption DEF TrackerAssumption, HitCap

\* A saturating count grows by at most one and stays within its cap.
LEMMA CountedType ==
  ASSUME NEW cap \in Nat, NEW n \in 0 .. cap
  PROVE  /\ Counted(n, cap) \in 0 .. cap
         /\ Counted(n, cap) = n + 1 \/ (Counted(n, cap) = cap /\ n = cap)
  BY DEF Counted

\* A smoothed coordinate lies between the old and the new one.
LEMMA SmoothedType ==
  ASSUME NEW old \in 0 .. Reach, NEW new \in 0 .. Reach
  PROVE  Smoothed(old, new) \subseteq 0 .. Reach
  <1>1. Reach \in Nat
    BY ConstantsType
  <1>2. (9 * new + 11 * old) \div 20 \in 0 .. Reach
    BY <1>1
  <1>3. (9 * new + 11 * old + 19) \div 20 \in 0 .. Reach
    BY <1>1
  <1> QED
    BY <1>2, <1>3 DEF Smoothed

LEMMA AfterIdType ==
  ASSUME NEW n \in Ids PROVE AfterId(n) \in Ids
  BY ConstantsType DEF Ids, AfterId

-----------------------------------------------------------------------------
(* Types *)

LEMMA InitType == TrackInit => TypeOK
  <1> SUFFICES ASSUME TrackInit PROVE TypeOK
    OBVIOUS
  <1>1. result \in Results
    <2>1. result = <<>> /\ {} \in SUBSET Tracks
      BY DEF TrackInit
    <2>2. <<>> \in [{} -> States]
      OBVIOUS
    <2> QED
      BY <2>1, <2>2 DEF Results
  <1>2. /\ active \in [Tracks -> BOOLEAN] /\ high \in [Tracks -> BOOLEAN]
        /\ was_alert \in [Tracks -> BOOLEAN] /\ matched_now \in [Tracks -> BOOLEAN]
        /\ earned \in [Tracks -> BOOLEAN]
    BY DEF TrackInit
  <1>3. /\ id \in [Tracks -> Ids] /\ next_id \in Ids
        /\ at \in [Tracks -> Point]
        /\ hits \in [Tracks -> 0 .. HitCap]
        /\ misses \in [Tracks -> 0 .. PossibleHold + 1]
        /\ alert_frames \in [Tracks -> 0 .. AlertSustain]
        /\ since \in [Tracks -> 0 .. MaxId]
        /\ streak \in [Tracks -> 0 .. AlertSustain]
    BY ConstantsType DEF TrackInit, Ids, Point
  <1>4. pc \in {"frame", "match", "publish"} /\ seen \in Nat /\ dropped \in Nat
    BY DEF TrackInit
  <1>5. pending \in Seq(Blob)
    BY DEF TrackInit
  <1> QED
    BY <1>1, <1>2, <1>3, <1>4, <1>5 DEF TypeOK

LEMMA FeedType ==
  ASSUME TypeOK, NEW blobs \in Seq(Blob), Feed(blobs) PROVE TypeOK'
  <1>1. /\ pending' \in Seq(Blob) /\ seen' \in Nat /\ dropped' \in Nat
        /\ pc' \in {"frame", "match", "publish"}
        /\ matched_now' \in [Tracks -> BOOLEAN]
    BY DEF Feed, FreshFlags
  <1> QED
    BY <1>1 DEF TypeOK, Feed, bodyVars, historyVars

LEMMA MatchType ==
  ASSUME TypeOK, NEW t \in Tracks, Match(t) PROVE TypeOK'
  <1> DEFINE b == Head(pending)
  <1>0. pending # <<>> /\ pending \in Seq(Blob)
    BY DEF Match, Matching, TypeOK
  <1>1. b \in Blob /\ pending' \in Seq(Blob)
    BY <1>0 DEF Match
  <1>2. b.at.x \in 0 .. Reach /\ b.at.y \in 0 .. Reach /\ b.high \in BOOLEAN
    BY <1>1 DEF Blob, Point
  <1>3. at[t].x \in 0 .. Reach /\ at[t].y \in 0 .. Reach /\ high[t] \in BOOLEAN
    BY DEF TypeOK, Point
  <1>4. /\ Smoothed(at[t].x, b.at.x) \subseteq 0 .. Reach
        /\ Smoothed(at[t].y, b.at.y) \subseteq 0 .. Reach
    BY <1>2, <1>3, SmoothedType
  <1>5. at' \in [Tracks -> Point]
    <2>1. PICK x \in Smoothed(at[t].x, b.at.x), y \in Smoothed(at[t].y, b.at.y) :
            at' = [at EXCEPT ![t] = [x |-> x, y |-> y]]
      BY DEF Match
    <2>2. [x |-> x, y |-> y] \in Point
      BY <1>4 DEF Point
    <2> QED
      BY <2>1, <2>2 DEF TypeOK
  <1>6. high' \in [Tracks -> BOOLEAN]
    <2>1. PICK s \in {b.high, high[t]} : high' = [high EXCEPT ![t] = s]
      BY DEF Match
    <2>2. s \in BOOLEAN
      BY <1>2, <1>3
    <2> QED
      BY <2>1, <2>2 DEF TypeOK
  <1>7. hits' \in [Tracks -> 0 .. HitCap] /\ streak' \in [Tracks -> 0 .. AlertSustain]
    <2>1. hits[t] \in 0 .. HitCap /\ streak[t] \in 0 .. AlertSustain
      BY DEF TypeOK
    <2>2. /\ Counted(hits[t], HitCap) \in 0 .. HitCap
          /\ Counted(streak[t], AlertSustain) \in 0 .. AlertSustain
      BY <2>1, CountedType, ConstantsType
    <2> QED
      BY <2>2 DEF Match, TypeOK
  <1>8. misses' \in [Tracks -> 0 .. PossibleHold + 1]
    BY ConstantsType DEF Match, TypeOK
  <1>9. matched_now' \in [Tracks -> BOOLEAN] /\ earned' \in [Tracks -> BOOLEAN]
    BY DEF Match, TypeOK
  <1> QED
    BY <1>1, <1>5, <1>6, <1>7, <1>8, <1>9 DEF Match, TypeOK

LEMMA SpawnType ==
  ASSUME TypeOK, NEW t \in Tracks, Spawn(t) PROVE TypeOK'
  <1>0. pending # <<>> /\ pending \in Seq(Blob)
    BY DEF Spawn, Unmatched, Matching, TypeOK
  <1>1. Head(pending) \in Blob /\ pending' \in Seq(Blob)
    BY <1>0 DEF Spawn
  <1>2. at' \in [Tracks -> Point] /\ high' \in [Tracks -> BOOLEAN]
    BY <1>1 DEF Spawn, TypeOK, Blob
  <1>3. id' \in [Tracks -> Ids] /\ next_id' \in Ids
    BY AfterIdType DEF Spawn, TypeOK
  <1>4. hits' \in [Tracks -> 0 .. HitCap] /\ misses' \in [Tracks -> 0 .. PossibleHold + 1]
    BY ConstantsType DEF Spawn, TypeOK
  <1>5. /\ alert_frames' \in [Tracks -> 0 .. AlertSustain]
        /\ streak' \in [Tracks -> 0 .. AlertSustain]
    BY ConstantsType DEF Spawn, TypeOK
  <1>6. since' \in [Tracks -> 0 .. MaxId]
    <2>1. \A u \in Tracks : Counted(since[u], MaxId) \in 0 .. MaxId
      BY CountedType, ConstantsType DEF TypeOK
    <2> QED
      BY <2>1, ConstantsType DEF Spawn
  <1>7. /\ active' \in [Tracks -> BOOLEAN] /\ was_alert' \in [Tracks -> BOOLEAN]
        /\ matched_now' \in [Tracks -> BOOLEAN] /\ earned' \in [Tracks -> BOOLEAN]
    BY DEF Spawn, TypeOK
  <1> QED
    BY <1>1, <1>2, <1>3, <1>4, <1>5, <1>6, <1>7 DEF Spawn, TypeOK

LEMMA DropType == TypeOK /\ Drop => TypeOK'
  <1> SUFFICES ASSUME TypeOK, Drop PROVE TypeOK'
    OBVIOUS
  <1>1. pending # <<>> /\ pending \in Seq(Blob)
    BY DEF Drop, Unmatched, Matching, TypeOK
  <1>2. pending' \in Seq(Blob) /\ dropped' \in Nat
    BY <1>1 DEF Drop, TypeOK
  <1> QED
    BY <1>2 DEF Drop, TypeOK, bodyVars, historyVars

LEMMA AlertFramesType ==
  ASSUME TypeOK, NEW t \in Tracks PROVE AlertFrames(t) \in 0 .. AlertSustain
  <1>1. alert_frames[t] \in 0 .. AlertSustain
    BY DEF TypeOK
  <1>2. Counted(alert_frames[t], AlertSustain) \in 0 .. AlertSustain
    BY <1>1, CountedType, ConstantsType
  <1> QED
    BY <1>1, <1>2, ConstantsType DEF AlertFrames

\* Only an active track misses a frame, and one that misses more than
\* PossibleHold is not active any more: this is why misses is bounded.
MissesInv == \A t \in Tracks : active[t] => misses[t] <= PossibleHold

LEMMA AdvanceType == TypeOK /\ MissesInv /\ Advance => TypeOK'
  <1> SUFFICES ASSUME TypeOK, MissesInv, Advance PROVE TypeOK'
    OBVIOUS
  <1>1. misses' \in [Tracks -> 0 .. PossibleHold + 1]
    <2>1. \A t \in Tracks :
            misses[t] + (IF Missed(t) THEN 1 ELSE 0) \in 0 .. PossibleHold + 1
      BY ConstantsType DEF TypeOK, MissesInv, Missed
    <2> QED
      BY <2>1 DEF Advance
  <1>2. alert_frames' \in [Tracks -> 0 .. AlertSustain]
    BY AlertFramesType DEF Advance
  <1>3. streak' \in [Tracks -> 0 .. AlertSustain]
    BY ConstantsType DEF Advance, TypeOK
  <1>4. since' \in [Tracks -> 0 .. MaxId]
    BY ConstantsType DEF Advance, TypeOK
  <1>5. active' \in [Tracks -> BOOLEAN]
    BY DEF Advance, TypeOK
  <1>6. was_alert' \in [Tracks -> BOOLEAN] /\ earned' \in [Tracks -> BOOLEAN]
    BY DEF Advance, TypeOK
  <1>7. pc' \in {"frame", "match", "publish"}
    BY DEF Advance
  <1> QED
    BY <1>1, <1>2, <1>3, <1>4, <1>5, <1>6, <1>7 DEF Advance, TypeOK, frameVars

LEMMA PublishType == TypeOK /\ Publish => TypeOK'
  <1> SUFFICES ASSUME TypeOK, Publish PROVE TypeOK'
    OBVIOUS
  <1>1. result' \in Results
    <2>1. \A t \in Visible : StateOf(t) \in States
      BY DEF StateOf, States
    <2>2. Visible \in SUBSET Tracks
      BY DEF Visible
    <2>3. result' \in [Visible -> States]
      BY <2>1 DEF Publish
    <2> QED
      BY <2>2, <2>3 DEF Results
  <1>2. pc' \in {"frame", "match", "publish"}
    BY DEF Publish
  <1> QED
    BY <1>1, <1>2 DEF Publish, TypeOK, bodyVars, frameVars, historyVars

LEMMA MissesStep == TypeOK /\ MissesInv /\ [TrackNext]_trackVars => MissesInv'
  <1> SUFFICES ASSUME TypeOK, MissesInv, [TrackNext]_trackVars PROVE MissesInv'
    OBVIOUS
  <1>1. ASSUME NEW blobs \in Seq(Blob), Feed(blobs) PROVE MissesInv'
    BY <1>1 DEF Feed, MissesInv, bodyVars
  <1>2. ASSUME NEW t \in Tracks, Match(t) PROVE MissesInv'
    BY <1>2, ConstantsType DEF Match, MissesInv, TypeOK
  <1>3. ASSUME NEW t \in Tracks, Spawn(t) PROVE MissesInv'
    BY <1>3, ConstantsType DEF Spawn, MissesInv, TypeOK
  <1>4. CASE Drop
    BY <1>4 DEF Drop, MissesInv, bodyVars
  <1>5. CASE Advance
    BY <1>5, ConstantsType DEF Advance, MissesInv, TypeOK, Missed
  <1>6. CASE Publish
    BY <1>6 DEF Publish, MissesInv, bodyVars
  <1>7. CASE UNCHANGED trackVars
    BY <1>7 DEF trackVars, MissesInv, bodyVars
  <1> QED
    BY <1>1, <1>2, <1>3, <1>4, <1>5, <1>6, <1>7 DEF TrackNext, Track

LEMMA TypeStep == TypeOK /\ MissesInv /\ [TrackNext]_trackVars => TypeOK'
  <1> SUFFICES ASSUME TypeOK, MissesInv, [TrackNext]_trackVars PROVE TypeOK'
    OBVIOUS
  <1>1. CASE UNCHANGED trackVars
    BY <1>1 DEF trackVars, TypeOK, bodyVars, frameVars, historyVars
  <1> QED
    BY <1>1, FeedType, MatchType, SpawnType, DropType, AdvanceType, PublishType
       DEF TrackNext, Track

\* Every variable of the tracker stays within its type, misses included
\* (motion_detect.c:290).
THEOREM TrackerTypeCorrect == TrackSpec => [](TypeOK /\ MissesInv)
  <1>1. TrackInit => TypeOK /\ MissesInv
    BY InitType DEF TrackInit, MissesInv
  <1>2. TypeOK /\ MissesInv /\ [TrackNext]_trackVars => (TypeOK /\ MissesInv)'
    BY TypeStep, MissesStep
  <1> QED
    BY <1>1, <1>2, PTL DEF TrackSpec

-----------------------------------------------------------------------------
(* Identifiers *)

LEMMA SpawnIds ==
  ASSUME TypeOK, IdsFollow, SpawnedApart, NEW t \in Tracks, Spawn(t)
  PROVE  IdsFollow' /\ SpawnedApart'
  <1>1. MaxId \in Nat /\ MaxId > 0 /\ next_id \in Ids
    BY ConstantsType DEF TypeOK
  <1>2. ~active[t]
    BY DEF Spawn, FirstFree
  <1>3. \A u \in Tracks : since[u] \in 0 .. MaxId /\ id[u] \in Ids
    BY DEF TypeOK
  <1>4. since'[t] = 0 /\ id'[t] = next_id
    BY DEF Spawn, TypeOK
  <1>5. ASSUME NEW u \in Tracks, u # t, active'[u]
        PROVE  active[u] /\ id'[u] = id[u] /\ since'[u] = Counted(since[u], MaxId)
    BY <1>5 DEF Spawn, TypeOK
  <1>6. ASSUME NEW u \in Tracks, active'[u], since'[u] < MaxId
        PROVE  \/ next_id' = id'[u] + since'[u] + 1
               \/ next_id' = id'[u] + since'[u] + 1 - MaxId
    <2>0. next_id' = IF next_id = MaxId THEN 1 ELSE next_id + 1
      BY DEF Spawn, AfterId
    <2>1. CASE u = t
      BY <1>1, <1>4, <2>0, <2>1 DEF Ids
    <2>2. CASE u # t
      <3>1. active[u] /\ id'[u] = id[u] /\ since'[u] = since[u] + 1 /\ since[u] < MaxId
        BY <1>1, <1>3, <1>5, <1>6, <2>2 DEF Counted
      <3>2. \/ next_id = id[u] + since[u] + 1
            \/ next_id = id[u] + since[u] + 1 - MaxId
        BY <3>1 DEF IdsFollow
      <3> QED
        BY <1>1, <1>3, <1>6, <2>0, <3>1, <3>2 DEF Ids
    <2> QED
      BY <2>1, <2>2
  <1>7. ASSUME NEW u \in Tracks, NEW v \in Tracks, u # v, active'[u], active'[v],
               since'[u] < MaxId
        PROVE  since'[u] # since'[v]
    <2>1. ASSUME NEW w \in Tracks, w # t, active'[w] PROVE since'[w] > 0
      BY <1>1, <1>3, <1>5, <2>1 DEF Counted
    <2>2. CASE u = t \/ v = t
      BY <1>4, <1>7, <2>1, <2>2
    <2>3. CASE u # t /\ v # t
      BY <1>1, <1>3, <1>5, <1>7, <2>3 DEF Counted, SpawnedApart
    <2> QED
      BY <2>2, <2>3
  <1> QED
    BY <1>6, <1>7 DEF IdsFollow, SpawnedApart

LEMMA IdsStep ==
  TypeOK /\ IdsFollow /\ SpawnedApart /\ [TrackNext]_trackVars
    => IdsFollow' /\ SpawnedApart'
  <1> SUFFICES ASSUME TypeOK, IdsFollow, SpawnedApart, [TrackNext]_trackVars
               PROVE  IdsFollow' /\ SpawnedApart'
    OBVIOUS
  <1>1. ASSUME NEW blobs \in Seq(Blob), Feed(blobs) PROVE IdsFollow' /\ SpawnedApart'
    BY <1>1 DEF Feed, IdsFollow, SpawnedApart, historyVars
  <1>2. ASSUME NEW t \in Tracks, Match(t) PROVE IdsFollow' /\ SpawnedApart'
    BY <1>2 DEF Match, IdsFollow, SpawnedApart
  <1>3. CASE Drop
    BY <1>3 DEF Drop, IdsFollow, SpawnedApart, historyVars
  <1>4. CASE Advance
    <2>1. \A t \in Tracks : active'[t] => active[t] /\ since'[t] = since[t]
      BY <1>4 DEF Advance
    <2>2. UNCHANGED <<id, next_id>>
      BY <1>4 DEF Advance
    <2> QED
      BY <2>1, <2>2 DEF IdsFollow, SpawnedApart
  <1>5. CASE Publish
    BY <1>5 DEF Publish, IdsFollow, SpawnedApart, historyVars
  <1>6. CASE UNCHANGED trackVars
    BY <1>6 DEF trackVars, IdsFollow, SpawnedApart, historyVars
  <1> QED
    BY <1>1, <1>2, <1>3, <1>4, <1>5, <1>6, SpawnIds DEF TrackNext, Track

LEMMA IdsSuffice == TypeOK /\ IdsFollow /\ SpawnedApart => SameIdOnlyAfterWrap
  <1> SUFFICES ASSUME TypeOK, IdsFollow, SpawnedApart, NEW t \in Tracks, NEW u \in Tracks,
                      t # u, active[t], active[u], id[t] = id[u],
                      since[t] # MaxId, since[u] # MaxId
               PROVE  FALSE
    BY DEF SameIdOnlyAfterWrap
  <1>1. /\ since[t] \in 0 .. MaxId /\ since[u] \in 0 .. MaxId
        /\ id[t] \in Ids /\ next_id \in Ids /\ MaxId \in Nat
    BY ConstantsType DEF TypeOK
  <1>2. since[t] < MaxId /\ since[u] < MaxId
    BY <1>1
  <1>3. since[t] # since[u]
    BY <1>2 DEF SpawnedApart
  <1>4. /\ next_id = id[t] + since[t] + 1 \/ next_id = id[t] + since[t] + 1 - MaxId
        /\ next_id = id[t] + since[u] + 1 \/ next_id = id[t] + since[u] + 1 - MaxId
    BY <1>2 DEF IdsFollow
  <1> QED
    BY <1>1, <1>2, <1>3, <1>4 DEF Ids

\* Two live tracks share an identifier only if one of them has outlived a whole
\* round of the 16-bit counter (motion_detect.c:212).
THEOREM IdsDistinct == TrackSpec => []SameIdOnlyAfterWrap
  <1>1. TrackInit => IdsFollow /\ SpawnedApart
    BY DEF TrackInit, IdsFollow, SpawnedApart
  <1> QED
    BY <1>1, TrackerTypeCorrect, IdsStep, IdsSuffice, PTL DEF TrackSpec

-----------------------------------------------------------------------------
(* Escalation to an alert *)

LEMMA MatchEscalates ==
  ASSUME TypeOK, EscalationInv, NEW t \in Tracks, Match(t) PROVE EscalationInv'
  <1> SUFFICES ASSUME NEW u \in Tracks, active'[u]
               PROVE  /\ alert_frames'[u] <= streak'[u]
                      /\ pc' = "match" /\ matched_now'[u] =>
                           alert_frames'[u] < streak'[u] \/ streak'[u] = AlertSustain
                      /\ streak'[u] = AlertSustain => earned'[u]
                      /\ was_alert'[u] => earned'[u]
    BY DEF EscalationInv
  <1>0. active[u] /\ pc = "match" /\ UNCHANGED <<alert_frames, was_alert, pc>>
    BY DEF Match, Matching
  <1>1. /\ alert_frames[u] \in 0 .. AlertSustain /\ streak[u] \in 0 .. AlertSustain
        /\ AlertSustain \in Nat /\ AlertSustain > 0
    BY ConstantsType DEF TypeOK
  <1>2. CASE u # t
    <2>1. /\ streak'[u] = streak[u] /\ earned'[u] = earned[u]
          /\ matched_now'[u] = matched_now[u]
      BY <1>2 DEF Match, TypeOK
    <2> QED
      BY <1>0, <2>1 DEF EscalationInv
  <1>3. CASE u = t
    <2>1. streak'[u] = Counted(streak[u], AlertSustain)
      BY <1>3 DEF Match, TypeOK
    <2>2. earned'[u] <=> earned[u] \/ streak'[u] = AlertSustain
      BY <1>3, <2>1 DEF Match, TypeOK
    <2>3. alert_frames'[u] < streak'[u] \/ streak'[u] = AlertSustain
      BY <1>0, <1>1, <2>1 DEF EscalationInv, Counted
    <2>4. alert_frames'[u] <= streak'[u]
      BY <1>0, <1>1, <2>1, <2>3, CountedType
    <2>5. was_alert'[u] => earned[u]
      BY <1>0 DEF EscalationInv
    <2> QED
      BY <2>2, <2>3, <2>4, <2>5
  <1> QED
    BY <1>2, <1>3

LEMMA SpawnEscalates ==
  ASSUME TypeOK, EscalationInv, NEW t \in Tracks, Spawn(t) PROVE EscalationInv'
  <1>1. AlertSustain \in Nat /\ AlertSustain > 0
    BY ConstantsType
  <1>2. /\ alert_frames'[t] = 0 /\ streak'[t] = 1 /\ ~was_alert'[t]
        /\ earned'[t] <=> AlertSustain = 1
    BY DEF Spawn, TypeOK
  <1>3. ASSUME NEW u \in Tracks, u # t
        PROVE  /\ alert_frames'[u] = alert_frames[u] /\ streak'[u] = streak[u]
               /\ was_alert'[u] = was_alert[u] /\ earned'[u] = earned[u]
               /\ matched_now'[u] = matched_now[u] /\ active'[u] = active[u]
               /\ pc' = pc
    BY <1>3 DEF Spawn, TypeOK
  <1> QED
    BY <1>1, <1>2, <1>3 DEF EscalationInv

LEMMA AdvanceEscalates == TypeOK /\ EscalationInv /\ Advance => EscalationInv'
  <1> SUFFICES ASSUME TypeOK, EscalationInv, Advance, NEW t \in Tracks, active'[t]
               PROVE  /\ alert_frames'[t] <= streak'[t]
                      /\ streak'[t] = AlertSustain => earned'[t]
                      /\ was_alert'[t] => earned'[t]
    BY DEF EscalationInv, Advance
  <1>0. active[t] /\ pc = "match"
    BY DEF Advance
  <1>1. /\ alert_frames[t] \in 0 .. AlertSustain /\ streak[t] \in 0 .. AlertSustain
        /\ AlertSustain \in Nat /\ AlertSustain > 0
    BY ConstantsType DEF TypeOK
  <1>2. /\ alert_frames'[t] = AlertFrames(t)
        /\ streak'[t] = IF Missed(t) THEN 0 ELSE streak[t]
    BY DEF Advance
  <1>3. earned'[t] <=> earned[t]
    BY DEF Advance
  <1>4. was_alert'[t] <=> was_alert[t] \/ (matched_now[t] /\ AlertFrames(t) = AlertSustain)
    BY <1>0 DEF Advance
  <1>5. streak[t] = AlertSustain => earned[t]
    BY <1>0 DEF EscalationInv
  <1>6. alert_frames'[t] <= streak'[t]
    <2>1. CASE matched_now[t]
      <3>1. streak'[t] = streak[t]
        BY <1>2, <2>1 DEF Missed
      <3>2. alert_frames[t] < streak[t] \/ streak[t] = AlertSustain
        BY <1>0, <2>1 DEF EscalationInv
      <3> QED
        BY <1>0, <1>1, <1>2, <3>1, <3>2 DEF AlertFrames, Counted
    <2>2. CASE ~matched_now[t]
      BY <1>0, <1>1, <1>2, <2>2 DEF AlertFrames, Missed
    <2> QED
      BY <2>1, <2>2
  <1>7. matched_now[t] /\ AlertFrames(t) = AlertSustain => earned[t]
    <2>1. SUFFICES ASSUME matched_now[t], AlertFrames(t) = AlertSustain PROVE earned[t]
      OBVIOUS
    <2>2. streak'[t] = streak[t]
      BY <1>2, <2>1 DEF Missed
    <2> QED
      BY <1>1, <1>2, <1>5, <1>6, <2>1, <2>2
  <1>8. streak'[t] = AlertSustain => earned[t]
    BY <1>1, <1>2, <1>5
  <1>9. was_alert[t] => earned[t]
    BY <1>0 DEF EscalationInv
  <1> QED
    BY <1>3, <1>4, <1>6, <1>7, <1>8, <1>9

LEMMA EscalationStep ==
  TypeOK /\ EscalationInv /\ [TrackNext]_trackVars => EscalationInv'
  <1> SUFFICES ASSUME TypeOK, EscalationInv, [TrackNext]_trackVars PROVE EscalationInv'
    OBVIOUS
  <1>1. ASSUME NEW blobs \in Seq(Blob), Feed(blobs) PROVE EscalationInv'
    BY <1>1 DEF Feed, FreshFlags, EscalationInv, bodyVars, historyVars
  <1>2. CASE Drop
    BY <1>2 DEF Drop, EscalationInv, bodyVars, historyVars
  <1>3. CASE Publish
    BY <1>3 DEF Publish, EscalationInv, bodyVars, historyVars
  <1>4. CASE UNCHANGED trackVars
    BY <1>4 DEF trackVars, EscalationInv, bodyVars, historyVars
  <1> QED
    BY <1>1, <1>2, <1>3, <1>4, MatchEscalates, SpawnEscalates, AdvanceEscalates
       DEF TrackNext, Track

LEMMA ShownStep ==
  TypeOK /\ EscalationInv /\ ShownInv /\ [TrackNext]_trackVars => ShownInv'
  <1> SUFFICES ASSUME TypeOK, EscalationInv, ShownInv, [TrackNext]_trackVars
               PROVE  ShownInv'
    OBVIOUS
  <1>1. ASSUME NEW blobs \in Seq(Blob), Feed(blobs) PROVE ShownInv'
    BY <1>1 DEF Feed, ShownInv
  <1>2. ASSUME NEW t \in Tracks, Match(t) \/ Spawn(t) PROVE ShownInv'
    BY <1>2 DEF Match, Spawn, Unmatched, Matching, ShownInv
  <1>3. CASE Drop
    BY <1>3 DEF Drop, Unmatched, Matching, ShownInv
  <1>4. CASE Advance
    BY <1>4 DEF Advance, ShownInv
  <1>5. CASE Publish
    <2>1. ASSUME NEW t \in Visible, StateOf(t) = "alert" PROVE earned[t]
      <3>1. t \in Tracks /\ active[t]
        BY DEF Visible
      <3>2. alert_frames[t] = AlertSustain \/ was_alert[t]
        BY <2>1 DEF StateOf
      <3>3. streak[t] \in 0 .. AlertSustain /\ AlertSustain \in Nat
        BY <3>1, ConstantsType DEF TypeOK
      <3> QED
        BY <3>1, <3>2, <3>3 DEF EscalationInv
    <2>2. result' = [t \in Visible |-> StateOf(t)] /\ earned' = earned
      BY <1>5 DEF Publish, historyVars
    <2> QED
      BY <2>1, <2>2 DEF ShownInv
  <1>6. CASE UNCHANGED trackVars
    BY <1>6 DEF trackVars, ShownInv, historyVars
  <1> QED
    BY <1>1, <1>2, <1>3, <1>4, <1>5, <1>6 DEF TrackNext, Track

\* A track is published as an alert only after matches enough in a row
\* (motion_detect.c:57, 311).
THEOREM AlertsEarned == TrackSpec => []AlertIsEarned
  <1>1. TrackInit => EscalationInv /\ ShownInv
    BY ConstantsType DEF TrackInit, EscalationInv, ShownInv
  <1>2. EscalationInv /\ ShownInv => AlertIsEarned
    BY DEF EscalationInv, ShownInv, AlertIsEarned
  <1> QED
    BY <1>1, <1>2, TrackerTypeCorrect, EscalationStep, ShownStep, PTL DEF TrackSpec

-----------------------------------------------------------------------------
(* Every blob has a track to itself *)

Matched == {t \in Tracks : matched_now[t]}

LEMMA MatchedFinite == IsFiniteSet(Matched) /\ Cardinality(Matched) \in Nat
  <1>1. IsFiniteSet(Tracks)
    BY ConstantsType, FS_Interval DEF Tracks
  <1>2. Matched \subseteq Tracks
    BY DEF Matched
  <1>3. IsFiniteSet(Matched)
    BY <1>1, <1>2, FS_Subset
  <1> QED
    BY <1>3, FS_CardinalityType

\* A blob that takes an unmatched track makes one more matched track.
LEMMA OneMoreMatched ==
  ASSUME TypeOK, EveryBlobHasATrack, NEW t \in Tracks, ~matched_now[t],
         pending # <<>>, pc = "match", pc' = pc,
         matched_now' = [matched_now EXCEPT ![t] = TRUE], pending' = Tail(pending),
         UNCHANGED <<seen, dropped>>,
         \A u \in Tracks : active[u] => active'[u]
  PROVE  EveryBlobHasATrack'
  <1>1. Matched' = Matched \cup {t} /\ t \notin Matched
    BY DEF Matched, TypeOK
  <1>2. Cardinality(Matched') = Cardinality(Matched) + 1
    BY <1>1, MatchedFinite, FS_AddElement
  <1>3. Len(pending') = Len(pending) - 1 /\ Len(pending) \in Nat
    BY DEF TypeOK
  <1>4. Cardinality(Matched) + dropped + Len(pending) = seen
    BY DEF EveryBlobHasATrack, Matched
  <1>5. Cardinality(Matched') + dropped' + Len(pending') = seen'
    BY <1>2, <1>3, <1>4, MatchedFinite DEF TypeOK
  <1>6. dropped' > 0 => \A u \in Tracks : active'[u]
    BY DEF EveryBlobHasATrack
  <1> QED
    BY <1>5, <1>6 DEF EveryBlobHasATrack, Matched

LEMMA FeedTracked ==
  ASSUME TypeOK, NEW blobs \in Seq(Blob), Feed(blobs) PROVE EveryBlobHasATrack'
  <1>1. Matched' = {}
    BY DEF Feed, FreshFlags, Matched
  <1>2. Cardinality(Matched') = 0
    BY <1>1, FS_EmptySet
  <1>3. pending' = blobs /\ seen' = Len(blobs) /\ dropped' = 0 /\ Len(blobs) \in Nat
    BY DEF Feed
  <1>4. Cardinality(Matched') + dropped' + Len(pending') = seen'
    BY <1>2, <1>3
  <1> QED
    BY <1>3, <1>4 DEF EveryBlobHasATrack, Matched

\* A track that is not in use does not count as matched, so a new track never
\* takes the place of a matched one.
UnusedUnmatched == pc = "match" => \A t \in Tracks : ~active[t] => ~matched_now[t]

LEMMA UnusedStep ==
  TypeOK /\ UnusedUnmatched /\ [TrackNext]_trackVars => UnusedUnmatched'
  <1> SUFFICES ASSUME TypeOK, UnusedUnmatched, [TrackNext]_trackVars
               PROVE  UnusedUnmatched'
    OBVIOUS
  <1>1. ASSUME NEW blobs \in Seq(Blob), Feed(blobs) PROVE UnusedUnmatched'
    BY <1>1 DEF Feed, FreshFlags, UnusedUnmatched
  <1>2. ASSUME NEW t \in Tracks, Match(t) PROVE UnusedUnmatched'
    BY <1>2 DEF Match, Matching, Takes, Nearest, Candidates, UnusedUnmatched, TypeOK
  <1>3. ASSUME NEW t \in Tracks, Spawn(t) PROVE UnusedUnmatched'
    BY <1>3 DEF Spawn, Unmatched, Matching, UnusedUnmatched, TypeOK
  <1>4. CASE Drop
    BY <1>4 DEF Drop, UnusedUnmatched
  <1>5. CASE Advance
    BY <1>5 DEF Advance, UnusedUnmatched
  <1>6. CASE Publish
    BY <1>6 DEF Publish, UnusedUnmatched
  <1>7. CASE UNCHANGED trackVars
    BY <1>7 DEF trackVars, UnusedUnmatched
  <1> QED
    BY <1>1, <1>2, <1>3, <1>4, <1>5, <1>6, <1>7 DEF TrackNext, Track

LEMMA TrackedStep ==
  TypeOK /\ UnusedUnmatched /\ EveryBlobHasATrack /\ [TrackNext]_trackVars
    => EveryBlobHasATrack'
  <1> SUFFICES ASSUME TypeOK, UnusedUnmatched, EveryBlobHasATrack, [TrackNext]_trackVars
               PROVE  EveryBlobHasATrack'
    OBVIOUS
  <1>1. ASSUME NEW t \in Tracks, Match(t) PROVE EveryBlobHasATrack'
    <2>1. ~matched_now[t] /\ pending # <<>> /\ pc = "match"
      BY <1>1 DEF Match, Matching, Takes, Nearest, Candidates
    <2>2. /\ pc' = pc /\ pending' = Tail(pending) /\ UNCHANGED <<seen, dropped>>
          /\ matched_now' = [matched_now EXCEPT ![t] = TRUE]
          /\ \A u \in Tracks : active[u] => active'[u]
      BY <1>1 DEF Match
    <2> QED
      BY <2>1, <2>2, OneMoreMatched
  <1>2. ASSUME NEW t \in Tracks, Spawn(t) PROVE EveryBlobHasATrack'
    <2>1. ~active[t] /\ pending # <<>> /\ pc = "match"
      BY <1>2 DEF Spawn, FirstFree, Unmatched, Matching
    <2>2. ~matched_now[t]
      BY <2>1 DEF UnusedUnmatched
    <2>3. /\ pc' = pc /\ pending' = Tail(pending) /\ UNCHANGED <<seen, dropped>>
          /\ matched_now' = [matched_now EXCEPT ![t] = TRUE]
      BY <1>2 DEF Spawn
    <2>4. \A u \in Tracks : active[u] => active'[u]
      BY <1>2 DEF Spawn, TypeOK
    <2> QED
      BY <2>1, <2>2, <2>3, <2>4, OneMoreMatched
  <1>3. CASE Drop
    <2>1. Matched' = Matched /\ pending # <<>> /\ pc = "match"
      BY <1>3 DEF Drop, Matched, Unmatched, Matching
    <2>2. Len(pending') = Len(pending) - 1 /\ Len(pending) \in Nat
      BY <1>3, <2>1 DEF Drop, TypeOK
    <2>3. Cardinality(Matched) + dropped + Len(pending) = seen
      BY <2>1 DEF EveryBlobHasATrack, Matched
    <2>4. Cardinality(Matched') + dropped' + Len(pending') = seen'
      BY <1>3, <2>1, <2>2, <2>3, MatchedFinite DEF Drop, TypeOK
    <2>5. \A t \in Tracks : active'[t]
      BY <1>3 DEF Drop
    <2> QED
      BY <2>4, <2>5 DEF EveryBlobHasATrack, Matched
  <1>4. CASE Advance
    BY <1>4 DEF Advance, EveryBlobHasATrack
  <1>5. CASE Publish
    BY <1>5 DEF Publish, EveryBlobHasATrack
  <1>6. CASE UNCHANGED trackVars
    BY <1>6 DEF trackVars, frameVars, EveryBlobHasATrack
  <1> QED
    BY <1>1, <1>2, <1>3, <1>4, <1>5, <1>6, FeedTracked DEF TrackNext, Track

\* Two blobs of a frame never share a track, and a blob goes without one only
\* when every track is in use (motion_detect.c:235, 271).
THEOREM BlobsTracked == TrackSpec => []EveryBlobHasATrack
  <1>1. TrackInit => UnusedUnmatched /\ EveryBlobHasATrack
    BY DEF TrackInit, UnusedUnmatched, EveryBlobHasATrack
  <1> QED
    BY <1>1, TrackerTypeCorrect, UnusedStep, TrackedStep, PTL DEF TrackSpec

-----------------------------------------------------------------------------
(* What reaches the tracker *)

LEMMA GridType ==
  ASSUME NEW cam \in Cameras
  PROVE  /\ Width(cam) \in Nat \ {0} /\ Height(cam) \in Nat \ {0}
         /\ Width(cam) * Height(cam) \in Nat
         /\ 2 * Width(cam) <= Reach /\ 2 * Height(cam) <= Reach
  <1>1. Format[cam] \in CameraFormat
    BY CameraAssumption DEF CameraAssumption
  <1> DEFINE c == Format[cam].cols
             r == Format[cam].rows
             h == Format[cam].h
             v == Format[cam].v
  <1>2. c \in Nat \ {0} /\ r \in Nat \ {0} /\ h \in 1 .. 2 /\ v \in 1 .. 2
    BY <1>1 DEF CameraFormat
  <1>3. c * h \in Nat \ {0} /\ r * v \in Nat \ {0}
    BY <1>2
  <1>4. Width(cam) \in Nat \ {0} /\ Height(cam) \in Nat \ {0}
    BY <1>3 DEF Width, Height
  <1>5. Width(cam) * Height(cam) \in Nat
    BY <1>4
  <1> QED
    BY <1>4, <1>5, ReachAssumption DEF ReachAssumption

\* The camera stays what it is.
LEMMA CameraStays == Spec => [](camera \in Cameras)
  <1>1. Init => camera \in Cameras
    BY DEF Init
  <1>2. camera \in Cameras /\ [Next]_vars => (camera \in Cameras)'
    BY DEF Next, Frame, SkipFrame, vars, imageVars
  <1> QED
    BY <1>1, <1>2, PTL DEF Spec

\* For any camera, whatever has changed in the picture, the blobs found are its
\* components (blob_finder.c:75).
THEOREM LabelsAreRight == Spec => []LabelsAreComponents
  <1>1. camera \in Cameras => LabelsAreComponents
    <2> SUFFICES ASSUME camera \in Cameras, NEW mask \in Masks
                 PROVE  FindsComponents(mask, Width(camera))
      BY DEF LabelsAreComponents
    <2> DEFINE n == Width(camera) * Height(camera)
    <2>1. n \in Nat /\ Width(camera) \in Nat \ {0}
      BY GridType
    <2>2. DOMAIN mask = 0 .. n - 1
      BY DEF Masks, Cells
    <2> QED
      BY <2>1, <2>2, BlobsAreComponents
  <1> QED
    BY <1>1, CameraStays, PTL

-----------------------------------------------------------------------------
(* From a frame to the tracker *)

\* The first k bytes of a sequence, none if k is not positive.
LEMMA PrefixType ==
  ASSUME NEW S, NEW s \in Seq(S), NEW k \in Int, k <= Len(s)
  PROVE  SubSeq(s, 1, k) \in Seq(S)
<1>1. CASE k >= 1
  BY <1>1
<1>2. CASE k < 1
  <2>1. SubSeq(s, 1, k) = <<>>
    BY <1>2
  <2> QED
    BY <2>1
<1> QED
  BY <1>1, <1>2

\* What is extracted from a frame is bytes, whatever the camera sends.
LEMMA ExtractionType ==
  ASSUME NEW cam \in Cameras, NEW s \in Shots(cam)
  PROVE  LET dc == Extraction(cam, s)
         IN  dc.ok => \A i \in DOMAIN dc.grid : dc.grid[i] \in 0 .. 255
<1> DEFINE p == Parsed[cam][s.header]
           scan == Scans[cam][s.scene][s.detail]
           data == Sent(cam, s)
           shot == [scene |-> s.scene, detail |-> s.detail, lost |-> s.lost]
<1>1. /\ s.scene \in DOMAIN Pictures[cam] /\ s.detail \in Details /\ s.lost \in Lost
      /\ s.header \in DOMAIN Headers[cam]
  BY DEF Shots
<1>2. p \in Parses /\ (~Unusable(p) => Scannable(p))
  <2>1. p = Parse(Headers[cam][s.header])
    BY <1>1 DEF Parsed
  <2>2. /\ Headers[cam][s.header] \in Seq(Segment)
        /\ ~Unusable(p) => \A x \in DOMAIN p.scan : p.scan[x].comp \in DOMAIN p.comps
    BY <1>1, HeaderAssumption DEF HeaderAssumption
  <2>3. p \in Parses
    BY <2>1, <2>2, ParseType
  <2> HIDE DEF p
  <2> QED
    BY <2>2, <2>3 DEF Unusable, Scannable
<1>3. IsData(data)
  <2>1. scan \in Seq(0 .. FF)
    BY <1>1, ScanAssumption DEF ScanAssumption
  <2>2. s.lost \in Nat
    BY <1>1, CameraAssumption DEF CameraAssumption
  <2>3. data = SubSeq(scan, 1, Len(scan) - s.lost)
    BY DEF Sent
  <2> HIDE DEF scan, data
  <2>4. data \in Seq(0 .. FF)
    <3>1. Len(scan) - s.lost \in Int /\ Len(scan) - s.lost <= Len(scan)
      BY <2>1, <2>2
    <3> QED
      BY <2>1, <2>3, <3>1, PrefixType
  <2>5. Len(data) \in Nat /\ \A k \in 1 .. Len(data) : data[k] \in 0 .. FF
    <3>1. Len(data) \in Nat /\ DOMAIN data = 1 .. Len(data)
      BY <2>4
    <3> DEFINE B == 0 .. FF
    <3>2. data \in Seq(B)
      BY <2>4
    <3> HIDE DEF B
    <3>3. \A k \in DOMAIN data : data[k] \in B
      BY <3>2, ElementOf
    <3> QED
      BY <3>1, <3>3 DEF B
  <2>6. \A x \in 0 .. FF : x \in Nat
    OBVIOUS
  <2> QED
    BY <2>5, <2>6 DEF IsData
<1>4. Extraction(cam, s) = ExtractDc(p, data)
  <2>1. Sent(cam, shot) = data
    BY DEF Sent
  <2> QED
    BY <1>1, <2>1 DEF Extraction, Extracted
<1> HIDE DEF p, data
<1> QED
  BY <1>2, <1>3, <1>4, GridStaysInPicture

\* A difference is a byte, and so is what dilation spreads.
LEMMA MaskType ==
  ASSUME NEW n \in Nat, NEW a \in [0 .. n - 1 -> 0 .. 255], NEW b \in [0 .. n - 1 -> 0 .. 255]
  PROVE  DiffMask(a, b) \in [0 .. n - 1 -> 0 .. 255]
<1>1. ASSUME NEW i \in 0 .. n - 1
      PROVE  (IF Distance(a[i], b[i]) > Threshold THEN Distance(a[i], b[i]) ELSE 0) \in 0 .. 255
  <2>1. a[i] \in 0 .. 255 /\ b[i] \in 0 .. 255
    OBVIOUS
  <2>2. Distance(a[i], b[i]) \in 0 .. 255
    <3>1. ASSUME NEW u \in 0 .. 255, NEW v \in 0 .. 255 PROVE Distance(u, v) \in 0 .. 255
      BY DEF Distance
    <3> QED
      BY <2>1, <3>1
  <2> QED
    BY <2>2
<1> QED
  BY <1>1 DEF DiffMask

LEMMA DilateType ==
  ASSUME NEW n \in Nat, NEW w, NEW mask \in [0 .. n - 1 -> 0 .. 255]
  PROVE  Dilate(mask, w) \in [0 .. n - 1 -> 0 .. 255]
<1>1. Cardinality(DOMAIN mask) = n /\ DOMAIN mask = 0 .. n - 1
  BY IntervalSize
<1>2. ASSUME NEW i \in 0 .. n - 1
      PROVE  Greatest({mask[j] : j \in {i} \cup Around(i, w, Cardinality(DOMAIN mask))})
               \in 0 .. 255
  <2> DEFINE V == {mask[j] : j \in {i} \cup Around(i, w, Cardinality(DOMAIN mask))}
  <2>1. {i} \cup Around(i, w, Cardinality(DOMAIN mask)) \subseteq 0 .. n - 1
    BY <1>1 DEF Around
  <2>2. V \subseteq 0 .. 255 /\ mask[i] \in V
    <3> DEFINE N == {i} \cup Around(i, w, Cardinality(DOMAIN mask))
    <3>1. \A j \in N : mask[j] \in 0 .. 255
      BY <2>1
    <3>2. i \in N /\ V = {mask[j] : j \in N}
      OBVIOUS
    <3> HIDE DEF N, V
    <3>3. ASSUME NEW x \in V PROVE x \in 0 .. 255
      <4>1. PICK j \in N : x = mask[j]
        BY <3>2
      <4> QED
        BY <3>1, <4>1
    <3>4. mask[i] \in V
      BY <3>2
    <3> QED
      BY <3>3, <3>4
  <2> HIDE DEF V
  <2>3. V \subseteq Nat /\ V # {} /\ \A x \in V : x <= 255
    BY <2>2
  <2>4. Greatest(V) \in V
    <3>1. 255 \in Nat
      OBVIOUS
    <3> QED
      BY <2>3, <3>1, GreatestIn
  <2> QED
    BY <2>2, <2>4 DEF V
<1> QED
  BY <1>1, <1>2 DEF Dilate

\* The blobs found in a picture are boxes in it.
LEMMA FoundType ==
  ASSUME NEW w \in Nat \ {0}, NEW h \in Nat, NEW mask \in [0 .. w * h - 1 -> 0 .. 255]
  PROVE  FindBlobs(mask, w) \in Seq(InPicture(w, h))
<1> DEFINE n == w * h
           s == Provisional(mask, w)
           D == BoxOf(mask, w)
           B == {D[l] : l \in DOMAIN D}
<1>1. n \in Nat /\ DOMAIN mask = 0 .. n - 1
  OBVIOUS
<1>2. FindBlobs(mask, w) \in Seq(B)
  <2> DEFINE found == FindBlobs(mask, w)
  <2>1. found = FindBlobs(mask, w)
    OBVIOUS
  <2> HIDE DEF n, found
  <2>2. found \in Seq({BoxOf(mask, w)[l] : l \in DOMAIN BoxOf(mask, w)})
    BY <1>1, <2>1, FoundAre
  <2> QED
    BY <2>1, <2>2
<1>3. DOMAIN D = Roots(s)
  BY DEF BoxOf
<1>4. mask \in [0 .. w * h - 1 -> Nat]
  <2>1. \A x \in 0 .. 255 : x \in Nat
    OBVIOUS
  <2> QED
    BY <2>1
<1>5. ASSUME NEW l \in Roots(s) PROVE D[l] \in InPicture(w, h)
  <2>1. /\ D[l] = Describe(Component(s, l), mask, w)
        /\ Component(s, l) \subseteq 0 .. n - 1 /\ Component(s, l) # {}
    <3> HIDE DEF n
    <3> QED
      BY <1>1, ComponentType
  <2> DEFINE c == Component(s, l)
  <2>2. D[l] = Describe(c, mask, w) /\ c \in SUBSET (0 .. w * h - 1) /\ c # {}
    BY <2>1
  <2> HIDE DEF s, D, c
  <2>3. Describe(c, mask, w) \in InPicture(w, h)
    BY <1>4, <2>2, DescribeType
  <2> QED
    BY <2>2, <2>3
<1> HIDE DEF D, s
<1>6. B \subseteq InPicture(w, h)
  BY <1>3, <1>5
<1> HIDE DEF B
<1> QED
  BY <1>2, <1>6

\* A box in the picture is a blob the tracker is made for.
LEMMA TrackedType ==
  ASSUME NEW cam \in Cameras, NEW b \in InPicture(Width(cam), Height(cam))
  PROVE  AsTracked(b) \in Blob
<1> DEFINE x == 2 * b.x + b.w
           y == 2 * b.y + b.h
           alert == 50 * b.sum >= 255 * b.area
<1>1. /\ b.x \in Nat /\ b.y \in Nat /\ b.w \in Nat /\ b.h \in Nat
      /\ b.x + b.w <= Width(cam) /\ b.y + b.h <= Height(cam)
  BY BoxFields DEF InPicture
<1>2. /\ Width(cam) \in Nat /\ Height(cam) \in Nat /\ Reach \in Nat
      /\ 2 * Width(cam) <= Reach /\ 2 * Height(cam) <= Reach
  BY GridType, ConstantsType
<1>3. x \in 0 .. Reach /\ y \in 0 .. Reach
  BY <1>1, <1>2
<1>4. alert \in BOOLEAN
  OBVIOUS
<1>5. AsTracked(b) = [at |-> [x |-> x, y |-> y], high |-> alert]
  BY DEF AsTracked
<1> HIDE DEF x, y, alert
<1> QED
  BY <1>3, <1>4, <1>5 DEF Blob, Point

ImageOK ==
  /\ camera \in Cameras /\ gray \in [Cells(camera) -> 0 .. 255]
  /\ have_prev \in BOOLEAN

\* What a frame has changed is blobs within the tracker's reach.
LEMMA ChangedType ==
  ASSUME ImageOK, NEW now \in [Cells(camera) -> 0 .. 255]
  PROVE  Changed(now) \in Seq(Blob)
<1> DEFINE w == Width(camera)
           h == Height(camera)
           mask == DiffMask(now, gray)
           wide == Dilate(mask, w)
           bs == MergeClose(FindBlobs(wide, w))
<1>1. w \in Nat \ {0} /\ h \in Nat /\ w * h \in Nat
  BY GridType DEF ImageOK
<1>2. Cells(camera) = 0 .. w * h - 1
  BY DEF Cells
<1>3. wide \in [0 .. w * h - 1 -> 0 .. 255]
  <2> DEFINE n == w * h
  <2>1. n \in Nat /\ now \in [0 .. n - 1 -> 0 .. 255] /\ gray \in [0 .. n - 1 -> 0 .. 255]
    BY <1>1, <1>2 DEF ImageOK
  <2> HIDE DEF n
  <2>2. mask \in [0 .. n - 1 -> 0 .. 255]
    BY <2>1, MaskType
  <2> HIDE DEF mask
  <2>3. wide \in [0 .. n - 1 -> 0 .. 255]
    BY <2>1, <2>2, DilateType
  <2> QED
    BY <2>3 DEF n
<1>4. bs \in Seq(InPicture(w, h))
  <2> HIDE DEF wide, w, h
  <2> QED
    BY <1>1, <1>3, FoundType, MergeStaysIn
<1>5. \A b \in InPicture(w, h) : AsTracked(b) \in Blob
  BY TrackedType DEF ImageOK
<1>6. Moving(mask, w) = [k \in DOMAIN bs |-> AsTracked(bs[k])]
  BY DEF Moving
<1>7. Moving(mask, w) \in Seq(Blob)
  <2> DEFINE B == InPicture(w, h)
             m == Moving(mask, w)
  <2> HIDE DEF bs, B, m
  <2>1. DOMAIN bs = 1 .. Len(bs) /\ Len(bs) \in Nat /\ \A k \in 1 .. Len(bs) : bs[k] \in B
    BY <1>4, ElementOf DEF B
  <2>2. \A k \in 1 .. Len(bs) : AsTracked(bs[k]) \in Blob
    BY <1>5, <2>1 DEF B
  <2>3. m \in [1 .. Len(bs) -> Blob]
    BY <1>6, <2>1, <2>2 DEF m
  <2>4. m \in Seq(Blob)
    BY <2>1, <2>3
  <2> QED
    BY <2>4 DEF m
<1> QED
  BY <1>7 DEF Changed

\* What a frame leaves in the buffer is bytes.
LEMMA UpdatedType ==
  ASSUME ImageOK, NEW dc \in Arriving[camera], dc.ok
  PROVE  Updated(dc) \in [Cells(camera) -> 0 .. 255]
<1>1. PICK s \in Shots(camera) : dc = Extraction(camera, s)
  BY DEF Arriving, ImageOK
<1>2. \A i \in DOMAIN dc.grid : dc.grid[i] \in 0 .. 255
  BY <1>1, ExtractionType DEF ImageOK
<1> QED
  BY <1>2 DEF Updated, ImageOK

LEMMA ImageInit == Init => ImageOK
<1> SUFFICES ASSUME Init PROVE ImageOK
  OBVIOUS
<1>1. PICK g \in Garbage : gray = [i \in Cells(camera) |-> g]
  BY DEF Init
<1>2. g \in 0 .. 255
  BY CameraAssumption DEF CameraAssumption
<1> QED
  BY <1>1, <1>2 DEF Init, ImageOK

\* Every step of the detector is one of the tracker's, and the picture stays one.
LEMMA ImageStep ==
  ASSUME ImageOK, [Next]_vars
  PROVE  ImageOK' /\ [TrackNext]_trackVars
<1>1. ASSUME NEW dc \in Arriving[camera], Frame(dc)
      PROVE  ImageOK' /\ [TrackNext]_trackVars
  <2> DEFINE now == Updated(dc)
  <2>1. now \in [Cells(camera) -> 0 .. 255]
    BY <1>1, UpdatedType DEF Frame
  <2>2. gray' = now /\ Feed(Changed(now)) /\ have_prev' = TRUE /\ camera' = camera
    BY <1>1 DEF Frame
  <2> HIDE DEF now
  <2>3. Changed(now) \in Seq(Blob)
    BY <2>1, ChangedType
  <2>4. TrackNext
    BY <2>2, <2>3 DEF TrackNext
  <2>5. ImageOK'
    BY <2>1, <2>2 DEF ImageOK, Cells, Width, Height
  <2> QED
    BY <2>4, <2>5
<1>2. CASE Track /\ UNCHANGED imageVars
  BY <1>2 DEF TrackNext, ImageOK, imageVars, Cells, Width, Height
<1>3. CASE UNCHANGED vars
  <2>1. UNCHANGED imageVars /\ UNCHANGED trackVars
    BY <1>3 DEF vars
  <2> QED
    BY <2>1 DEF ImageOK, imageVars, Cells, Width, Height
<1>4. ASSUME NEW dc \in Arriving[camera], SkipFrame(dc) PROVE UNCHANGED vars
  BY <1>4 DEF SkipFrame
<1> QED
  BY <1>1, <1>2, <1>3, <1>4 DEF Next

LEMMA ImageHolds == Spec => []ImageOK
<1>1. ImageOK /\ [Next]_vars => ImageOK'
  BY ImageStep
<1> QED
  BY <1>1, ImageInit, PTL DEF Spec

\* The detector with its camera, its extractor and its blob finder is a tracker
\* fed with blobs: whatever bytes arrive, what motion_task hands to
\* tracker_update is a list of blobs within the picture.
THEOREM DetectorTracks == Spec => TrackSpec
<1>1. Init => TrackInit
  BY DEF Init
<1>2. ImageOK /\ [Next]_vars => [TrackNext]_trackVars
  BY ImageStep
<1> QED
  BY <1>1, <1>2, ImageHolds, PTL DEF Spec, TrackSpec

\* Types of the detector: the picture is bytes, whatever the camera sends, and
\* the tracker's state is in its ranges.
THEOREM MotionTypeCorrect == Spec => []MotionTypeOK
<1>1. TypeOK /\ ImageOK => MotionTypeOK
  BY DEF ImageOK, MotionTypeOK
<1> QED
  BY <1>1, ImageHolds, DetectorTracks, TrackerTypeCorrect, PTL

\* What is proved of the tracker holds of the detector.
THEOREM DetectorIsRight ==
  Spec => [](SameIdOnlyAfterWrap /\ AlertIsEarned /\ EveryBlobHasATrack)
<1> QED
  BY DetectorTracks, IdsDistinct, AlertsEarned, BlobsTracked, PTL

-----------------------------------------------------------------------------
(* Merging *)

\* A finite set as a sequence.
LEMMA ListedIs ==
  ASSUME NEW S, IsFiniteSet(S)
  PROVE  /\ SetToSeq(S) \in [1 .. Cardinality(S) -> S] /\ SetToSeq(S) \in Seq(S)
         /\ Len(SetToSeq(S)) = Cardinality(S) /\ Cardinality(S) \in Nat
         /\ \A i, j \in 1 .. Cardinality(S) : SetToSeq(S)[i] = SetToSeq(S)[j] => i = j
         /\ \A x \in S : \E i \in 1 .. Cardinality(S) : SetToSeq(S)[i] = x
<1> DEFINE n == Cardinality(S)
           f == SetToSeq(S)
<1>1. n \in Nat /\ ExistsBijection(1 .. n, S)
  BY FS_CardinalityType
<1>2. \E g \in [1 .. n -> S] : IsInjective(g)
  BY <1>1 DEF ExistsBijection, Bijection, Injection
<1>3. f \in [1 .. n -> S] /\ IsInjective(f)
  BY <1>2 DEF SetToSeq
<1> HIDE DEF f, n
<1>4. f \in Seq(S) /\ Len(f) = n /\ DOMAIN f = 1 .. n
  BY <1>1, <1>3
<1>5. f \in Injection(1 .. n, S)
  BY <1>3 DEF Injection
<1>6. f \in Surjection(1 .. n, S)
  <2>1. IsFiniteSet(1 .. n) /\ Cardinality(1 .. n) = n
    BY <1>1, FS_Interval
  <2> QED
    BY <1>1, <1>5, <2>1, FS_Injection DEF n
<1>7. \A i, j \in 1 .. n : f[i] = f[j] => i = j
  BY <1>3, <1>4 DEF IsInjective
<1>8. \A x \in S : \E i \in 1 .. n : f[i] = x
  BY <1>6 DEF Surjection
<1> QED
  BY <1>1, <1>3, <1>4, <1>7, <1>8 DEF f, n

\* The box around a group is that of its blobs, in whatever order they are taken.
LEMMA BoxIs ==
  ASSUME NEW w \in Nat, NEW h \in Nat, NEW bs \in Seq(InPicture(w, h)),
         NEW A, NEW U, Sums(bs, A, U), NEW g \in SUBSET (1 .. Len(bs)), g # {}
  PROVE  Box(bs, g) = BoxAt(bs, A, U, g)
<1> DEFINE T == InPicture(w, h)
           n == Cardinality(g)
           f == SetToSeq(g)
           t == Tail(f)
           m == Len(t)
           start == bs[Head(f)]
           Def(a) == [k \in 0 .. m |-> IF k = 0 THEN start ELSE Hull(a[k - 1], bs[t[k]])]
           F == [x \in T \X (1 .. m) |-> Hull(x[1], bs[t[x[2]]])]
           R == CHOOSE a : a = Def(a)
           FirstOf(k) == {f[j] : j \in 1 .. k + 1}
<1>1. IsFiniteSet(g) /\ Len(bs) \in Nat
  <2> DEFINE E == 1 .. Len(bs)
  <2>1. IsFiniteSet(E) /\ g \subseteq E
    BY FS_Interval
  <2> HIDE DEF E
  <2>2. IsFiniteSet(g)
    BY <2>1, FS_Subset
  <2> QED
    BY <2>2
<1>2. /\ f \in [1 .. n -> g] /\ f \in Seq(g) /\ Len(f) = n /\ n \in Nat
      /\ \A i, j \in 1 .. n : f[i] = f[j] => i = j
      /\ \A x \in g : \E i \in 1 .. n : f[i] = x
  BY <1>1, ListedIs
<1>3. n >= 1
  <2>1. \E i \in 1 .. n : TRUE
    BY <1>2
  <2> QED
    BY <1>2, <2>1
<1>4. /\ f # <<>> /\ Head(f) = f[1] /\ m = n - 1 /\ m \in Nat
      /\ \A k \in 1 .. m : t[k] = f[k + 1] /\ k + 1 \in 1 .. n
  <2> HIDE DEF f, n
  <2> QED
    BY <1>2, <1>3
<1>5. \A x \in g : bs[x] \in T
  OBVIOUS
<1>6. start \in T /\ start = bs[f[1]] /\ f[1] \in g
  <2>1. start = bs[f[1]]
    BY <1>4
  <2>2. 1 \in 1 .. n
    BY <1>2, <1>3
  <2> HIDE DEF f, n, start, T
  <2>3. f[1] \in g
    BY <1>2, <2>2
  <2> QED
    BY <1>5, <2>1, <2>3
<1>7. \A k \in 1 .. m : t[k] \in g /\ bs[t[k]] \in T
  BY <1>2, <1>4, <1>5
<1>8. Box(bs, g) = R[m]
  BY DEF Box, Each
<1> HIDE DEF T, f, n, t, m, start
<1>9. m \in Nat /\ n = m + 1 /\ n \in Nat
  BY <1>2, <1>4
<1>10. \E a \in [0 .. m -> T] : a = Def(a)
  <2>1. F \in [T \X (1 .. m) -> T]
    <3>1. \A b \in T : \A k \in 1 .. m : Hull(b, bs[t[k]]) \in T
      BY <1>7, HullType DEF T
    <3> QED
      BY <3>1
  <2>2. PICK a : IsRun(a, T, start, m, F)
    BY <1>4, <1>6, <2>1, LoopRuns
  <2>3. ASSUME NEW k \in 1 .. m PROVE a[k] = Hull(a[k - 1], bs[t[k]])
    <3>1. k - 1 \in 0 .. m
      BY <1>4
    <3>2. <<a[k - 1], k>> \in T \X (1 .. m)
      BY <2>2, <3>1 DEF IsRun
    <3> QED
      BY <2>2, <3>2 DEF IsRun
  <2>4. a \in [0 .. m -> T] /\ a[0] = start
    BY <2>2 DEF IsRun
  <2>5. ASSUME NEW k \in 0 .. m
        PROVE  a[k] = IF k = 0 THEN start ELSE Hull(a[k - 1], bs[t[k]])
    <3>1. k # 0 => k \in 1 .. m
      BY <1>9
    <3> QED
      BY <2>3, <2>4, <3>1
  <2> QED
    BY <2>4, <2>5
<1>11. R = Def(R)
  BY <1>10
<1> HIDE DEF R
<1>12. R[0] = start /\ \A k \in 1 .. m : R[k] = Hull(R[k - 1], bs[t[k]])
  BY <1>4, <1>11
<1> DEFINE S == {k \in Nat : k <= m => R[k] = BoxAt(bs, A, U, FirstOf(k))}
<1>13. 0 \in S
  <2>1. FirstOf(0) = {f[1]}
    OBVIOUS
  <2>2. BoxAt(bs, A, U, {f[1]}) = bs[f[1]]
    <3> DEFINE k == f[1]
    <3>1. k \in 1 .. Len(bs)
      BY <1>6
    <3> HIDE DEF k
    <3>2. BoxAt(bs, A, U, {k}) = bs[k]
      BY <3>1, BoxOfOne
    <3> QED
      BY <3>2 DEF k
  <2> QED
    BY <1>6, <1>12, <2>1, <2>2
<1>14. ASSUME NEW k \in Nat, k \in S PROVE k + 1 \in S
  <2> SUFFICES ASSUME k + 1 <= m PROVE R[k + 1] = BoxAt(bs, A, U, FirstOf(k + 1))
    OBVIOUS
  <2> DEFINE a == FirstOf(k)
             c == f[k + 2]
  <2>1. R[k] = BoxAt(bs, A, U, a)
    BY <1>4, <1>14
  <2>2. k + 1 \in 1 .. m /\ (k + 1) - 1 = k /\ t[k + 1] = f[(k + 1) + 1] /\ (k + 1) + 1 = k + 2
    BY <1>4
  <2>3. R[k + 1] = Hull(R[k], bs[c])
    BY <1>12, <2>2
  <2>4. k + 2 \in 1 .. n /\ \A j \in 1 .. k + 1 : j \in 1 .. n /\ j # k + 2
    BY <1>9
  <2>5. a \in SUBSET (1 .. Len(bs)) /\ a # {} /\ c \in 1 .. Len(bs) /\ c \notin a
    <3>1. f[1] \in a
      OBVIOUS
    <3>2. c \in g /\ \A j \in 1 .. k + 1 : f[j] \in g /\ f[j] # c
      BY <1>2, <2>4
    <3> QED
      BY <3>1, <3>2
  <2>6. FirstOf(k + 1) = a \cup {c}
    <3>1. 1 .. (k + 1) + 1 = (1 .. k + 1) \cup {k + 2}
      OBVIOUS
    <3> QED
      BY <3>1
  <2> HIDE DEF a, c, FirstOf
  <2>7. BoxAt(bs, A, U, {c}) = bs[c]
    BY <2>5, BoxOfOne
  <2> DEFINE d == {c}
  <2>8. d \in SUBSET (1 .. Len(bs)) /\ d # {} /\ a \cap d = {}
    BY <2>5
  <2> HIDE DEF d
  <2>9. BoxAt(bs, A, U, a \cup d) = Hull(BoxAt(bs, A, U, a), BoxAt(bs, A, U, d))
    BY <2>5, <2>8, HullOf
  <2> QED
    BY <2>1, <2>3, <2>6, <2>7, <2>9 DEF d
<1> HIDE DEF S
<1>15. m \in S
  BY <1>4, <1>13, <1>14, Induction
<1>16. FirstOf(m) = g
  <2>1. FirstOf(m) = {f[j] : j \in 1 .. n}
    BY <1>9
  <2> HIDE DEF FirstOf
  <2>2. ASSUME NEW x \in g PROVE x \in {f[j] : j \in 1 .. n}
    <3>1. PICK i \in 1 .. n : f[i] = x
      BY <1>2
    <3> QED
      BY <3>1
  <2>3. ASSUME NEW x \in {f[j] : j \in 1 .. n} PROVE x \in g
    BY <1>2
  <2> QED
    BY <2>1, <2>2, <2>3
<1> HIDE DEF FirstOf
<1>17. m \in Nat => R[m] = BoxAt(bs, A, U, FirstOf(m))
  BY <1>15, <1>9 DEF S
<1> QED
  BY <1>8, <1>16, <1>9, <1>17

\* Groups whose boxes are apart, and the ways to divide a list into groups.
LEMMA ApartIs ==
  ASSUME NEW w \in Nat, NEW h \in Nat, NEW bs \in Seq(InPicture(w, h)),
         NEW A, NEW U, Sums(bs, A, U), NEW division \in Divisions(Len(bs))
  PROVE  /\ \A g \in division : Box(bs, g) = BoxAt(bs, A, U, g)
         /\ Apart(bs, division) <=> ApartAt(bs, A, U, division)
<1>1. ASSUME NEW g \in division PROVE Box(bs, g) = BoxAt(bs, A, U, g)
  <2>1. PICK f \in [1 .. Len(bs) -> 1 .. Len(bs)] :
          division = {Class(Len(bs), f, f[i]) : i \in 1 .. Len(bs)}
    BY DEF Divisions
  <2>2. PICK i \in 1 .. Len(bs) : g = Class(Len(bs), f, f[i])
    BY <2>1
  <2>3. g \in SUBSET (1 .. Len(bs)) /\ g # {}
    BY <2>2 DEF Class
  <2> QED
    BY <2>3, BoxIs
<1> QED
  BY <1>1 DEF Apart, ApartAt

DescribedSeq(mask, w) == SetToSeq({Describe(c, mask, w) : c \in Components(mask, w)})

LEMMA DescribedList ==
  ASSUME NEW w \in Nat \ {0}, NEW h \in Nat, NEW mask \in [0 .. w * h - 1 -> {0, 90}],
         Cardinality(Components(mask, w)) <= 4
  PROVE  /\ DescribedSeq(mask, w) \in Seq(InPicture(w, h))
         /\ Len(DescribedSeq(mask, w)) \in 0 .. 4
<1> DEFINE cs == Components(mask, w)
           n == w * h
           D == {Describe(c, mask, w) : c \in cs}
           f == [c \in cs |-> Describe(c, mask, w)]
<1>1. n \in Nat /\ DOMAIN mask = 0 .. n - 1
  OBVIOUS
<1>2. cs \in SUBSET (SUBSET (0 .. n - 1)) /\ \A c \in cs : c # {}
  <2>1. Lit(mask) \subseteq 0 .. n - 1
    BY <1>1 DEF Lit
  <2>2. \A c \in cs : c \in SUBSET Lit(mask) /\ c # {}
    <3> HIDE DEF n
    <3> QED
      BY <1>1, ComponentsAre
  <2> HIDE DEF cs, n
  <2> QED
    BY <2>1, <2>2
<1>3. IsFiniteSet(cs)
  <2> DEFINE P == 0 .. n - 1
  <2>1. IsFiniteSet(P)
    BY <1>1, FS_Interval
  <2>2. cs \in SUBSET (SUBSET P)
    BY <1>2
  <2> HIDE DEF P, cs
  <2>3. IsFiniteSet(SUBSET P)
    BY <2>1, FS_SUBSET
  <2> QED
    BY <2>2, <2>3, FS_Subset
<1>4. mask \in [0 .. w * h - 1 -> Nat]
  <2>1. \A x \in {0, 90} : x \in Nat
    OBVIOUS
  <2> QED
    BY <2>1
<1>5. D \subseteq InPicture(w, h)
  <2>1. ASSUME NEW c \in cs PROVE Describe(c, mask, w) \in InPicture(w, h)
    <3>1. c \in SUBSET (0 .. w * h - 1) /\ c # {}
      BY <1>2
    <3> HIDE DEF cs
    <3> QED
      BY <1>4, <3>1, DescribeType
  <2> HIDE DEF cs
  <2> QED
    BY <2>1
<1>6. f \in Surjection(cs, D)
  BY DEF Surjection
<1> HIDE DEF cs, D, f
<1>7. IsFiniteSet(D) /\ Cardinality(D) <= Cardinality(cs)
  BY <1>3, <1>6, FS_Surjection
<1> DEFINE bs == SetToSeq(D)
<1>8. bs \in Seq(D) /\ Len(bs) = Cardinality(D) /\ Len(bs) \in Nat
  BY <1>7, ListedIs
<1>9. Cardinality(cs) \in Nat /\ Cardinality(cs) <= 4
  <2>1. Cardinality(cs) \in Nat
    BY <1>3, FS_CardinalityType
  <2> QED
    BY <2>1 DEF cs
<1> HIDE DEF bs
<1>10. bs \in Seq(InPicture(w, h)) /\ Len(bs) \in 0 .. 4
  BY <1>5, <1>7, <1>8, <1>9
<1> QED
  BY <1>10 DEF DescribedSeq, bs, D, cs

\* For the components of any mask, merging gives the finest division into groups
\* whose boxes are apart, whatever the order of the blobs and of the passes
\* (motion_detect.c:163).
THEOREM MergeIsRight == Spec => []MergeIsFinest
<1>1. camera \in Cameras => MergeIsFinest
  <2> SUFFICES ASSUME camera \in Cameras, NEW mask \in Masks,
                      Cardinality(Components(mask, Width(camera))) <= 4
               PROVE  LET w == Width(camera)
                          cs == Components(mask, w)
                          bs == SetToSeq({Describe(c, mask, w) : c \in cs})
                          apart == {g \in Groupings[Len(bs)] : Apart(bs, g)}
                      IN  \E finest \in apart :
                            /\ \A other \in apart : \A g \in finest :
                                 \E h \in other : g \subseteq h
                            /\ ToSet(MergeClose(bs)) = {Box(bs, g) : g \in finest}
                            /\ Len(MergeClose(bs)) = Cardinality(finest)
    BY DEF MergeIsFinest
  <2> DEFINE w == Width(camera)
             h == Height(camera)
             bs == SetToSeq({Describe(c, mask, w) : c \in Components(mask, w)})
             r == MergeClose(bs)
  <2>1. w \in Nat \ {0} /\ h \in Nat
    BY GridType
  <2>2. mask \in [0 .. w * h - 1 -> {0, 90}]
    BY DEF Masks, Cells
  <2>3. bs \in Seq(InPicture(w, h)) /\ Len(bs) \in 0 .. 4
    <3>1. Cardinality(Components(mask, w)) <= 4
      OBVIOUS
    <3>2. bs = DescribedSeq(mask, w)
      BY DEF DescribedSeq
    <3> HIDE DEF w, h, bs
    <3>3. /\ DescribedSeq(mask, w) \in Seq(InPicture(w, h))
          /\ Len(DescribedSeq(mask, w)) \in 0 .. 4
      BY <2>1, <2>2, <3>1, DescribedList
    <3> QED
      BY <3>2, <3>3
  <2>4. Groupings[Len(bs)] = Divisions(Len(bs))
    <3> DEFINE n == Len(bs)
    <3>1. n \in 0 .. 4
      BY <2>3
    <3> HIDE DEF n
    <3> QED
      BY <3>1 DEF Groupings, Divisions, Class, n
  <2> HIDE DEF w, h, bs, r
  <2>5. PICK A, U : Sums(bs, A, U) /\ \E finest : FinestIs(finest, r, bs, A, U)
    BY <2>1, <2>3, MergingIsFinest DEF r
  <2>6. Sums(bs, A, U)
    BY <2>5
  <2>7. PICK finest : FinestIs(finest, r, bs, A, U)
    BY <2>5
  <2>8. \A d \in Divisions(Len(bs)) :
          /\ \A g \in d : Box(bs, g) = BoxAt(bs, A, U, g)
          /\ Apart(bs, d) <=> ApartAt(bs, A, U, d)
    BY <2>1, <2>3, <2>6, ApartIs
  <2> DEFINE apart == {g \in Groupings[Len(bs)] : Apart(bs, g)}
  <2>9. /\ finest \in apart
        /\ \A other \in apart : \A g \in finest : \E q \in other : g \subseteq q
    BY <2>4, <2>7, <2>8 DEF FinestIs
  <2>10. {Box(bs, g) : g \in finest} = {BoxAt(bs, A, U, g) : g \in finest}
    BY <2>7, <2>8 DEF FinestIs
  <2>11. ToSet(r) = {Box(bs, g) : g \in finest} /\ Len(r) = Cardinality(finest)
    BY <2>7, <2>10 DEF FinestIs
  <2> QED
    BY <2>9, <2>11 DEF r, bs, w
<1> QED
  BY <1>1, CameraStays, PTL

-----------------------------------------------------------------------------
(* The decoder computes what the camera meant *)

\* What the decoder makes of a quantised value is the mean luminance.
LEMMA LumaIs ==
  ASSUME NEW level \in Levels, NEW q \in 1 .. 255
  PROVE  Luma(level, q) =
           Atleast(0, Upto(255, 128 + (IF level < 0 THEN -1 ELSE 1) *
                                      ((Distance(level, 0) * q) \div 8)))
<1>1. level \in Int /\ q \in Nat /\ q > 0
  BY DEF Levels
<1>2. CASE level >= 0
  <2>1. PICK m \in Nat : level * q = m
    BY <1>1, <1>2
  <2>2. Distance(level, 0) * q = m
    BY <1>1, <1>2, <2>1 DEF Distance
  <2>3. PICK x \in Nat : m \div 8 = x
    BY <2>1
  <2>4. CDiv(level * q, 8) = x
    BY <2>1, <2>3 DEF CDiv
  <2>5. PICK v \in Int : x + 128 = v
    OBVIOUS
  <2>6. Luma(level, q) = IF v < 0 THEN 0 ELSE IF v > 255 THEN 255 ELSE v
    BY <2>4, <2>5 DEF Luma
  <2>7. 128 + (IF level < 0 THEN -1 ELSE 1) * ((Distance(level, 0) * q) \div 8) = v
    BY <1>1, <1>2, <2>2, <2>3, <2>5
  <2>8. Atleast(0, Upto(255, v)) = IF v < 0 THEN 0 ELSE IF v > 255 THEN 255 ELSE v
    BY DEF Atleast, Upto
  <2> QED
    BY <2>6, <2>7, <2>8
<1>3. CASE level < 0
  <2>1. PICK n \in Nat \ {0} : level = -n
    <3>1. -level \in Nat \ {0} /\ level = -(-level)
      BY <1>1, <1>3
    <3> QED
      BY <3>1
  <2>2. PICK m \in Nat : n * q = m /\ m > 0
    BY <1>1
  <2>3. level * q = -m
    BY <1>1, <2>1, <2>2
  <2>4. Distance(level, 0) * q = m
    <3>1. Distance(level, 0) = n
      BY <1>3, <2>1 DEF Distance
    <3> QED
      BY <2>2, <3>1
  <2>5. PICK x \in Nat : m \div 8 = x
    BY <2>2
  <2>6. CDiv(level * q, 8) = -x
    <3>1. ~(-m >= 0) /\ -(-m) = m
      BY <2>2
    <3> QED
      BY <2>3, <2>5, <3>1 DEF CDiv
  <2>7. PICK v \in Int : (-x) + 128 = v
    OBVIOUS
  <2>8. Luma(level, q) = IF v < 0 THEN 0 ELSE IF v > 255 THEN 255 ELSE v
    BY <2>6, <2>7 DEF Luma
  <2>9. 128 + (IF level < 0 THEN -1 ELSE 1) * ((Distance(level, 0) * q) \div 8) = v
    <3>1. (IF level < 0 THEN -1 ELSE 1) = -1
      BY <1>3
    <3>2. 128 + (-1) * x = v
      BY <2>7
    <3> QED
      BY <2>4, <2>5, <3>1, <3>2
  <2>10. Atleast(0, Upto(255, v)) = IF v < 0 THEN 0 ELSE IF v > 255 THEN 255 ELSE v
    BY DEF Atleast, Upto
  <2> QED
    BY <2>8, <2>9, <2>10
<1> QED
  BY <1>1, <1>2, <1>3

\* Adding up what each step adds.
LEMMA TotalSteps ==
  ASSUME NEW n \in Nat, NEW f \in [1 .. n -> Nat], NEW off, off[0] = 0,
         \A k \in 1 .. n : off[k] = off[k - 1] + f[k]
  PROVE  Total(f) = off[n]
<1>1. IsFiniteSet(1 .. n)
  BY IntervalSize
<1>2. PICK G : Adds(G, 1 .. n, f) /\ Total(f) = G[1 .. n]
  BY <1>1, TotalIs
<1> DEFINE S == {k \in Nat : k <= n => G[1 .. k] = off[k]}
<1>3. 0 \in S
  <2>1. 1 .. 0 = {}
    OBVIOUS
  <2> QED
    BY <1>2, <2>1 DEF Adds
<1>4. ASSUME NEW k \in Nat, k \in S PROVE k + 1 \in S
  <2> SUFFICES ASSUME k + 1 <= n PROVE G[1 .. (k + 1)] = off[k + 1]
    OBVIOUS
  <2>1. k + 1 \in 1 .. n /\ (k + 1) - 1 = k /\ G[1 .. k] = off[k]
    BY <1>4
  <2>2. 1 .. (k + 1) \in SUBSET (1 .. n) /\ k + 1 \in 1 .. (k + 1)
        /\ (1 .. (k + 1)) \ {k + 1} = 1 .. k
    OBVIOUS
  <2>3. G[1 .. (k + 1)] = f[k + 1] + G[(1 .. (k + 1)) \ {k + 1}]
    BY <1>2, <2>2 DEF Adds
  <2>4. PICK s : 1 .. k = s /\ (1 .. (k + 1)) \ {k + 1} = s
    BY <2>2
  <2>5. G[s] \in Nat
    <3>1. s \in SUBSET (1 .. n)
      BY <2>2, <2>4
    <3> QED
      BY <1>2, <3>1 DEF Adds
  <2>6. G[s] = off[k] /\ G[1 .. (k + 1)] = f[k + 1] + G[s]
    BY <2>1, <2>3, <2>4
  <2>7. off[k + 1] = off[k] + f[k + 1] /\ f[k + 1] \in Nat
    BY <2>1
  <2> QED
    BY <2>5, <2>6, <2>7
<1> HIDE DEF S
<1>5. n \in S /\ n <= n
  <2>1. \A k \in Nat : k \in S
    BY <1>3, <1>4, Induction
  <2> QED
    BY <2>1
<1> QED
  BY <1>2, <1>5 DEF S

\* What is sent of a scan is a beginning of it.
LEMMA SentIs ==
  ASSUME NEW cam \in Cameras, NEW s \in Shots(cam)
  PROVE  /\ IsData(Sent(cam, s)) /\ Begins(Sent(cam, s), Scans[cam][s.scene][s.detail])
         /\ Scans[cam][s.scene][s.detail]
              = ScanBytes(Format[cam], Pictures[cam][s.scene], s.detail)
<1> DEFINE B == 0 .. FF
<1>1. /\ s.scene \in DOMAIN Pictures[cam] /\ s.detail \in Details /\ s.lost \in Lost
  BY DEF Shots
<1>2. PICK scan : Scans[cam][s.scene][s.detail] = scan
  OBVIOUS
<1>3. scan \in Seq(B)
  BY <1>1, <1>2, ScanAssumption DEF ScanAssumption
<1>4. PICK lost \in Nat : s.lost = lost
  BY <1>1, CameraAssumption DEF CameraAssumption
<1>5. PICK data : Sent(cam, s) = data
  OBVIOUS
<1>6. data = SubSeq(scan, 1, Len(scan) - lost)
  BY <1>2, <1>4, <1>5 DEF Sent
<1>7. \A x \in B : x \in Nat
  OBVIOUS
<1> HIDE DEF B
<1>8. PICK l \in Nat : Len(scan) = l /\ DOMAIN scan = 1 .. l
  BY <1>3
<1>9. IsData(data) /\ Begins(data, scan)
  <2>1. CASE lost <= l
    <3>1. PICK m \in Nat : l - lost = m /\ m <= l
      BY <2>1
    <3>2. data = SubSeq(scan, 1, m)
      BY <1>6, <1>8, <3>1
    <3>3. Len(data) = m /\ \A k \in 1 .. m : data[k] = scan[k]
      BY <1>3, <1>8, <3>1, <3>2
    <3>4. \A k \in 1 .. m : scan[k] \in Nat
      <4> TAKE k \in 1 .. m
      <4>1. k \in DOMAIN scan
        BY <1>8, <3>1
      <4>2. scan[k] \in B
        BY <1>3, <4>1, ElementOf
      <4> QED
        BY <1>7, <4>2
    <3> QED
      BY <1>8, <3>1, <3>3, <3>4 DEF IsData, Begins
  <2>2. CASE ~(lost <= l)
    <3>1. PICK m \in Int : l - lost = m /\ m < 0
      BY <2>2
    <3>2. data = SubSeq(scan, 1, m)
      BY <1>6, <1>8, <3>1
    <3>3. data = <<>>
      BY <1>3, <3>1, <3>2
    <3>4. Len(data) = 0
      BY <3>3
    <3> QED
      BY <1>8, <3>4 DEF IsData, Begins
  <2> QED
    BY <2>1, <2>2
<1>10. scan = ScanBytes(Format[cam], Pictures[cam][s.scene], s.detail)
  BY <1>1, <1>2 DEF Scans
<1> QED
  BY <1>2, <1>5, <1>9, <1>10

MeanOf(level, q) ==
  Atleast(0, Upto(255, 128 + (IF level < 0 THEN -1 ELSE 1) * ((Distance(level, 0) * q) \div 8)))

\* What a camera sends can be coded, and what it meant is what the decoder computes.
LEMMA PictureMeans ==
  ASSUME NEW cam \in Cameras, NEW scene \in DOMAIN Pictures[cam]
  PROVE  /\ Format[cam] \in CameraFormat /\ Cells(cam) = CellsIn(Format[cam])
         /\ Meaning(Format[cam], Pictures[cam][scene], Meant[cam][scene])
<1>1. PICK f \in CameraFormat : Format[cam] = f
  BY CameraAssumption DEF CameraAssumption
<1>2. Cells(cam) = CellsIn(f)
  BY <1>1 DEF Cells, CellsIn, Width, Height
<1>3. PICK picture : Pictures[cam][scene] = picture
  OBVIOUS
<1>4. picture \in [Cells(cam) -> Levels]
  BY <1>3, PictureAssumption DEF PictureAssumption, Levels
<1>5. Meant[cam][scene] = Luminance(cam, picture)
  BY <1>3 DEF Meant
<1>6. f.q \in 1 .. 255
  BY FormatType
<1>7. ASSUME NEW i \in CellsIn(f)
      PROVE  picture[i] \in Levels /\ Meant[cam][scene][i] = Luma(picture[i], f.q)
  <2>1. i \in Cells(cam)
    BY <1>2
  <2>2. PICK level \in Levels : picture[i] = level
    BY <1>4, <2>1
  <2>3. Luminance(cam, picture)[i] = MeanOf(picture[i], Format[cam].q)
    BY <2>1 DEF Luminance, MeanOf
  <2>4. Luminance(cam, picture)[i] = MeanOf(level, f.q)
    BY <1>1, <2>2, <2>3
  <2>5. Luma(level, f.q) = MeanOf(level, f.q)
    BY <1>6, LumaIs DEF MeanOf
  <2>6. Luminance(cam, picture)[i] = Luma(level, f.q)
    BY <2>4, <2>5
  <2> QED
    BY <1>5, <2>2, <2>6
<1> QED
  BY <1>1, <1>2, <1>3, <1>7 DEF Meaning

LaidFor(cam, s, off, c) ==
  /\ DOMAIN Intervals(Format[cam]) = 1 .. c
  /\ \E scan : ScanLaid(Format[cam], Pictures[cam][s.scene], s.detail, scan, off, c)
EndsAt(cam, s, off, c) ==
  /\ DOMAIN Ends[cam][s.scene][s.detail] = 1 .. c
  /\ \A i \in 1 .. c : Ends[cam][s.scene][s.detail][i] = off[i] - 2

\* What DcIsExact counts as received is what the proof does.
LEMMA EndsAre ==
  ASSUME NEW cam \in Cameras, NEW s \in Shots(cam), NEW c \in Nat \ {0},
         NEW off, LaidFor(cam, s, off, c)
  PROVE  EndsAt(cam, s, off, c)
<1>0. PICK scan : /\ ScanLaid(Format[cam], Pictures[cam][s.scene], s.detail, scan, off, c)
                  /\ DOMAIN Intervals(Format[cam]) = 1 .. c
  BY DEF LaidFor
<1>1. s.scene \in DOMAIN Pictures[cam] /\ s.detail \in Details
  BY DEF Shots
<1>2. PICK f, picture, detail :
        Format[cam] = f /\ Pictures[cam][s.scene] = picture /\ s.detail = detail
  OBVIOUS
<1>3. Ends[cam][s.scene][s.detail] =
        [i \in 1 .. c |-> Total([k \in 1 .. i |-> 2 + Len(BytesOf(f, picture, detail, k))]) - 2]
  BY <1>0, <1>1, <1>2 DEF Ends, BytesOf
<1>4. ASSUME NEW i \in 1 .. c
      PROVE  Total([k \in 1 .. i |-> 2 + Len(BytesOf(f, picture, detail, k))]) = off[i]
  <2> DEFINE g == [k \in 1 .. i |-> 2 + Len(BytesOf(f, picture, detail, k))]
  <2>1. off[0] = 0 /\ \A k \in 0 .. c : off[k] \in Nat
    BY <1>0 DEF ScanLaid
  <2>2. ASSUME NEW k \in 1 .. i PROVE g[k] \in Nat /\ off[k] = off[k - 1] + g[k]
    <3>1. k \in 1 .. c /\ k - 1 \in 0 .. c
      OBVIOUS
    <3>2. PICK ib \in Seq(0 .. 255) : BytesOf(f, picture, detail, k) = ib
      BY <1>0, <1>2, <3>1 DEF ScanLaid, PieceLaid
    <3>3. PieceLaid(scan, ib, off[k - 1], off[k], k, c)
      BY <1>0, <1>2, <3>1, <3>2 DEF ScanLaid
    <3>4. off[k] = (off[k - 1] + Len(ib)) + 2
      BY <3>3 DEF PieceLaid
    <3>5. g[k] = 2 + Len(ib)
      BY <3>2
    <3>6. PICK a \in Nat, l \in Nat : off[k - 1] = a /\ Len(ib) = l
      BY <2>1, <3>1, <3>2
    <3> HIDE DEF g
    <3>7. off[k] = (a + l) + 2 /\ g[k] = 2 + l
      BY <3>4, <3>5, <3>6
    <3> QED
      BY <3>6, <3>7
  <2>3. g \in [1 .. i -> Nat]
    BY <2>2
  <2>4. i \in Nat
    OBVIOUS
  <2> HIDE DEF g
  <2>5. Total(g) = off[i]
    BY <2>1, <2>2, <2>3, <2>4, TotalSteps
  <2> QED
    BY <2>5 DEF g
<1> QED
  BY <1>3, <1>4 DEF EndsAt

LEMMA ReceivedIs ==
  ASSUME NEW cam \in Cameras, NEW s \in Shots(cam), NEW c \in Nat \ {0},
         NEW off, LaidFor(cam, s, off, c), NEW x \in Received(cam, s)
  PROVE  \E i \in 1 .. c : /\ off[i] - 2 <= Len(Sent(cam, s))
                           /\ \E mcu \in ToSet(Intervals(Format[cam])[i]) :
                                x \in CellsOfMcu(Format[cam], mcu)
<1>1. PICK ends : Ends[cam][s.scene][s.detail] = ends
  OBVIOUS
<1>2. DOMAIN ends = 1 .. c /\ \A i \in 1 .. c : ends[i] = off[i] - 2
  BY <1>1, EndsAre DEF EndsAt
<1>3. PICK i \in DOMAIN ends : ends[i] <= Len(Sent(cam, s)) /\ x \in CellsOf[cam][i]
  BY <1>1 DEF Received
<1>4. i \in 1 .. c /\ off[i] - 2 <= Len(Sent(cam, s))
  BY <1>2, <1>3
<1>5. CellsOf[cam][i] =
        {b \in UNION {ToSet(BlocksOf(Format[cam], mcu)) : mcu \in ToSet(Intervals(Format[cam])[i])} :
           b >= 0}
  <2>1. i \in DOMAIN Intervals(Format[cam])
    BY <1>4 DEF LaidFor
  <2> QED
    BY <2>1 DEF CellsOf
<1>6. \E mcu \in ToSet(Intervals(Format[cam])[i]) : x \in CellsOfMcu(Format[cam], mcu)
  BY <1>3, <1>5 DEF CellsOfMcu
<1> QED
  BY <1>4, <1>6

\* A frame with the camera's header, whatever of it has arrived: the extraction
\* succeeds, with the picture's size, every cell whose interval has arrived is there,
\* and such a cell has the luminance the picture means (jpeg_dc.c:449).
THEOREM FrameIsExact ==
  ASSUME NEW cam \in Cameras, NEW s \in Shots(cam), Headers[cam][s.header] = Header(Format[cam]),
         NEW dc, Extraction(cam, s) = dc
  PROVE  /\ dc.ok /\ dc.w = Width(cam) /\ dc.h = Height(cam)
         /\ DOMAIN dc.grid \subseteq Cells(cam)
         /\ Received(cam, s) \subseteq DOMAIN dc.grid
         /\ \A i \in Received(cam, s) : dc.grid[i] = Meant[cam][s.scene][i]
<1>1. /\ s.scene \in DOMAIN Pictures[cam] /\ s.detail \in Details /\ s.lost \in Lost
      /\ s.header \in DOMAIN Headers[cam]
  BY DEF Shots
<1>2. PICK f \in CameraFormat : Format[cam] = f
  BY <1>1, PictureMeans
<1>3. PICK picture, meant, detail, data :
        /\ Pictures[cam][s.scene] = picture /\ Meant[cam][s.scene] = meant
        /\ s.detail = detail /\ Sent(cam, s) = data
  OBVIOUS
<1>4. Meaning(f, picture, meant) /\ Cells(cam) = CellsIn(f)
  BY <1>1, <1>2, <1>3, PictureMeans
<1>5. detail \in {"flat", "edge", "sharp"}
  <2>1. Details \subseteq {"flat", "edge", "sharp"}
    BY PictureAssumption DEF PictureAssumption
  <2> QED
    BY <1>1, <1>3, <2>1
<1>6. PICK p : Parsed[cam][s.header] = p
  OBVIOUS
<1>7. Fitting(p, f)
  <2>1. p = Parse(Headers[cam][s.header])
    BY <1>1, <1>6 DEF Parsed
  <2>2. Headers[cam][s.header] \in Seq(Segment)
    BY <1>1, HeaderAssumption DEF HeaderAssumption
  <2>3. Header(f) \in Seq(Segment) /\ p = Parse(Header(f))
    BY <1>2, <2>1, <2>2
  <2> QED
    BY <2>3, HeaderParses
<1>8. IsData(data) /\ Begins(data, ScanBytes(f, picture, detail))
  BY <1>2, <1>3, SentIs
<1>9. ExtractDc(p, data) = dc
  <2> DEFINE shot == [scene |-> s.scene, detail |-> s.detail, lost |-> s.lost]
  <2>1. Sent(cam, shot) = data
    BY <1>3 DEF Sent
  <2> QED
    BY <1>1, <1>6, <2>1 DEF Extraction, Extracted
<1>10. PICK n \in Nat \ {0}, m \in Nat \ {0}, c \in Nat \ {0} : Divided(f, n, m, c)
  BY IntervalsAre
<1>11. PICK off : ScanLaid(f, picture, detail, ScanBytes(f, picture, detail), off, c)
  <2>1. \A i \in CellsIn(f) : picture[i] \in Levels
    BY <1>4 DEF Meaning
  <2> QED
    BY <1>5, <1>10, <2>1, ScanIsLaid
<1>12. PICK W : Walked(W, data, p)
  BY <1>7, <1>8, ExtractWalks DEF Fitting
<1>13. Starts(W[0], 0) /\ DOMAIN W[0].grid = {}
  BY <1>12 DEF Walked, Starts
<1>14. Arrives(f, p, n, m, c, picture, meant, detail, off, data, W)
  BY <1>4, <1>5, <1>7, <1>8, <1>10, <1>11, <1>12, <1>13 DEF Arrives, Walked
<1>15. LumaOf(p).h = f.h /\ LumaOf(p).v = f.v /\ p.cols = f.cols /\ p.rows = f.rows
  <2>1. 1 \in 1 .. 3 /\ (~f.colour => 1 = 1)
    OBVIOUS
  <2>2. p.scan[1].comp = 1 /\ p.comps[1].h = f.h /\ p.comps[1].v = f.v
    BY <1>7, <2>1, FittingComp
  <2> QED
    BY <1>7, <2>2 DEF LumaOf, Fitting
<1>16. p.cols * p.rows = n
  BY <1>10, <1>15 DEF Divided
<1>17. /\ dc = [ok |-> TRUE, w |-> f.cols * f.h, h |-> f.rows * f.v, grid |-> W[n].grid]
  BY <1>9, <1>12, <1>15, <1>16 DEF Walked
<1>18. dc.ok /\ dc.w = Width(cam) /\ dc.h = Height(cam) /\ dc.grid = W[n].grid
  BY <1>2, <1>17 DEF Width, Height
<1>19. DOMAIN dc.grid \subseteq Cells(cam)
  <2>1. DOMAIN dc.grid \subseteq 0 .. dc.w * dc.h - 1
    BY <1>7, <1>8, <1>9, <1>18, GridStaysInPicture DEF Fitting
  <2> QED
    BY <1>18, <2>1 DEF Cells
<1>20. ASSUME NEW x \in Received(cam, s) PROVE x \in DOMAIN dc.grid /\ dc.grid[x] = meant[x]
  <2>1. LaidFor(cam, s, off, c)
    BY <1>2, <1>3, <1>10, <1>11 DEF Divided, LaidFor
  <2>2. PICK i \in 1 .. c : /\ off[i] - 2 <= Len(data)
                            /\ \E mcu \in ToSet(Intervals(f)[i]) : x \in CellsOfMcu(f, mcu)
    BY <1>2, <1>3, <2>1, ReceivedIs
  <2>3. PICK mcu \in ToSet(Intervals(f)[i]) : x \in CellsOfMcu(f, mcu)
    BY <2>2
  <2>4. x \in DOMAIN W[n].grid /\ W[n].grid[x] = meant[x]
    BY <1>14, <2>2, <2>3, WalkIsExact
  <2> QED
    BY <1>18, <2>4
<1> QED
  BY <1>3, <1>18, <1>19, <1>20

LEMMA ShotIsExact ==
  ASSUME NEW cam \in Cameras, NEW s \in Shots(cam)
  PROVE  Exact(cam, s, Extraction(cam, s), Received(cam, s))
<1>1. PICK dc : Extraction(cam, s) = dc
  OBVIOUS
<1>2. CASE Headers[cam][s.header] = Header(Format[cam])
  BY <1>1, <1>2, FrameIsExact DEF Exact
<1>3. CASE Headers[cam][s.header] # Header(Format[cam])
  <2>1. /\ s.scene \in DOMAIN Pictures[cam] /\ s.detail \in Details /\ s.lost \in Lost
        /\ s.header \in DOMAIN Headers[cam]
    BY DEF Shots
  <2>2. Unusable(Parsed[cam][s.header])
    <3>1. PICK n \in DOMAIN Headers[cam] : s.header = n
      BY <2>1
    <3>2. Headers[cam][n] = Header(Format[cam]) \/ Unusable(Parsed[cam][n])
      BY PictureAssumption DEF PictureAssumption
    <3> QED
      BY <1>3, <3>1, <3>2
  <2>3. dc.ok = FALSE
    BY <1>1, <2>1, <2>2 DEF Extraction, Extracted, ExtractDc
  <2> QED
    BY <1>1, <1>3, <2>3 DEF Exact
<1> QED
  BY <1>2, <1>3

\* For any camera of the baseline format, any pictures, however the blocks are coded and
\* whatever is missing at the end: what has arrived is decoded to what was meant.
THEOREM DecoderIsExact == Spec => []DcIsExact
<1>1. camera \in Cameras => DcIsExact
  BY ShotIsExact DEF DcIsExact
<1> QED
  BY <1>1, CameraStays, PTL

=============================================================================
