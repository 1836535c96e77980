----------------------------- MODULE JpegProofs -----------------------------
(***************************************************************************)
(* That the decoder never leaves its tables, its data or its picture,      *)
(* whatever bytes it is given, and that what it computes of a picture the  *)
(* camera coded is what the camera meant, as far as the data go            *)
(* (jpeg_dc.c; the camera is external).                                    *)
(*                                                                         *)
(* That the decoder stays in its tables and in its picture rests on the    *)
(* codes of each length being consecutive: what is passed over at one      *)
(* length does not fall below the codes of the next, so that the code the  *)
(* walk stops at is between the first and the last of its length.          *)
(*                                                                         *)
(* That it gives back what was coded is shown from the bits upwards.  A    *)
(* reader that is at bit a of a stuffed stream and takes w bits gets the w *)
(* bits written there and is at a + w.  So a code of the table is decoded  *)
(* to its symbol: the codes of a shorter length are all smaller than its   *)
(* first bits.  So a DC difference and the coefficients after it are read  *)
(* as they were written, a block leaves the decoder's prediction equal to  *)
(* the coder's, and an interval of MCUs leaves the cells of its blocks     *)
(* right; a restart marker resets both sides alike.  The walk over what    *)
(* has arrived is whole intervals and then cells that stay as they were.   *)
(*                                                                         *)
(* The library's induction theorems take an operator, which no prover here *)
(* can instantiate.  Induction is over sets of numbers instead; that the   *)
(* recursive function a loop stands for exists, LoopRuns shows.            *)
(***************************************************************************)
EXTENDS JpegDc, JpegCamera, FiniteSetTheorems, WellFoundedInduction, TLAPS

LEMMA IntervalSize ==
  ASSUME NEW n \in Nat
  PROVE  /\ IsFiniteSet(1 .. n) /\ Cardinality(1 .. n) = n
         /\ IsFiniteSet(0 .. n - 1) /\ Cardinality(0 .. n - 1) = n
<1>1. 0 \in Int /\ 1 \in Int /\ n \in Int /\ n - 1 \in Int
  OBVIOUS
<1>2. IsFiniteSet(1 .. n) /\ Cardinality(1 .. n) = IF 1 > n THEN 0 ELSE n - 1 + 1
  BY <1>1, FS_Interval, Zenon
<1>3. IsFiniteSet(0 .. n - 1)
      /\ Cardinality(0 .. n - 1) = IF 0 > n - 1 THEN 0 ELSE n - 1 - 0 + 1
  BY <1>1, FS_Interval, Zenon
<1>4. Cardinality(1 .. n) = n
  BY <1>2
<1>5. Cardinality(0 .. n - 1) = n
  BY <1>3
<1> QED
  BY <1>2, <1>3, <1>4, <1>5

\* A set of naturals has a smallest element.
LEMMA SmallestIn == ASSUME NEW S, S \subseteq Nat, S # {}
                    PROVE  \E x \in S : \A y \in S : x <= y
<1> DEFINE Below == {0 .. y : y \in S}
           R     == StrictSubsetOrdering(Nat)
<1>1. Below \subseteq FiniteSubsetsOf(Nat) /\ Below # {}
  <2>1. ASSUME NEW y \in S PROVE 0 .. y \subseteq Nat /\ IsFiniteSet(0 .. y)
    BY FS_Interval
  <2> QED
    BY <2>1 DEF FiniteSubsetsOf
<1>2. PICK B \in Below : \A C \in Below : ~ (<<C, B>> \in R)
  <2>1. IsWellFoundedOn(R, FiniteSubsetsOf(Nat))
    BY FS_StrictSubsetOrderingWellFounded
  <2> HIDE DEF R, Below
  <2> QED
    BY <1>1, <2>1, WFMin
<1>3. PICK x \in S : B = 0 .. x
  OBVIOUS
<1>4. ASSUME NEW y \in S PROVE x <= y
  <2>1. CASE y < x
    <3>1. 0 .. y \subseteq 0 .. x /\ 0 .. y # 0 .. x
      BY <2>1
    <3>2. <<0 .. y, 0 .. x>> \in R
      BY <3>1 DEF StrictSubsetOrdering
    <3> QED
      BY <1>2, <1>3, <3>2
  <2> QED
    BY <2>1
<1> QED
  BY <1>4

\* Induction, over a set in place of a predicate.
LEMMA Induction == ASSUME NEW S, 0 \in S, \A n \in Nat : n \in S => n + 1 \in S
                   PROVE  \A n \in Nat : n \in S
<1> SUFFICES ASSUME Nat \ S # {} PROVE FALSE
  OBVIOUS
<1>1. PICK x \in Nat \ S : \A y \in Nat \ S : x <= y
  BY SmallestIn
<1>2. x # 0 /\ x - 1 \in Nat /\ x - 1 < x
  BY <1>1
<1>3. x - 1 \in S
  BY <1>1, <1>2
<1> QED
  BY <1>1, <1>2, <1>3

\* Induction from all smaller numbers.
LEMMA StrongInduction ==
  ASSUME NEW S, \A n \in Nat : (\A m \in Nat : m < n => m \in S) => n \in S
  PROVE  \A n \in Nat : n \in S
<1> SUFFICES ASSUME Nat \ S # {} PROVE FALSE
  OBVIOUS
<1>1. PICK x \in Nat \ S : \A y \in Nat \ S : x <= y
  BY SmallestIn
<1>2. ASSUME NEW m \in Nat, m < x PROVE m \in S
  BY <1>1, <1>2
<1> QED
  BY <1>1, <1>2

\* A run whose every step stays in T stays in T.
LEMMA LoopStays ==
  ASSUME NEW T, NEW n \in Nat, NEW A, A[0] \in T,
         \A k \in 1 .. n : A[k - 1] \in T => A[k] \in T
  PROVE  \A k \in 0 .. n : A[k] \in T
<1> DEFINE S == {k \in Nat : k <= n => A[k] \in T}
<1>1. 0 \in S
  OBVIOUS
<1>2. ASSUME NEW k \in Nat, k \in S PROVE k + 1 \in S
  <2>1. k + 1 \in 1 .. n /\ A[(k + 1) - 1] \in T => A[k + 1] \in T
    OBVIOUS
  <2> QED
    BY <1>2, <2>1
<1> HIDE DEF S
<1>3. \A k \in Nat : k \in S
  BY <1>1, <1>2, Induction
<1> QED
  BY <1>3 DEF S

IsRun(a, T, start, n, F) ==
  a \in [0 .. n -> T] /\ a[0] = start /\ \A k \in 1 .. n : a[k] = F[<<a[k - 1], k>>]

\* Loop is given by a recursive function; this is what makes it exist: there is a
\* function that takes the steps F describes.
LEMMA LoopRuns ==
  ASSUME NEW T, NEW start \in T, NEW n \in Nat, NEW F \in [T \X (1 .. n) -> T]
  PROVE  \E a : IsRun(a, T, start, n, F)
<1> DEFINE Runs(m, a) == a[0] = start /\ \A k \in 1 .. m : a[k] = F[<<a[k - 1], k>>]
           S == {m \in Nat : m <= n => \E a \in [0 .. m -> T] : Runs(m, a)}
<1>1. 0 \in S
  <2>1. Runs(0, [k \in 0 .. 0 |-> start]) /\ [k \in 0 .. 0 |-> start] \in [0 .. 0 -> T]
    OBVIOUS
  <2> QED
    BY <2>1
<1>2. ASSUME NEW m \in Nat, m \in S PROVE m + 1 \in S
  <2> SUFFICES ASSUME m + 1 <= n PROVE \E a \in [0 .. m + 1 -> T] : Runs(m + 1, a)
    OBVIOUS
  <2>1. PICK a \in [0 .. m -> T] : Runs(m, a)
    BY <1>2
  <2> DEFINE b == [k \in 0 .. m + 1 |-> IF k = m + 1 THEN F[<<a[m], m + 1>>] ELSE a[k]]
  <2>2. F[<<a[m], m + 1>>] \in T
    <3>1. <<a[m], m + 1>> \in T \X (1 .. n)
      OBVIOUS
    <3> QED
      BY <3>1
  <2>3. b \in [0 .. m + 1 -> T]
    BY <2>2
  <2>4. b[0] = start
    BY <2>1
  <2>5. ASSUME NEW k \in 1 .. m + 1 PROVE b[k] = F[<<b[k - 1], k>>]
    <3>1. b[k - 1] = a[k - 1]
      <4>1. k - 1 \in 0 .. m + 1 /\ k - 1 # m + 1
        OBVIOUS
      <4> QED
        BY <4>1
    <3>2. CASE k = m + 1
      <4>1. b[k] = F[<<a[m], m + 1>>]
        BY <3>2
      <4>2. k - 1 = m
        BY <3>2
      <4> QED
        BY <3>1, <3>2, <4>1, <4>2
    <3>3. CASE k \in 1 .. m
      <4>1. b[k] = a[k]
        BY <3>3
      <4> QED
        BY <2>1, <3>1, <3>3, <4>1
    <3> QED
      BY <3>2, <3>3
  <2> HIDE DEF b
  <2> QED
    BY <2>3, <2>4, <2>5
<1> HIDE DEF S
<1>3. n \in S
  BY <1>1, <1>2, Induction
<1>4. PICK a \in [0 .. n -> T] : Runs(n, a)
  BY <1>3 DEF S
<1> QED
  BY <1>4 DEF IsRun

\* A bounded set of numbers has a largest.
LEMMA LargestIn ==
  ASSUME NEW S, S \subseteq Nat, S # {}, NEW m \in Nat, \A x \in S : x <= m
  PROVE  \E x \in S : \A y \in S : x >= y
<1> DEFINE T == {m - x : x \in S}
<1>1. T \subseteq Nat /\ T # {}
  <2>1. \A x \in S : m - x \in Nat
    OBVIOUS
  <2> QED
    BY <2>1
<1>2. PICK z \in T : \A y \in T : z <= y
  BY <1>1, SmallestIn
<1>3. PICK x \in S : z = m - x
  OBVIOUS
<1>4. \A y \in S : x >= y
  <2> SUFFICES ASSUME NEW y \in S PROVE x >= y
    OBVIOUS
  <2>1. m - x <= m - y /\ x \in Nat /\ y \in Nat
    BY <1>2, <1>3
  <2> QED
    BY <2>1
<1> QED
  BY <1>4

LEMMA DivMod ==
  ASSUME NEW i \in Nat, NEW m \in Nat, NEW k \in Nat, i < m * k
  PROVE  i \div k \in 0 .. m - 1 /\ i % k \in 0 .. k - 1
<1>1. k # 0
  OBVIOUS
<1>2. i \div k \in Nat /\ i % k \in 0 .. k - 1 /\ i = k * (i \div k) + (i % k)
  BY <1>1
<1> DEFINE a == i \div k
<1>3. a \in Nat /\ k * a <= i
  BY <1>2
<1> HIDE DEF a
<1>4. ~(a >= m)
  <2> SUFFICES ASSUME a >= m PROVE FALSE
    OBVIOUS
  <2>1. k * a >= k * m
    BY <1>3
  <2> QED
    BY <1>3, <2>1
<1> QED
  BY <1>2, <1>3, <1>4 DEF a

\* A cell of row a and column b is one of the m rows of k.
LEMMA CellBound ==
  ASSUME NEW m \in Nat, NEW k \in Nat, NEW a \in 0 .. m - 1, NEW b \in 0 .. k - 1
  PROVE  a * k + b \in 0 .. m * k - 1
<1>1. a * k \in Nat /\ m * k \in Nat /\ (a + 1) * k = a * k + k
  OBVIOUS
<1>2. (a + 1) * k <= m * k
  OBVIOUS
<1> QED
  BY <1>1, <1>2

-----------------------------------------------------------------------------
(* The decoder, for any bytes *)

LEMMA ElementOf ==
  ASSUME NEW S, NEW s \in Seq(S), NEW i \in DOMAIN s
  PROVE  s[i] \in S
OBVIOUS

LEMMA PowersType == ASSUME NEW n \in Nat PROVE 2 ^ n \in Nat \ {0}
<1>1. IsFiniteSet(1 .. n) /\ Cardinality(1 .. n) = n
  BY IntervalSize
<1>2. IsFiniteSet(SUBSET (1 .. n)) /\ Cardinality(SUBSET (1 .. n)) = 2 ^ n
  BY <1>1, FS_SUBSET
<1>3. {} \in SUBSET (1 .. n)
  OBVIOUS
<1>4. Cardinality(SUBSET (1 .. n)) # 0
  BY <1>2, <1>3, FS_EmptySet
<1> QED
  BY <1>2, <1>4, FS_CardinalityType

Reader == [pos : Nat \ {0}, buf : Seq({0, 1})]

IsData(data) == Len(data) \in Nat /\ \A k \in 1 .. Len(data) : data[k] \in Nat

LEMMA JpegConstants ==
  /\ ByteBits \in Nat /\ ByteBits > 0 /\ Prefetch \in Nat
  /\ MaxLen \in Nat /\ MaxLen > 0 /\ Coefs \in Nat /\ Coefs > 0
  /\ FF \in Nat
<1>1. 2 ^ ByteBits \in Nat \ {0}
  BY PowersType, JpegAssumption DEF JpegAssumption
<1> QED
  BY <1>1, JpegAssumption DEF JpegAssumption, FF

LEMMA JpegNumbers ==
  /\ ByteBits = 8 /\ MaxLen = 16 /\ Coefs = 64 /\ FF = 255
  /\ Prefetch \in Nat /\ Prefetch >= 16
<1>1. 2 ^ 8 = 256
  OBVIOUS
<1> QED
  BY <1>1, BaselineAssumption, JpegAssumption DEF BaselineAssumption, JpegAssumption, FF

LEMMA BitsOfType == ASSUME NEW b \in Nat PROVE BitsOf(b) \in Seq({0, 1})
<1>1. ASSUME NEW k \in 1 .. ByteBits PROVE (b \div 2 ^ (ByteBits - k)) % 2 \in {0, 1}
  <2>1. ByteBits - k \in Nat
    BY JpegConstants
  <2>2. 2 ^ (ByteBits - k) \in Nat \ {0}
    BY <2>1, PowersType
  <2> DEFINE z == 2 ^ (ByteBits - k)
  <2> HIDE DEF z
  <2>3. b \div z \in Nat
    BY <2>2 DEF z
  <2>4. (b \div z) % 2 \in {0, 1}
    BY <2>3
  <2> QED
    BY <2>4 DEF z
<1>2. BitsOf(b) \in [1 .. ByteBits -> {0, 1}]
  BY <1>1 DEF BitsOf
<1> QED
  BY <1>2, JpegConstants

\* A value is made bit by bit.
LEMMA ValueRuns ==
  ASSUME NEW s \in Seq({0, 1})
  PROVE  \E a \in [0 .. Len(s) -> Nat] :
           /\ a[0] = 0 /\ a[Len(s)] = Value(s)
           /\ \A k \in 1 .. Len(s) : a[k] = 2 * a[k - 1] + s[k]
<1> DEFINE n == Len(s)
           Def(a) == [k \in 0 .. n |-> IF k = 0 THEN 0 ELSE 2 * a[k - 1] + s[k]]
           F == [x \in Nat \X (1 .. n) |-> 2 * x[1] + s[x[2]]]
           A == CHOOSE a : a = Def(a)
<1>1. n \in Nat /\ \A k \in 1 .. n : s[k] \in {0, 1}
  OBVIOUS
<1>2. Value(s) = A[n]
  BY DEF Value, Each, A, n
<1> HIDE DEF n
<1>3. F \in [Nat \X (1 .. n) -> Nat]
  BY <1>1
<1>4. PICK a : IsRun(a, Nat, 0, n, F)
  BY <1>1, <1>3, LoopRuns
<1>5. a = Def(a)
  <2>1. ASSUME NEW k \in 1 .. n PROVE <<a[k - 1], k>> \in Nat \X (1 .. n)
    <3>1. k - 1 \in 0 .. n
      BY <1>1
    <3> QED
      BY <1>4, <3>1 DEF IsRun
  <2>2. ASSUME NEW k \in 1 .. n PROVE a[k] = 2 * a[k - 1] + s[k]
    BY <1>4, <2>1 DEF IsRun
  <2> QED
    BY <1>1, <1>4, <2>2 DEF IsRun
<1>6. A = Def(A)
  BY <1>5
<1> HIDE DEF A
<1>7. A[0] = 0 /\ \A k \in 1 .. n : A[k] = 2 * A[k - 1] + s[k]
  BY <1>1, <1>6
<1>8. ASSUME NEW k \in 1 .. n, A[k - 1] \in Nat PROVE A[k] \in Nat
  <2>1. s[k] \in Nat /\ A[k] = 2 * A[k - 1] + s[k]
    BY <1>1, <1>7
  <2> QED
    BY <1>8, <2>1
<1>9. \A k \in 0 .. n : A[k] \in Nat
  <2>1. A[0] \in Nat
    BY <1>7
  <2> QED
    BY <1>1, <1>8, <2>1, LoopStays
<1>10. A \in [0 .. n -> Nat]
  BY <1>6, <1>9
<1> QED
  BY <1>2, <1>7, <1>10 DEF n

\* A value of bits is a natural number.
LEMMA ValueType ==
  ASSUME NEW s \in Seq({0, 1})
  PROVE  Value(s) \in Nat /\ (Len(s) = 1 => Value(s) = s[1])
<1>1. PICK a \in [0 .. Len(s) -> Nat] :
        /\ a[0] = 0 /\ a[Len(s)] = Value(s)
        /\ \A k \in 1 .. Len(s) : a[k] = 2 * a[k - 1] + s[k]
  BY ValueRuns
<1>2. Len(s) \in 0 .. Len(s) /\ \A k \in 1 .. Len(s) : s[k] \in {0, 1}
  OBVIOUS
<1>3. ASSUME Len(s) = 1 PROVE Value(s) = s[1]
  <2>2. 1 \in 1 .. Len(s) /\ 1 - 1 = 0
    BY <1>3
  <2>1. s[1] \in {0, 1}
    BY <1>2, <2>2
  <2>3. a[1] = 2 * a[0] + s[1] /\ a[1] = Value(s)
    BY <1>1, <1>3, <2>2
  <2> QED
    BY <1>1, <2>1, <2>3
<1> QED
  BY <1>1, <1>2, <1>3

LEMMA FillByteType ==
  ASSUME NEW data, IsData(data), NEW r \in Reader
  PROVE  FillByte(data, r) \in Reader
<1>1. r.pos \in Nat \ {0} /\ r.buf \in Seq({0, 1})
  BY DEF Reader
<1>2. BitsOf(FF) \in Seq({0, 1})
  BY BitsOfType, JpegConstants
<1>3. CASE Len(r.buf) > Prefetch \/ r.pos > Len(data)
  BY <1>3 DEF FillByte
<1>4. CASE ~(Len(r.buf) > Prefetch \/ r.pos > Len(data))
  <2> DEFINE byte == data[r.pos]
             more == r.buf \o BitsOf(byte)
             full == r.buf \o BitsOf(FF)
  <2>1. byte \in Nat
    <3>1. Len(data) \in Nat /\ \A k \in 1 .. Len(data) : data[k] \in Nat
      BY DEF IsData
    <3>2. r.pos \in 1 .. Len(data)
      BY <1>1, <1>4, <3>1
    <3> QED
      BY <3>1, <3>2
  <2>2. more \in Seq({0, 1}) /\ full \in Seq({0, 1})
    <3>1. BitsOf(byte) \in Seq({0, 1})
      BY <2>1, BitsOfType
    <3> HIDE DEF byte
    <3> QED
      BY <1>1, <1>2, <3>1
  <2>3. FillByte(data, r) \in
          {r, [r EXCEPT !.pos = @ + 1], [r EXCEPT !.pos = @ + 1, !.buf = more],
              [r EXCEPT !.pos = @ + 2, !.buf = full]}
    BY <1>4 DEF FillByte
  <2> HIDE DEF more, full
  <2>4. \A m \in Nat \ {0}, b \in Seq({0, 1}) :
          /\ [r EXCEPT !.pos = m] \in Reader
          /\ [r EXCEPT !.pos = m, !.buf = b] \in Reader
    BY <1>1 DEF Reader
  <2>5. r.pos + 1 \in Nat \ {0} /\ r.pos + 2 \in Nat \ {0}
    BY <1>1
  <2> QED
    BY <2>2, <2>3, <2>4, <2>5
<1> QED
  BY <1>3, <1>4

\* Filling goes on byte after byte.
FillRun(a, n, data, r) ==
  /\ n = 1 + Prefetch \div ByteBits /\ n \in Nat /\ a \in [0 .. n -> Reader]
  /\ a[0] = r /\ \A k \in 1 .. n : a[k] = FillByte(data, a[k - 1])
  /\ Fill(data, r) = a[n]

LEMMA FillRuns ==
  ASSUME NEW data, IsData(data), NEW r \in Reader
  PROVE  \E n \in Nat : \E a : FillRun(a, n, data, r)
<1> DEFINE n == 1 + Prefetch \div ByteBits
           T == Reader
           Def(a) == [k \in 0 .. n |-> IF k = 0 THEN r ELSE FillByte(data, a[k - 1])]
           F == [x \in T \X (1 .. n) |-> FillByte(data, x[1])]
           A == CHOOSE a : a = Def(a)
<1>1. n \in Nat
  <2>1. Prefetch \div ByteBits \in Nat
    BY JpegConstants
  <2> QED
    BY <2>1
<1>2. Fill(data, r) = A[n]
  BY DEF Fill, Loop, A, n
<1> HIDE DEF n
<1>3. \A x \in T : FillByte(data, x) \in T
  BY FillByteType
<1>4. r \in T
  OBVIOUS
<1> HIDE DEF T
<1>5. \E a \in [0 .. n -> T] : a = Def(a)
  <2>1. F \in [T \X (1 .. n) -> T]
    BY <1>3
  <2>2. PICK a : IsRun(a, T, r, n, F)
    BY <1>1, <1>4, <2>1, LoopRuns
  <2>3. ASSUME NEW k \in 1 .. n PROVE a[k] = FillByte(data, a[k - 1])
    <3>1. k - 1 \in 0 .. n
      BY <1>1
    <3>2. <<a[k - 1], k>> \in T \X (1 .. n)
      BY <2>2, <3>1 DEF IsRun
    <3> QED
      BY <2>2, <3>2 DEF IsRun
  <2> QED
    BY <1>1, <2>2, <2>3 DEF IsRun
<1>6. A = Def(A)
  BY <1>5
<1> HIDE DEF A
<1>7. A[0] = r /\ \A k \in 1 .. n : A[k] = FillByte(data, A[k - 1])
  BY <1>1, <1>6
<1>8. \A k \in 0 .. n : A[k] \in T
  BY <1>1, <1>4, <1>3, <1>7, LoopStays
<1>9. A \in [0 .. n -> T]
  BY <1>6, <1>8
<1>10. FillRun(A, n, data, r)
  BY <1>1, <1>2, <1>7, <1>9 DEF FillRun, T, n
<1> QED
  BY <1>1, <1>10

LEMMA FillType ==
  ASSUME NEW data, IsData(data), NEW r \in Reader
  PROVE  Fill(data, r) \in Reader
<1>1. PICK n \in Nat : \E x : FillRun(x, n, data, r)
  BY FillRuns
<1>2. PICK a : FillRun(a, n, data, r)
  BY <1>1
<1>3. n \in 0 .. n /\ a \in [0 .. n -> Reader] /\ Fill(data, r) = a[n]
  BY <1>2 DEF FillRun
<1> QED
  BY <1>3

\* What bs_get takes, and leaves.
LEMMA GetType ==
  ASSUME NEW data, IsData(data), NEW r \in Reader, NEW n \in Nat
  PROVE  /\ Get(data, r, n).ok \in BOOLEAN /\ Get(data, r, n).val \in Nat
         /\ Get(data, r, n).r \in Reader
         /\ n = 1 => Get(data, r, n).val \in {0, 1}
<1> DEFINE f == IF Len(r.buf) < n THEN Fill(data, r) ELSE r
<1>1. f \in Reader
  BY FillType
<1>2. Get(data, r, n) = Taken(f, n)
  BY DEF Get
<1> HIDE DEF f
<1>3. f.pos \in Nat \ {0} /\ f.buf \in Seq({0, 1})
  BY <1>1 DEF Reader
<1>4. CASE Len(f.buf) < n
  BY <1>1, <1>2, <1>4 DEF Taken
<1>5. CASE ~(Len(f.buf) < n)
  <2> DEFINE s == SubSeq(f.buf, 1, n)
             t == SubSeq(f.buf, n + 1, Len(f.buf))
  <2>1. s \in Seq({0, 1}) /\ t \in Seq({0, 1})
    BY <1>3, <1>5
  <2>2. Taken(f, n) = [ok |-> TRUE, val |-> Value(s), r |-> [f EXCEPT !.buf = t]]
    BY <1>5 DEF Taken
  <2>3. [f EXCEPT !.buf = t] \in Reader
    BY <1>1, <2>1 DEF Reader
  <2>4. Value(s) \in Nat
    BY <2>1, ValueType
  <2>5. n = 1 => Value(s) \in {0, 1}
    <3> SUFFICES ASSUME n = 1 PROVE Value(s) \in {0, 1}
      OBVIOUS
    <3>1. Len(s) = 1 /\ s[1] \in {0, 1}
      BY <1>3, <1>5, <2>1
    <3> QED
      BY <2>1, <3>1, ValueType
  <2> HIDE DEF s, t
  <2> QED
    BY <1>2, <2>2, <2>3, <2>4, <2>5
<1> QED
  BY <1>4, <1>5

-----------------------------------------------------------------------------
(* Huffman tables *)

\* Where huff_decode finds a code of length len, the symbol is in the table; what
\* it passes over does not fall below the codes of the next length.
Proper(ht) ==
  /\ ht.min[1] = 0
  /\ \A len \in 1 .. MaxLen, code \in Nat :
       code >= ht.min[len] /\ code <= ht.max[len]
         => ht.ptr[len] + code - ht.min[len] + 1 \in DOMAIN ht.symbols
  /\ \A len \in 1 .. MaxLen - 1, code \in Nat :
       code >= ht.min[len] /\ code > ht.max[len] => 2 * code >= ht.min[len + 1]

Codes == [1 .. MaxLen -> Int]

Tables ==
  {ht \in [min : Codes, max : Codes, ptr : Codes, symbols : Seq(0 .. 255)] : Proper(ht)}

\* One bit of a code.  The states in between: a symbol that was found is at the
\* place of its code.
HuffStep(data, ht, x, len) ==
  IF x.go THEN HuffBit(ht, x, len, Get(data, x.r, 1)) ELSE x

Place(ht, len, code) == ht.ptr[len] + code - ht.min[len] + 1

SymbolsOf(ht) ==
  {0} \cup {ht.symbols[Place(ht, len, code)] : len \in 1 .. MaxLen, code \in Nat}

HuffState(ht) ==
  [go : BOOLEAN, ok : BOOLEAN, code : Nat, sym : SymbolsOf(ht), r : Reader]

LEMMA HuffBitIs ==
  ASSUME NEW ht \in Tables, NEW x \in HuffState(ht), x.go, NEW len \in 1 .. MaxLen,
         NEW g, g.ok \in BOOLEAN, g.r \in Reader, g.val \in {0, 1},
         NEW y, y = HuffBit(ht, x, len, g),
         NEW code, code = 2 * x.code + g.val
  PROVE  /\ code \in Nat /\ y \in HuffState(ht)
         /\ y.go => y.code = code /\ y.sym = x.sym /\ code > ht.max[len]
         /\ \/ y.sym = x.sym
            \/ y.sym = ht.symbols[Place(ht, len, code)] /\ code <= ht.max[len]
<1>1. ht.max \in Codes
  BY DEF Tables
<1>2. ht.max[len] \in Int
  BY <1>1 DEF Codes
<1>3. /\ x.go \in BOOLEAN /\ x.ok \in BOOLEAN /\ x.code \in Nat
      /\ x.sym \in SymbolsOf(ht) /\ x.r \in Reader
  BY DEF HuffState
<1>4. code \in Nat
  BY <1>3
<1>5. ht.symbols[Place(ht, len, code)] \in SymbolsOf(ht)
  BY <1>4 DEF SymbolsOf
<1>6. CASE ~g.ok
  <2>1. y = [x EXCEPT !.go = FALSE, !.r = g.r]
    BY <1>6 DEF HuffBit
  <2> QED
    BY <1>3, <1>4, <2>1 DEF HuffState
<1>7. CASE g.ok /\ code > ht.max[len]
  <2>1. y = [x EXCEPT !.code = code, !.r = g.r]
    BY <1>7 DEF HuffBit
  <2> QED
    BY <1>3, <1>4, <1>7, <2>1 DEF HuffState
<1>8. CASE g.ok /\ ~(code > ht.max[len])
  <2>1. y = [x EXCEPT !.go = FALSE, !.ok = TRUE, !.r = g.r,
                      !.sym = ht.symbols[Place(ht, len, code)]]
    BY <1>8 DEF HuffBit, Place
  <2>2. code <= ht.max[len]
    BY <1>2, <1>4, <1>8
  <2> QED
    BY <1>3, <1>4, <1>5, <2>1, <2>2 DEF HuffState
<1> QED
  BY <1>6, <1>7, <1>8

LEMMA HuffStepType ==
  ASSUME NEW data, IsData(data), NEW ht \in Tables, NEW x \in HuffState(ht),
         NEW len \in 1 .. MaxLen
  PROVE  HuffStep(data, ht, x, len) \in HuffState(ht)
<1>1. CASE ~x.go
  BY <1>1 DEF HuffStep
<1>2. CASE x.go
  <2> DEFINE g == Get(data, x.r, 1)
  <2>1. x.r \in Reader /\ 1 \in Nat
    BY DEF HuffState
  <2>2. g.ok \in BOOLEAN /\ g.r \in Reader /\ g.val \in {0, 1}
    BY <2>1, GetType
  <2>3. HuffStep(data, ht, x, len) = HuffBit(ht, x, len, g)
    BY <1>2 DEF HuffStep
  <2> HIDE DEF g
  <2> QED
    BY <1>2, <2>2, <2>3, HuffBitIs
<1> QED
  BY <1>1, <1>2

\* For any data and any proper table, huff_decode never looks past the symbols of
\* the table, and leaves the reader in order.
THEOREM HuffStaysInTable ==
  ASSUME NEW data, IsData(data), NEW r \in Reader, NEW ht \in Tables
  PROVE  /\ HuffDecode(data, r, ht).ok \in BOOLEAN
         /\ HuffDecode(data, r, ht).sym \in 0 .. 255
         /\ HuffDecode(data, r, ht).r \in Reader
<1> DEFINE n == MaxLen
           T == HuffState(ht)
           start == [go |-> TRUE, ok |-> FALSE, code |-> 0, sym |-> 0, r |-> r]
           Def(a) == [k \in 0 .. n |->
                        IF k = 0 THEN start ELSE HuffStep(data, ht, a[k - 1], k)]
           F == [x \in T \X (1 .. n) |-> HuffStep(data, ht, x[1], x[2])]
           A == CHOOSE a : a = Def(a)
<1>1. n \in Nat /\ n > 0
  BY JpegConstants
<1>2. start \in T
  BY DEF HuffState, SymbolsOf
<1>3. \A x \in T, k \in 1 .. n : HuffStep(data, ht, x, k) \in T
  BY HuffStepType
<1> HIDE DEF T
<1>4. \E a \in [0 .. n -> T] : a = Def(a)
  <2>1. F \in [T \X (1 .. n) -> T]
    BY <1>3
  <2>2. PICK a : IsRun(a, T, start, n, F)
    BY <1>1, <1>2, <2>1, LoopRuns
  <2>3. ASSUME NEW k \in 1 .. n PROVE a[k] = HuffStep(data, ht, a[k - 1], k)
    <3>1. k - 1 \in 0 .. n
      BY <1>1
    <3>2. <<a[k - 1], k>> \in T \X (1 .. n)
      BY <2>2, <3>1 DEF IsRun
    <3> QED
      BY <2>2, <3>2 DEF IsRun
  <2> QED
    BY <1>1, <2>2, <2>3 DEF IsRun
<1>5. A = Def(A)
  BY <1>4
<1>6. HuffDecode(data, r, ht) = A[n]
  BY DEF HuffDecode, Loop, HuffStep
<1> HIDE DEF A, start
<1>7. A[0] = start /\ \A k \in 1 .. n : A[k] = HuffStep(data, ht, A[k - 1], k)
  BY <1>1, <1>5
<1>8. \A k \in 0 .. n : A[k] \in T
  BY <1>1, <1>2, <1>3, <1>7, LoopStays
<1>9. /\ ht.min \in Codes /\ ht.symbols \in Seq(0 .. 255) /\ Proper(ht)
  BY DEF Tables
<1> DEFINE Good(k) == /\ A[k].sym \in 0 .. 255
                      /\ A[k].go /\ k < n => 2 * A[k].code >= ht.min[k + 1]
           S == {k \in Nat : k <= n => Good(k)}
<1>10. 0 \in S
  <2>1. ht.min[1] = 0
    BY <1>9 DEF Proper
  <2> QED
    BY <1>7, <2>1 DEF start
<1>11. ASSUME NEW k \in Nat, k \in S PROVE k + 1 \in S
  <2> SUFFICES ASSUME k + 1 <= n PROVE Good(k + 1)
    <3>1. k + 1 \in Nat
      OBVIOUS
    <3> QED
      BY <3>1, Zenon
  <2>1. k \in 0 .. n /\ k + 1 \in 1 .. n /\ (k + 1) - 1 = k /\ k < n
    BY <1>1
  <2>2. A[k] \in T /\ A[k + 1] = HuffStep(data, ht, A[k], k + 1) /\ Good(k)
    BY <1>7, <1>8, <1>11, <2>1
  <2>3. ASSUME NEW x, NEW y, x = A[k], y = A[k + 1]
        PROVE  /\ y.sym \in 0 .. 255
               /\ y.go /\ k + 1 < n => 2 * y.code >= ht.min[(k + 1) + 1]
    <3>1. /\ x \in HuffState(ht) /\ y = HuffStep(data, ht, x, k + 1)
          /\ x.sym \in 0 .. 255 /\ (x.go => 2 * x.code >= ht.min[k + 1])
      BY <2>1, <2>2, <2>3 DEF T
    <3>2. x.r \in Reader /\ 1 \in Nat /\ x.code \in Nat
      BY <3>1 DEF HuffState
    <3>3. CASE ~x.go
      BY <3>1, <3>3 DEF HuffStep
    <3>4. CASE x.go
      <4>1. PICK g : g = Get(data, x.r, 1)
        OBVIOUS
      <4>2. g.ok \in BOOLEAN /\ g.r \in Reader /\ g.val \in {0, 1}
        BY <3>2, <4>1, GetType
      <4>3. y = HuffBit(ht, x, k + 1, g)
        BY <3>1, <3>4, <4>1 DEF HuffStep
      <4>4. PICK code : code = 2 * x.code + g.val
        OBVIOUS
      <4>5. /\ code \in Nat
            /\ y.go => y.code = code /\ y.sym = x.sym /\ code > ht.max[k + 1]
            /\ \/ y.sym = x.sym
               \/ /\ y.sym = ht.symbols[Place(ht, k + 1, code)]
                  /\ code <= ht.max[k + 1]
        BY <2>1, <3>1, <3>4, <4>2, <4>3, <4>4, HuffBitIs
      <4>6. code >= ht.min[k + 1]
        <5>1. ht.min[k + 1] \in Int
          BY <1>9, <2>1 DEF Codes
        <5> QED
          BY <3>1, <3>2, <3>4, <4>2, <4>4, <5>1
      <4>7. y.sym \in 0 .. 255
        <5> SUFFICES ASSUME y.sym = ht.symbols[Place(ht, k + 1, code)],
                            code <= ht.max[k + 1]
                     PROVE  y.sym \in 0 .. 255
          BY <3>1, <4>5
        <5>1. Place(ht, k + 1, code) \in DOMAIN ht.symbols
          BY <1>9, <2>1, <4>5, <4>6 DEF Proper, Place
        <5> QED
          BY <1>9, <5>1, ElementOf
      <4>8. y.go /\ k + 1 < n => 2 * y.code >= ht.min[(k + 1) + 1]
        <5> SUFFICES ASSUME y.go, k + 1 < n PROVE 2 * y.code >= ht.min[(k + 1) + 1]
          OBVIOUS
        <5>1. k + 1 \in 1 .. MaxLen - 1
          BY <1>1, <2>1
        <5> QED
          BY <1>9, <4>5, <4>6, <5>1 DEF Proper
      <4> QED
        BY <4>7, <4>8
    <3> QED
      BY <3>3, <3>4
  <2> QED
    BY <2>3
<1> HIDE DEF S
<1>12. n \in S
  BY <1>1, <1>10, <1>11, Induction
<1>13. A[n] \in T /\ A[n].sym \in 0 .. 255
  BY <1>1, <1>8, <1>12 DEF S
<1> QED
  BY <1>6, <1>13 DEF T, HuffState

\* A function on 1 .. n that is defined from 1 on.
LEMMA Chain ==
  ASSUME NEW n \in Nat, n > 0, NEW G \in [Nat \X (1 .. n) -> Nat]
  PROVE  \E f \in [1 .. n -> Nat] :
           f[1] = 0 /\ \A k \in 2 .. n : f[k] = G[<<f[k - 1], k - 1>>]
<1>1. PICK a : IsRun(a, Nat, 0, n, G)
  BY LoopRuns
<1> DEFINE f == [k \in 1 .. n |-> a[k - 1]]
<1>2. \A k \in 1 .. n : k - 1 \in 0 .. n /\ a[k - 1] \in Nat
  BY <1>1 DEF IsRun
<1>3. f \in [1 .. n -> Nat] /\ f[1] = 0
  BY <1>1, <1>2 DEF IsRun
<1>4. ASSUME NEW k \in 2 .. n PROVE f[k] = G[<<f[k - 1], k - 1>>]
  <2>1. k - 1 \in 1 .. n
    OBVIOUS
  <2>2. f[k] = a[k - 1] /\ f[k - 1] = a[(k - 1) - 1]
    BY <2>1
  <2> QED
    BY <1>1, <2>1, <2>2 DEF IsRun
<1> HIDE DEF f
<1> QED
  BY <1>3, <1>4

LEMMA SumIs ==
  ASSUME NEW counts \in [1 .. MaxLen -> Nat]
  PROVE  \E a \in [0 .. MaxLen -> Nat] :
           /\ a[0] = 0 /\ \A k \in 1 .. MaxLen : a[k] = a[k - 1] + counts[k]
           /\ Sum(counts) = a[MaxLen]
<1> DEFINE n == Len(counts)
           Def(a) == [k \in 0 .. n |-> IF k = 0 THEN 0 ELSE a[k - 1] + counts[k]]
           F == [x \in Nat \X (1 .. n) |-> x[1] + counts[x[2]]]
           A == CHOOSE a : a = Def(a)
<1>1. n = MaxLen /\ n \in Nat /\ \A k \in 1 .. n : counts[k] \in Nat
  BY JpegConstants
<1> HIDE DEF n
<1>2. F \in [Nat \X (1 .. n) -> Nat]
  BY <1>1
<1>3. PICK a : IsRun(a, Nat, 0, n, F)
  BY <1>1, <1>2, LoopRuns
<1>4. ASSUME NEW k \in 1 .. n PROVE a[k] = a[k - 1] + counts[k]
  <2>1. k - 1 \in 0 .. n
    BY <1>1
  <2>2. <<a[k - 1], k>> \in Nat \X (1 .. n)
    BY <1>3, <2>1 DEF IsRun
  <2> QED
    BY <1>3, <2>2 DEF IsRun
<1>5. a = Def(a)
  BY <1>1, <1>3, <1>4 DEF IsRun
<1>6. A = Def(A)
  BY <1>5
<1>7. Sum(counts) = A[n]
  BY DEF Sum, Each, n
<1> HIDE DEF A
<1>8. A[0] = 0 /\ \A k \in 1 .. n : A[k] = A[k - 1] + counts[k]
  BY <1>1, <1>6
<1>9. ASSUME NEW k \in 1 .. n, A[k - 1] \in Nat PROVE A[k] \in Nat
  BY <1>1, <1>8, <1>9
<1>10. \A k \in 0 .. n : A[k] \in Nat
  <2>1. A[0] \in Nat
    BY <1>8
  <2> QED
    BY <1>1, <1>9, <2>1, LoopStays
<1>11. A \in [0 .. n -> Nat]
  BY <1>6, <1>10
<1> QED
  BY <1>1, <1>7, <1>8, <1>11

\* A table built from counts and as many symbols is proper.
LEMMA BuildHuffType ==
  ASSUME NEW counts \in [1 .. MaxLen -> Nat], NEW symbols \in Seq(0 .. 255),
         Len(symbols) = Sum(counts)
  PROVE  BuildHuff(counts, symbols) \in Tables
<1> DEFINE n == MaxLen
           CDef(f) == [len \in 1 .. n |->
                         IF len = 1 THEN 0 ELSE 2 * (f[len - 1] + counts[len - 1])]
           BDef(f) == [len \in 1 .. n |->
                         IF len = 1 THEN 0 ELSE f[len - 1] + counts[len - 1]]
           code == CHOOSE f : f = CDef(f)
           before == CHOOSE f : f = BDef(f)
           ht == BuildHuff(counts, symbols)
<1>1. n \in Nat /\ n > 0 /\ \A k \in 1 .. n : counts[k] \in Nat
  BY JpegConstants
<1>2. ht = [min |-> [len \in 1 .. MaxLen |-> code[len]],
            max |-> [len \in 1 .. MaxLen |->
                       IF counts[len] = 0 THEN -1 ELSE code[len] + counts[len] - 1],
            ptr |-> [len \in 1 .. MaxLen |-> before[len]],
            symbols |-> symbols]
  BY DEF BuildHuff
<1>3. code = CDef(code)
  <2> DEFINE G == [x \in Nat \X (1 .. n) |-> 2 * (x[1] + counts[x[2]])]
  <2>1. G \in [Nat \X (1 .. n) -> Nat]
    BY <1>1
  <2>2. PICK f \in [1 .. n -> Nat] :
               f[1] = 0 /\ \A k \in 2 .. n : f[k] = G[<<f[k - 1], k - 1>>]
    BY <1>1, <2>1, Chain
  <2>3. ASSUME NEW k \in 2 .. n PROVE f[k] = 2 * (f[k - 1] + counts[k - 1])
    <3>1. k - 1 \in 1 .. n
      BY <1>1
    <3>2. <<f[k - 1], k - 1>> \in Nat \X (1 .. n)
      BY <2>2, <3>1
    <3> QED
      BY <2>2, <3>2
  <2>4. f = CDef(f)
    BY <1>1, <2>2, <2>3
  <2> QED
    BY <2>4
<1>4. before = BDef(before)
  <2> DEFINE G == [x \in Nat \X (1 .. n) |-> x[1] + counts[x[2]]]
  <2>1. G \in [Nat \X (1 .. n) -> Nat]
    BY <1>1
  <2>2. PICK f \in [1 .. n -> Nat] :
               f[1] = 0 /\ \A k \in 2 .. n : f[k] = G[<<f[k - 1], k - 1>>]
    BY <1>1, <2>1, Chain
  <2>3. ASSUME NEW k \in 2 .. n PROVE f[k] = f[k - 1] + counts[k - 1]
    <3>1. k - 1 \in 1 .. n
      BY <1>1
    <3>2. <<f[k - 1], k - 1>> \in Nat \X (1 .. n)
      BY <2>2, <3>1
    <3> QED
      BY <2>2, <3>2
  <2>4. f = BDef(f)
    BY <1>1, <2>2, <2>3
  <2> QED
    BY <2>4
<1> HIDE DEF code, before, ht
<1>5. code[1] = 0 /\ \A k \in 2 .. n : code[k] = 2 * (code[k - 1] + counts[k - 1])
  BY <1>1, <1>3
<1>6. before[1] = 0 /\ \A k \in 2 .. n : before[k] = before[k - 1] + counts[k - 1]
  BY <1>1, <1>4
<1>7. PICK a \in [0 .. n -> Nat] :
        /\ a[0] = 0 /\ \A k \in 1 .. n : a[k] = a[k - 1] + counts[k]
        /\ Len(symbols) = a[n]
  BY SumIs
<1>8. \A k \in 1 .. n : code[k] \in Nat /\ before[k] = a[k - 1] /\ a[k] <= a[n]
  <2> DEFINE S == {k \in Nat : k + 1 <= n => code[k + 1] \in Nat /\ before[k + 1] = a[k]}
             U == {k \in Nat : k <= n => a[n - k] <= a[n]}
  <2>1. 0 \in S /\ 0 \in U
    BY <1>1, <1>5, <1>6, <1>7
  <2>2. ASSUME NEW k \in Nat, k \in S PROVE k + 1 \in S
    <3> SUFFICES ASSUME (k + 1) + 1 <= n
                 PROVE  code[(k + 1) + 1] \in Nat /\ before[(k + 1) + 1] = a[k + 1]
      OBVIOUS
    <3>1. (k + 1) + 1 \in 2 .. n /\ k + 1 \in 1 .. n /\ ((k + 1) + 1) - 1 = k + 1
          /\ (k + 1) - 1 = k
      BY <1>1
    <3>2. code[k + 1] \in Nat /\ before[k + 1] = a[k]
      BY <2>2, <3>1
    <3> HIDE DEF S
    <3>3. code[(k + 1) + 1] = 2 * (code[k + 1] + counts[k + 1])
      BY <1>5, <3>1
    <3>4. before[(k + 1) + 1] = before[k + 1] + counts[k + 1]
      BY <1>6, <3>1
    <3>5. a[k + 1] = a[k] + counts[k + 1]
      BY <1>7, <3>1
    <3>6. counts[k + 1] \in Nat
      BY <1>1, <3>1
    <3>7. 2 * (code[k + 1] + counts[k + 1]) \in Nat
      BY <3>2, <3>6
    <3> QED
      BY <3>2, <3>3, <3>4, <3>5, <3>7
  <2>3. ASSUME NEW k \in Nat, k \in U PROVE k + 1 \in U
    <3> SUFFICES ASSUME k + 1 <= n PROVE a[n - (k + 1)] <= a[n]
      OBVIOUS
    <3>1. n - k \in 1 .. n /\ (n - k) - 1 = n - (k + 1) /\ n - (k + 1) \in 0 .. n
      BY <1>1
    <3>2. a[n - k] <= a[n]
      <4>1. k <= n
        BY <1>1
      <4> QED
        BY <2>3, <4>1
    <3>3. a[n - k] = a[n - (k + 1)] + counts[n - k] /\ counts[n - k] \in Nat
      BY <1>1, <1>7, <3>1
    <3>4. a[n - k] \in Nat /\ a[n - (k + 1)] \in Nat /\ a[n] \in Nat
      BY <1>1, <1>7, <3>1
    <3> QED
      BY <3>2, <3>3, <3>4
  <2> HIDE DEF S, U
  <2>4. \A k \in Nat : k \in S
    BY <2>1, <2>2, Induction
  <2>5. \A k \in Nat : k \in U
    BY <2>1, <2>3, Induction
  <2>6. ASSUME NEW k \in 1 .. n
        PROVE  code[k] \in Nat /\ before[k] = a[k - 1] /\ a[k] <= a[n]
    <3>1. k - 1 \in Nat /\ (k - 1) + 1 = k /\ n - k \in Nat /\ n - (n - k) = k
      BY <1>1
    <3>2. k - 1 \in S /\ n - k \in U
      BY <2>4, <2>5, <3>1
    <3> QED
      BY <1>1, <3>1, <3>2 DEF S, U
  <2> QED
    BY <2>6
<1>9. \A k \in 1 .. n : before[k] \in Nat
  <2> TAKE k \in 1 .. n
  <2>1. k - 1 \in 0 .. n
    BY <1>1
  <2> QED
    BY <1>7, <1>8, <2>1
<1>10. ht \in [min : Codes, max : Codes, ptr : Codes, symbols : Seq(0 .. 255)]
  <2>1. code \in [1 .. n -> Nat] /\ before \in [1 .. n -> Nat]
    <3>1. code = [k \in 1 .. n |-> code[k]] /\ before = [k \in 1 .. n |-> before[k]]
      BY <1>3, <1>4
    <3> QED
      BY <1>8, <1>9, <3>1
  <2> DEFINE top == [len \in 1 .. n |-> IF counts[len] = 0 THEN -1 ELSE code[len] + counts[len] - 1]
  <2>2. top \in [1 .. n -> Int]
    <3>1. ASSUME NEW len \in 1 .. n
          PROVE  (IF counts[len] = 0 THEN -1 ELSE code[len] + counts[len] - 1) \in Int
      BY <1>1, <1>8
    <3> QED
      BY <3>1
  <2>3. ht = [min |-> code, max |-> top, ptr |-> before, symbols |-> symbols]
    BY <1>2, <2>1
  <2> HIDE DEF top
  <2> QED
    BY <2>1, <2>2, <2>3 DEF Codes
<1>11. ASSUME NEW len \in 1 .. n
       PROVE  /\ ht.min[len] = code[len] /\ ht.ptr[len] = before[len]
              /\ ht.max[len] = IF counts[len] = 0 THEN -1 ELSE code[len] + counts[len] - 1
              /\ ht.symbols = symbols /\ counts[len] \in Nat
              /\ code[len] \in Nat /\ before[len] \in Nat
  BY <1>1, <1>2, <1>8, <1>9
<1>12. ASSUME NEW len \in 1 .. n, NEW c \in Nat, c >= ht.min[len], c <= ht.max[len]
       PROVE  ht.ptr[len] + c - ht.min[len] + 1 \in DOMAIN ht.symbols
  <2>1. counts[len] # 0 /\ c >= code[len] /\ c <= code[len] + counts[len] - 1
    BY <1>11, <1>12
  <2>2. a[len] = before[len] + counts[len] /\ a[len] <= a[n]
    BY <1>7, <1>8
  <2>3. a[len] \in Nat /\ a[n] \in Nat
    BY <1>1, <1>7
  <2>4. before[len] + c - code[len] + 1 \in 1 .. a[n]
    <3>1. PICK b, d, k, x, m : /\ b = before[len] /\ d = code[len] /\ k = counts[len]
                               /\ x = a[len] /\ m = a[n]
      OBVIOUS
    <3>2. b \in Nat /\ d \in Nat /\ k \in Nat /\ x \in Nat /\ m \in Nat
      BY <1>11, <2>3, <3>1
    <3>3. k # 0 /\ c >= d /\ c <= d + k - 1 /\ x = b + k /\ x <= m
      BY <2>1, <2>2, <3>1
    <3> HIDE DEF code, before, ht, n
    <3>4. b + c - d + 1 \in 1 .. m
      BY <3>2, <3>3
    <3> QED
      BY <3>1, <3>4
  <2>5. DOMAIN symbols = 1 .. a[n]
    BY <1>7
  <2> QED
    BY <1>11, <2>4, <2>5
<1>13. ASSUME NEW len \in 1 .. n - 1, NEW c \in Nat, c >= ht.min[len], c > ht.max[len]
       PROVE  2 * c >= ht.min[len + 1]
  <2>1. len \in 1 .. n /\ len + 1 \in 2 .. n /\ len + 1 \in 1 .. n /\ (len + 1) - 1 = len
    BY <1>1
  <2>2. ht.min[len + 1] = 2 * (code[len] + counts[len])
    BY <1>5, <1>11, <2>1
  <2>3. counts[len] \in Nat /\ code[len] \in Nat /\ c >= code[len]
    BY <1>11, <1>13, <2>1
  <2>4. c >= code[len] + counts[len]
    <3>1. PICK d, k, t : d = code[len] /\ k = counts[len] /\ t = ht.max[len]
      OBVIOUS
    <3>2. d \in Nat /\ k \in Nat /\ c >= d /\ c > t
      BY <1>13, <2>3, <3>1
    <3>3. t = IF k = 0 THEN -1 ELSE d + k - 1
      BY <1>11, <2>1, <3>1
    <3>4. c >= d + k
      BY <3>2, <3>3
    <3> QED
      BY <3>1, <3>4
  <2>5. \A x, y \in Nat : c >= x + y => 2 * c >= 2 * (x + y)
    OBVIOUS
  <2> QED
    BY <2>2, <2>3, <2>4, <2>5
<1>14. ht.min[1] = 0
  <2>1. 1 \in 1 .. n
    BY <1>1
  <2>2. ht.min[1] = code[1]
    BY <1>11, <2>1
  <2> QED
    BY <1>5, <2>2
<1>15. Proper(ht)
  BY <1>12, <1>13, <1>14 DEF Proper
<1> QED
  BY <1>10, <1>15 DEF Tables, ht

LEMMA NoTableType == NoTable \in Tables
<1>1. MaxLen \in Nat /\ MaxLen > 0 /\ 0 \in Int
  BY JpegConstants
<1>2. <<0>> \in Seq(0 .. 255) /\ DOMAIN <<0>> = 1 .. 1
  OBVIOUS
<1> DEFINE zeros == [len \in 1 .. MaxLen |-> 0]
<1>3. zeros \in Codes /\ \A len \in 1 .. MaxLen : zeros[len] = 0
  BY DEF Codes
<1> HIDE DEF zeros
<1>4. NoTable = [min |-> zeros, max |-> zeros, ptr |-> zeros, symbols |-> <<0>>]
  BY DEF NoTable, zeros
<1>5. \A len \in 1 .. MaxLen - 1 : len \in 1 .. MaxLen /\ len + 1 \in 1 .. MaxLen
  BY <1>1
<1>6. Proper(NoTable)
  BY <1>1, <1>2, <1>3, <1>4, <1>5 DEF Proper
<1> QED
  BY <1>2, <1>3, <1>4, <1>6 DEF Tables

-----------------------------------------------------------------------------
(* Blocks *)

AcState == [count : Nat, go : BOOLEAN, r : Reader]

LEMMA AcSymbolType ==
  ASSUME NEW data, IsData(data), NEW s \in AcState,
         NEW h, h.ok \in BOOLEAN, h.sym \in 0 .. 255, h.r \in Reader
  PROVE  AcSymbol(data, s, h) \in AcState
<1> DEFINE run == h.sym \div 16
           size == h.sym % 16
           g == Get(data, h.r, size)
<1>1. run \in Nat /\ size \in Nat
  OBVIOUS
<1>2. g.ok \in BOOLEAN /\ g.r \in Reader
  BY <1>1, GetType
<1>3. AcSymbol(data, s, h) \in
        {[s EXCEPT !.go = FALSE, !.r = h.r], [s EXCEPT !.count = @ + 16, !.r = h.r],
         [count |-> s.count + run + 1, go |-> g.ok, r |-> g.r]}
  BY DEF AcSymbol
<1> HIDE DEF run, size, g
<1>4. s.count \in Nat /\ s.count + 16 \in Nat /\ s.count + run + 1 \in Nat
  BY <1>1 DEF AcState
<1>5. s.count \in Nat /\ s.go \in BOOLEAN /\ s.r \in Reader
  BY DEF AcState
<1>6. /\ [s EXCEPT !.go = FALSE, !.r = h.r] \in AcState
      /\ [s EXCEPT !.count = @ + 16, !.r = h.r] \in AcState
  BY <1>4, <1>5 DEF AcState
<1>7. [count |-> s.count + run + 1, go |-> g.ok, r |-> g.r] \in AcState
  BY <1>2, <1>4 DEF AcState
<1> QED
  BY <1>3, <1>6, <1>7

AcStep(data, ht, s) ==
  IF s.go /\ s.count < Coefs THEN AcSymbol(data, s, HuffDecode(data, s.r, ht)) ELSE s

LEMMA AcStepType ==
  ASSUME NEW data, IsData(data), NEW ht \in Tables, NEW s \in AcState
  PROVE  AcStep(data, ht, s) \in AcState
<1>1. s.r \in Reader
  BY DEF AcState
<1>2. AcSymbol(data, s, HuffDecode(data, s.r, ht)) \in AcState
  BY <1>1, HuffStaysInTable, AcSymbolType
<1> QED
  BY <1>2 DEF AcStep

\* The walk over the AC symbols as a run.
AcRun(A, data, ht, r) ==
  /\ A[0] = [count |-> 1, go |-> TRUE, r |-> r]
  /\ \A k \in 0 .. 64 : A[k] \in AcState
  /\ \A k \in 1 .. 64 : A[k] = AcStep(data, ht, A[k - 1])
  /\ SkipAc(data, ht, r) = A[64].r

LEMMA SkipAcRuns ==
  ASSUME NEW data, IsData(data), NEW ht \in Tables, NEW r \in Reader
  PROVE  \E A : AcRun(A, data, ht, r)
<1> DEFINE n == Coefs
           T == AcState
           start == [count |-> 1, go |-> TRUE, r |-> r]
           Def(a) == [k \in 0 .. n |-> IF k = 0 THEN start ELSE AcStep(data, ht, a[k - 1])]
           F == [x \in T \X (1 .. n) |-> AcStep(data, ht, x[1])]
           A == CHOOSE a : a = Def(a)
<1>1. n \in Nat /\ n = 64
  BY JpegConstants, JpegNumbers
<1>2. start \in T
  BY DEF AcState
<1>3. \A x \in T : AcStep(data, ht, x) \in T
  BY AcStepType
<1> HIDE DEF T
<1>4. \E a \in [0 .. n -> T] : a = Def(a)
  <2>1. F \in [T \X (1 .. n) -> T]
    BY <1>3
  <2>2. PICK a : IsRun(a, T, start, n, F)
    BY <1>1, <1>2, <2>1, LoopRuns
  <2>3. ASSUME NEW k \in 1 .. n PROVE a[k] = AcStep(data, ht, a[k - 1])
    <3>1. k - 1 \in 0 .. n
      BY <1>1
    <3>2. <<a[k - 1], k>> \in T \X (1 .. n)
      BY <2>2, <3>1 DEF IsRun
    <3> QED
      BY <2>2, <3>2 DEF IsRun
  <2>4. a = [k \in 0 .. n |-> a[k]] /\ a[0] = start /\ a \in [0 .. n -> T]
    BY <2>2 DEF IsRun
  <2>5. ASSUME NEW k \in 0 .. n
        PROVE  a[k] = IF k = 0 THEN start ELSE AcStep(data, ht, a[k - 1])
    <3>1. CASE k = 0
      BY <2>4, <3>1
    <3>2. CASE k # 0
      <4>1. k \in 1 .. n
        BY <1>1, <3>2
      <4> QED
        BY <2>3, <3>2, <4>1
    <3> QED
      BY <3>1, <3>2
  <2> HIDE DEF start
  <2>6. a = Def(a)
    BY <2>4, <2>5
  <2> QED
    BY <2>4, <2>6
<1>5. A = Def(A)
  BY <1>4
<1>6. SkipAc(data, ht, r) = A[n].r
  BY DEF SkipAc, Loop, AcStep
<1> HIDE DEF A, start
<1>7. A[0] = start /\ \A k \in 1 .. n : A[k] = AcStep(data, ht, A[k - 1])
  BY <1>1, <1>5
<1>8. \A k \in 0 .. n : A[k] \in T
  BY <1>1, <1>2, <1>3, <1>7, LoopStays
<1>9. AcRun(A, data, ht, r)
  BY <1>1, <1>6, <1>7, <1>8 DEF AcRun, T, start
<1> QED
  BY <1>9

LEMMA SkipAcType ==
  ASSUME NEW data, IsData(data), NEW ht \in Tables, NEW r \in Reader
  PROVE  SkipAc(data, ht, r) \in Reader
<1>1. PICK A : AcRun(A, data, ht, r)
  BY SkipAcRuns
<1>2. A[64] \in AcState /\ SkipAc(data, ht, r) = A[64].r
  BY <1>1 DEF AcRun
<1> QED
  BY <1>2 DEF AcState

LEMMA ExtendType == ASSUME NEW val \in Nat, NEW cat \in Nat PROVE Extend(val, cat) \in Int
<1>1. CASE cat = 0
  BY <1>1 DEF Extend
<1>2. CASE cat # 0
  <2> DEFINE z == 2 ^ cat
             y == 2 ^ (cat - 1)
  <2>1. z \in Nat
    BY PowersType
  <2>2. Extend(val, cat) = IF val < y THEN val - (z - 1) ELSE val
    BY <1>2 DEF Extend
  <2> HIDE DEF z, y
  <2> QED
    BY <2>1, <2>2
<1> QED
  BY <1>1, <1>2

\* A clamped value is a byte.
LEMMA LumaType == ASSUME NEW dc \in Int, NEW q \in Nat PROVE Luma(dc, q) \in 0 .. 255
<1> DEFINE m == dc * q
           v == CDiv(m, 8) + 128
<1>1. m \in Int
  OBVIOUS
<1> HIDE DEF m
<1>2. v \in Int
  <2>1. m \div 8 \in Int /\ (-m) \div 8 \in Int
    BY <1>1
  <2> QED
    BY <2>1 DEF CDiv
<1>3. Luma(dc, q) = IF v < 0 THEN 0 ELSE IF v > 255 THEN 255 ELSE v
  BY DEF Luma, m
<1> HIDE DEF v
<1> QED
  BY <1>2, <1>3

\* What the segments of a header amount to, and when the walk can use it.
Parses ==
  [failed : BOOLEAN, sof : BOOLEAN, sos : BOOLEAN, comps : Seq(Comp), cols : Nat,
   rows : Nat, scan : Seq(ScanComp), restart : Nat, dc : [0 .. 1 -> Tables],
   ac : [0 .. 1 -> Tables], qt : [0 .. 3 -> Nat]]

Scannable(p) ==
  p.scan # <<>> /\ \A s \in DOMAIN p.scan : p.scan[s].comp \in DOMAIN p.comps

LumaOf(p) == p.comps[p.scan[1].comp]

GridOf(p) == 0 .. (p.cols * LumaOf(p).h) * (p.rows * LumaOf(p).v) - 1

Grids(p) == UNION {[S -> 0 .. 255] : S \in SUBSET GridOf(p)}

Walk(p) ==
  [r : Reader, go : BOOLEAN, pred : [DOMAIN p.comps -> Int], grid : Grids(p)]

LEMMA DecodeBlockType ==
  ASSUME NEW data, IsData(data), NEW p \in Parses, Scannable(p), NEW d \in Walk(p),
         NEW s \in DOMAIN p.scan
  PROVE  DecodeBlock(data, p, d, s) \in Walk(p)
<1> DEFINE c == p.scan[s].comp
           dc == p.dc[p.scan[s].dc]
           ac == p.ac[p.scan[s].ac]
           h == HuffDecode(data, d.r, dc)
           g == Get(data, h.r, h.sym)
<1>1. p.scan[s] \in ScanComp
  <2>1. p.scan \in Seq(ScanComp)
    BY DEF Parses
  <2> QED
    BY <2>1, ElementOf
<1>2. p.scan[s].dc \in 0 .. 1 /\ p.scan[s].ac \in 0 .. 1
  BY <1>1 DEF ScanComp
<1>3. dc \in Tables /\ ac \in Tables
  <2>1. p.dc \in [0 .. 1 -> Tables] /\ p.ac \in [0 .. 1 -> Tables]
    BY DEF Parses
  <2> QED
    BY <1>2, <2>1
<1>4. /\ d.r \in Reader /\ d.go \in BOOLEAN
      /\ d.pred \in [DOMAIN p.comps -> Int] /\ d.grid \in Grids(p)
  BY DEF Walk
<1>5. DecodeBlock(data, p, d, s) = DcSymbol(data, ac, d, c, h)
  BY DEF DecodeBlock
<1> HIDE DEF dc, ac, c
<1>6. h.ok \in BOOLEAN /\ h.sym \in 0 .. 255 /\ h.r \in Reader
  BY <1>3, <1>4, HuffStaysInTable
<1>7. DcSymbol(data, ac, d, c, h) =
        IF ~h.ok THEN [d EXCEPT !.go = FALSE] ELSE DcValue(data, ac, d, c, h.sym, g)
  BY DEF DcSymbol
<1> HIDE DEF h
<1>8. h.sym \in Nat
  BY <1>6
<1>9. g.ok \in BOOLEAN /\ g.val \in Nat /\ g.r \in Reader
  BY <1>6, <1>8, GetType
<1> HIDE DEF g
<1>10. [d EXCEPT !.go = FALSE] \in Walk(p)
  BY <1>4 DEF Walk
<1>11. DcValue(data, ac, d, c, h.sym, g) \in Walk(p)
  <2> DEFINE e == Extend(g.val, h.sym)
             r == SkipAc(data, ac, g.r)
             pred == [x \in DOMAIN d.pred |-> d.pred[x] + (IF x = c THEN e ELSE 0)]
  <2>1. e \in Int
    BY <1>8, <1>9, ExtendType
  <2>2. r \in Reader
    BY <1>3, <1>9, SkipAcType
  <2>3. DcValue(data, ac, d, c, h.sym, g) =
          IF ~g.ok THEN [d EXCEPT !.go = FALSE] ELSE [d EXCEPT !.r = r, !.pred = pred]
    BY DEF DcValue
  <2> HIDE DEF e, r
  <2>4. pred \in [DOMAIN p.comps -> Int]
    BY <1>4, <2>1
  <2> HIDE DEF pred
  <2>5. [d EXCEPT !.r = r, !.pred = pred] \in Walk(p)
    BY <1>4, <2>2, <2>4 DEF Walk
  <2> QED
    BY <1>10, <2>3, <2>5
<1> QED
  BY <1>5, <1>7, <1>10, <1>11

\* The numbers of a header that a walk can use.
LEMMA LumaOfType ==
  ASSUME NEW p \in Parses, Scannable(p)
  PROVE  /\ 1 \in DOMAIN p.scan /\ p.scan[1].comp \in DOMAIN p.comps
         /\ LumaOf(p) \in Comp /\ LumaOf(p).h \in Nat /\ LumaOf(p).v \in Nat
         /\ p.cols \in Nat /\ p.rows \in Nat
         /\ p.cols * LumaOf(p).h \in Nat /\ p.rows * LumaOf(p).v \in Nat
<1>1. p.scan \in Seq(ScanComp) /\ p.comps \in Seq(Comp) /\ p.cols \in Nat /\ p.rows \in Nat
  BY DEF Parses
<1>2. 1 \in DOMAIN p.scan
  <2>1. p.scan # <<>>
    BY DEF Scannable
  <2> QED
    BY <1>1, <2>1
<1>3. p.scan[1].comp \in DOMAIN p.comps
  BY <1>2 DEF Scannable
<1>4. LumaOf(p) \in Comp
  BY <1>1, <1>3, ElementOf DEF LumaOf
<1>5. LumaOf(p).h \in Nat /\ LumaOf(p).v \in Nat
  BY <1>4 DEF Comp
<1>6. p.cols * LumaOf(p).h \in Nat /\ p.rows * LumaOf(p).v \in Nat
  BY <1>1, <1>5
<1> QED
  BY <1>1, <1>2, <1>3, <1>4, <1>5, <1>6

\* Where a block may be in its MCU.
Block(p) ==
  {b \in [scan : DOMAIN p.scan, bh : Nat, bv : Nat] :
     b.scan = 1 => b.bh \in 0 .. LumaOf(p).h - 1 /\ b.bv \in 0 .. LumaOf(p).v - 1}

\* A block is recorded within the grid (jpeg_dc.c:470).
LEMMA RecordType ==
  ASSUME NEW p \in Parses, Scannable(p), NEW n \in Walk(p), NEW b \in Block(p),
         NEW mcu \in 0 .. p.cols * p.rows - 1
  PROVE  Record(p, n, mcu, b) \in Walk(p)
<1> DEFINE luma == LumaOf(p)
           w == p.cols * luma.h
           y == (mcu \div p.cols) * luma.v + b.bv
           x == (mcu % p.cols) * luma.h + b.bh
           cell == y * w + x
           q == p.qt[luma.qt]
           value == Luma(n.pred[p.scan[1].comp], IF q = 0 THEN 1 ELSE q)
           grid == [i \in DOMAIN n.grid \cup {cell} |->
                      IF i = cell THEN value ELSE n.grid[i]]
<1>1. /\ 1 \in DOMAIN p.scan /\ p.scan[1].comp \in DOMAIN p.comps
      /\ luma \in Comp /\ luma.h \in Nat /\ luma.v \in Nat
      /\ p.cols \in Nat /\ p.rows \in Nat /\ w \in Nat /\ p.rows * luma.v \in Nat
  BY LumaOfType
<1>2. /\ n.r \in Reader /\ n.go \in BOOLEAN
      /\ n.pred \in [DOMAIN p.comps -> Int] /\ n.grid \in Grids(p)
  BY DEF Walk
<1>3. CASE ~n.go \/ b.scan # 1
  BY <1>3 DEF Record
<1>4. CASE ~(~n.go \/ b.scan # 1)
  <2>1. Record(p, n, mcu, b) = [n EXCEPT !.grid = grid]
    <3>1. y * w + x = ((mcu \div p.cols) * luma.v + b.bv) * (p.cols * luma.h)
                        + (mcu % p.cols) * luma.h + b.bh
      <4> DEFINE t == ((mcu \div p.cols) * luma.v + b.bv) * (p.cols * luma.h)
                 z == (mcu % p.cols) * luma.h
      <4>1. mcu \div p.cols \in Nat /\ mcu % p.cols \in Nat /\ b.bv \in Nat /\ b.bh \in Nat
        <5>1. mcu \in Nat /\ mcu < p.rows * p.cols
          BY <1>1
        <5>2. b.bv \in Nat /\ b.bh \in Nat
          BY DEF Block
        <5> DEFINE rows == p.rows
                   cols == p.cols
        <5>3. rows \in Nat /\ cols \in Nat /\ mcu < rows * cols
          BY <1>1, <5>1
        <5> HIDE DEF rows, cols
        <5>4. mcu \div cols \in 0 .. rows - 1 /\ mcu % cols \in 0 .. cols - 1
          BY <5>1, <5>3, DivMod
        <5>5. mcu \div cols \in Nat /\ mcu % cols \in Nat
          BY <5>3, <5>4
        <5> QED
          BY <5>2, <5>5 DEF cols
      <4> DEFINE u == mcu \div p.cols
                 m == mcu % p.cols
      <4> HIDE DEF u, m
      <4>2. t \in Nat /\ z \in Nat
        <5>1. u * luma.v \in Nat /\ m * luma.h \in Nat
          BY <1>1, <4>1 DEF u, m
        <5>2. u * luma.v + b.bv \in Nat
          BY <4>1, <5>1
        <5>3. (u * luma.v + b.bv) * (p.cols * luma.h) \in Nat
          BY <1>1, <5>2
        <5> QED
          BY <5>1, <5>3 DEF u, m
      <4>3. y * w + x = t + (z + b.bh)
        OBVIOUS
      <4> HIDE DEF t, z, x, y, w
      <4>4. t + (z + b.bh) = t + z + b.bh
        BY <4>1, <4>2
      <4> QED
        BY <4>3, <4>4 DEF t, z
    <3> QED
      BY <1>4, <3>1 DEF Record, LumaOf
  <2>2. b.bh \in 0 .. luma.h - 1 /\ b.bv \in 0 .. luma.v - 1
    BY <1>4 DEF Block
  <2>3. mcu \div p.cols \in 0 .. p.rows - 1 /\ mcu % p.cols \in 0 .. p.cols - 1
    <3>1. mcu \in Nat /\ mcu < p.rows * p.cols
      BY <1>1
    <3> QED
      BY <1>1, <3>1, DivMod
  <2>4. x \in 0 .. w - 1
    BY <1>1, <2>2, <2>3, CellBound
  <2>5. y \in 0 .. p.rows * luma.v - 1
    BY <1>1, <2>2, <2>3, CellBound
  <2> HIDE DEF x, y
  <2>6. cell \in 0 .. (p.rows * luma.v) * w - 1
    BY <1>1, <2>4, <2>5, CellBound
  <2>7. cell \in GridOf(p)
    <3>1. \A f, g \in Nat : f * g = g * f
      OBVIOUS
    <3> QED
      BY <1>1, <2>6, <3>1 DEF GridOf
  <2> HIDE DEF cell, w
  <2>8. value \in 0 .. 255
    <3>1. n.pred[p.scan[1].comp] \in Int
      BY <1>1, <1>2
    <3>2. luma.qt \in 0 .. 3 /\ p.qt \in [0 .. 3 -> Nat]
      BY <1>1 DEF Comp, Parses
    <3>3. (IF q = 0 THEN 1 ELSE q) \in Nat
      BY <3>2
    <3> QED
      BY <3>1, <3>3, LumaType
  <2> HIDE DEF value, luma
  <2>9. PICK S \in SUBSET GridOf(p) : n.grid \in [S -> 0 .. 255]
    BY <1>2 DEF Grids
  <2>10. grid \in [S \cup {cell} -> 0 .. 255]
    BY <2>8, <2>9
  <2>11. S \cup {cell} \in SUBSET GridOf(p)
    BY <2>7, <2>9
  <2> HIDE DEF grid
  <2>12. grid \in Grids(p)
    BY <2>10, <2>11 DEF Grids
  <2> QED
    BY <1>2, <2>1, <2>12 DEF Walk
<1> QED
  BY <1>3, <1>4

\* FlattenSeq puts one sequence after the other.
LEMMA FlattenRuns ==
  ASSUME NEW S, NEW seqs \in Seq(Seq(S))
  PROVE  \E c \in [0 .. Len(seqs) -> Seq(S)] :
           /\ c[0] = <<>> /\ \A k \in 1 .. Len(seqs) : c[k] = c[k - 1] \o seqs[k]
           /\ FlattenSeq(seqs) = c[Len(seqs)]
<1> DEFINE n == Len(seqs)
<1>1. CASE n = 0
  <2>1. FlattenSeq(seqs) = <<>>
    BY <1>1 DEF FlattenSeq
  <2> DEFINE c == [k \in 0 .. 0 |-> <<>>]
  <2>2. c \in [0 .. n -> Seq(S)] /\ c[0] = <<>> /\ 1 .. n = {}
    BY <1>1
  <2> QED
    BY <1>1, <2>1, <2>2
<1>2. CASE n # 0
  <2> DEFINE Def(f) == [i \in 1 .. n |-> IF i = 1 THEN seqs[i] ELSE f[i - 1] \o seqs[i]]
             T == Seq(S)
             F == [x \in T \X (1 .. n) |-> IF x[2] = n THEN x[1] ELSE x[1] \o seqs[x[2] + 1]]
             A == CHOOSE f : f = Def(f)
  <2>1. n \in Nat /\ n > 0 /\ \A i \in 1 .. n : seqs[i] \in T
    BY <1>2, ElementOf
  <2>2. FlattenSeq(seqs) = A[n]
    BY <1>2 DEF FlattenSeq
  <2>3. \A x, y \in T : x \o y \in T
    OBVIOUS
  <2> HIDE DEF n, T
  <2>4. F \in [T \X (1 .. n) -> T]
    <3> SUFFICES ASSUME NEW x \in T, NEW k \in 1 .. n, k # n
                 PROVE  x \o seqs[k + 1] \in T
      OBVIOUS
    <3>1. k + 1 \in 1 .. n
      BY <2>1
    <3> QED
      BY <2>1, <2>3, <3>1
  <2>5. seqs[1] \in T
    BY <2>1
  <2>6. PICK a : IsRun(a, T, seqs[1], n, F)
    BY <2>1, <2>4, <2>5, LoopRuns
  <2> DEFINE f == [i \in 1 .. n |-> a[i - 1]]
  <2>7. ASSUME NEW i \in 2 .. n PROVE f[i] = f[i - 1] \o seqs[i]
    <3>1. i - 1 \in 1 .. n /\ i - 1 # n /\ (i - 1) + 1 = i /\ (i - 1) - 1 \in 0 .. n
      BY <2>1
    <3>2. f[i] = a[i - 1] /\ f[i - 1] = a[(i - 1) - 1] /\ i \in 1 .. n
      BY <2>1, <3>1
    <3>3. <<a[(i - 1) - 1], i - 1>> \in T \X (1 .. n)
      BY <2>6, <3>1 DEF IsRun
    <3>4. a[i - 1] = F[<<a[(i - 1) - 1], i - 1>>]
      BY <2>6, <3>1 DEF IsRun
    <3>5. F[<<a[(i - 1) - 1], i - 1>>] = a[(i - 1) - 1] \o seqs[i]
      BY <3>1, <3>3
    <3> QED
      BY <3>2, <3>4, <3>5
  <2>8. f[1] = seqs[1]
    BY <2>1, <2>6 DEF IsRun
  <2>9. ASSUME NEW i \in 1 .. n PROVE f[i] \in T
    <3>1. i - 1 \in 0 .. n
      BY <2>1
    <3> QED
      BY <2>6, <3>1 DEF IsRun
  <2>10. f = Def(f)
    <3> HIDE DEF F
    <3>1. f = [i \in 1 .. n |-> f[i]]
      OBVIOUS
    <3> HIDE DEF f
    <3>2. \A i \in 1 .. n : f[i] = IF i = 1 THEN seqs[i] ELSE f[i - 1] \o seqs[i]
      <4> TAKE i \in 1 .. n
      <4>1. CASE i = 1
        BY <2>8, <4>1
      <4>2. CASE i # 1
        <5>1. i \in 2 .. n
          BY <2>1, <4>2
        <5> QED
          BY <2>7, <4>2, <5>1
      <4> QED
        BY <4>1, <4>2
    <3> QED
      BY <3>1, <3>2
  <2> HIDE DEF f, F
  <2>11. A = Def(A)
    BY <2>10
  <2> HIDE DEF A
  <2>12. A[1] = seqs[1] /\ \A i \in 2 .. n : A[i] = A[i - 1] \o seqs[i]
    <3>1. \A i \in 1 .. n : A[i] = IF i = 1 THEN seqs[i] ELSE A[i - 1] \o seqs[i]
      BY <2>11
    <3>2. 1 \in 1 .. n /\ \A i \in 2 .. n : i \in 1 .. n /\ i # 1
      BY <2>1
    <3> QED
      BY <3>1, <3>2
  <2> DEFINE c == [k \in 0 .. n |-> IF k = 0 THEN <<>> ELSE A[k]]
  <2>13. ASSUME NEW k \in 1 .. n, c[k - 1] \in T
         PROVE  c[k] = c[k - 1] \o seqs[k]
    <3>1. seqs[k] \in T /\ k \in 0 .. n /\ k - 1 \in 0 .. n /\ k # 0
      BY <2>1
    <3>2. CASE k = 1
      <4>1. c[k] = seqs[1] /\ c[k - 1] = <<>>
        BY <2>12, <3>1, <3>2
      <4>2. <<>> \o seqs[1] = seqs[1]
        BY <3>1, <3>2 DEF T
      <4> QED
        BY <3>2, <4>1, <4>2
    <3>3. CASE k # 1
      <4>1. k \in 2 .. n /\ k - 1 # 0
        BY <2>1, <3>3
      <4>2. c[k] = A[k] /\ c[k - 1] = A[k - 1]
        BY <3>1, <4>1
      <4> QED
        BY <2>12, <4>1, <4>2
    <3> QED
      BY <3>2, <3>3
  <2> HIDE DEF c
  <2>14. \A k \in 0 .. n : c[k] \in T
    <3>1. c[0] \in T /\ c[0] = <<>>
      BY <2>1 DEF c, T
    <3>2. ASSUME NEW k \in 1 .. n, c[k - 1] \in T PROVE c[k] \in T
      BY <2>1, <2>3, <2>13, <3>2
    <3> QED
      BY <2>1, <3>1, <3>2, LoopStays
  <2>15. \A k \in 1 .. n : c[k] = c[k - 1] \o seqs[k]
    <3> TAKE k \in 1 .. n
    <3>1. k - 1 \in 0 .. n
      BY <2>1
    <3> QED
      BY <2>13, <2>14, <3>1
  <2>16. c \in [0 .. n -> T] /\ c[0] = <<>> /\ c[n] = A[n]
    BY <2>1, <2>14 DEF c
  <2> QED
    BY <2>2, <2>15, <2>16 DEF n, T
<1> QED
  BY <1>1, <1>2

LEMMA FlattenSeqType ==
  ASSUME NEW S, NEW seqs \in Seq(Seq(S))
  PROVE  FlattenSeq(seqs) \in Seq(S)
<1>1. PICK c \in [0 .. Len(seqs) -> Seq(S)] : FlattenSeq(seqs) = c[Len(seqs)]
  BY FlattenRuns
<1>2. Len(seqs) \in 0 .. Len(seqs)
  OBVIOUS
<1> QED
  BY <1>1, <1>2

LEMMA McuBlocksType ==
  ASSUME NEW p \in Parses, Scannable(p)
  PROVE  McuBlocks(p) \in Seq(Block(p))
<1> DEFINE At(s) == p.comps[p.scan[s].comp]
           blocks(s) == [k \in 1 .. At(s).h * At(s).v |->
                           [scan |-> s, bh |-> (k - 1) % At(s).h, bv |-> (k - 1) \div At(s).h]]
           seqs == [s \in DOMAIN p.scan |-> blocks(s)]
<1>1. p.scan \in Seq(ScanComp) /\ p.comps \in Seq(Comp)
  BY DEF Parses
<1>2. ASSUME NEW s \in DOMAIN p.scan PROVE blocks(s) \in Seq(Block(p))
  <2>1. p.scan[s].comp \in DOMAIN p.comps
    BY DEF Scannable
  <2>2. At(s) \in Comp
    BY <1>1, <2>1, ElementOf
  <2>3. At(s).h \in Nat /\ At(s).v \in Nat
    <3>1. PICK z : z = At(s)
      OBVIOUS
    <3>2. z \in Comp
      BY <2>2, <3>1
    <3>3. z.h \in Nat /\ z.v \in Nat
      BY <3>2 DEF Comp
    <3> QED
      BY <3>1, <3>3
  <2>4. s = 1 => At(s) = LumaOf(p)
    BY DEF LumaOf
  <2>5. PICK h, v : h = At(s).h /\ v = At(s).v
    OBVIOUS
  <2>6. h \in Nat /\ v \in Nat /\ h * v \in Nat /\ v * h = h * v
    <3>1. PICK z : z = At(s)
      OBVIOUS
    <3>2. h = z.h /\ v = z.v /\ z.h \in Nat /\ z.v \in Nat
      BY <2>3, <2>5, <3>1
    <3>3. h \in Nat /\ v \in Nat
      BY <3>2
    <3> QED
      BY <3>3
  <2>7. blocks(s) = [k \in 1 .. h * v |->
                       [scan |-> s, bh |-> (k - 1) % h, bv |-> (k - 1) \div h]]
    BY <2>5
  <2>8. s = 1 => h = LumaOf(p).h /\ v = LumaOf(p).v
    BY <2>4, <2>5
  <2> HIDE DEF At, blocks
  <2>9. ASSUME NEW k \in 1 .. h * v
        PROVE  [scan |-> s, bh |-> (k - 1) % h, bv |-> (k - 1) \div h] \in Block(p)
    <3>1. k - 1 \in Nat /\ k - 1 < v * h
      BY <2>6
    <3>2. (k - 1) \div h \in 0 .. v - 1 /\ (k - 1) % h \in 0 .. h - 1
      BY <2>6, <3>1, DivMod
    <3> DEFINE x == (k - 1) % h
               y == (k - 1) \div h
    <3>3. x \in Nat /\ y \in Nat /\ x \in 0 .. h - 1 /\ y \in 0 .. v - 1
      BY <2>6, <3>2
    <3> HIDE DEF x, y
    <3>4. [scan |-> s, bh |-> x, bv |-> y] \in Block(p)
      BY <2>8, <3>3 DEF Block
    <3> QED
      BY <3>4 DEF x, y
  <2>10. PICK m : m = h * v
    OBVIOUS
  <2>11. blocks(s) \in [1 .. m -> Block(p)] /\ m \in Nat
    BY <2>6, <2>7, <2>9, <2>10
  <2> QED
    BY <2>11
<1>3. seqs \in Seq(Seq(Block(p)))
  <2>1. DOMAIN p.scan = 1 .. Len(p.scan) /\ Len(p.scan) \in Nat
    BY <1>1
  <2> HIDE DEF blocks
  <2>2. seqs \in [1 .. Len(p.scan) -> Seq(Block(p))]
    BY <1>2, <2>1
  <2> QED
    BY <2>1, <2>2
<1>4. McuBlocks(p) = FlattenSeq(seqs)
  BY DEF McuBlocks
<1> HIDE DEF seqs
<1> QED
  BY <1>3, <1>4, FlattenSeqType

LEMMA WalkBlockType ==
  ASSUME NEW data, IsData(data), NEW p \in Parses, Scannable(p), NEW d \in Walk(p),
         NEW b \in Block(p), NEW mcu \in 0 .. p.cols * p.rows - 1
  PROVE  WalkBlock(data, p, d, mcu, b) \in Walk(p)
<1>1. b.scan \in DOMAIN p.scan
  BY DEF Block
<1>2. DecodeBlock(data, p, d, b.scan) \in Walk(p)
  BY <1>1, DecodeBlockType
<1>3. Record(p, DecodeBlock(data, p, d, b.scan), mcu, b) \in Walk(p)
  BY <1>2, RecordType
<1> QED
  BY <1>3 DEF WalkBlock

LEMMA AfterMcuType ==
  ASSUME NEW data, NEW p \in Parses, NEW n \in Walk(p), NEW mcu
  PROVE  AfterMcu(data, p, n, mcu) \in Walk(p)
<1> DEFINE pos == n.r.pos
           marked == pos + 1 <= Len(data) /\ data[pos] = FF /\ data[pos + 1] \in RstMarkers
           r == [pos |-> IF marked THEN pos + 2 ELSE pos, buf |-> <<>>]
           pred == [c \in DOMAIN n.pred |-> 0]
<1>1. /\ n.r \in Reader /\ n.go \in BOOLEAN
      /\ n.pred \in [DOMAIN p.comps -> Int] /\ n.grid \in Grids(p)
  BY DEF Walk
<1>2. pos \in Nat \ {0}
  BY <1>1 DEF Reader
<1>3. Restart(data, n) = [n EXCEPT !.r = r, !.pred = pred]
  BY DEF Restart
<1> HIDE DEF pos, marked
<1>4. r \in Reader
  BY <1>2 DEF Reader
<1>5. pred \in [DOMAIN p.comps -> Int]
  BY <1>1
<1> HIDE DEF r, pred
<1>6. Restart(data, n) \in Walk(p)
  BY <1>1, <1>3, <1>4, <1>5 DEF Walk
<1> QED
  BY <1>6 DEF AfterMcu

\* The walk over the blocks of an MCU as a run.
McuRun(D, data, p, d, mcu) ==
  LET n == Len(McuBlocks(p))
  IN  /\ n \in Nat /\ D[0] = d /\ \A k \in 0 .. n : D[k] \in Walk(p)
      /\ \A k \in 1 .. n : D[k] = WalkBlock(data, p, D[k - 1], mcu, McuBlocks(p)[k])
      /\ \A k \in 1 .. n : McuBlocks(p)[k] \in Block(p)
      /\ WalkMcu(data, p, d, mcu) = AfterMcu(data, p, D[n], mcu)

LEMMA WalkMcuRuns ==
  ASSUME NEW data, IsData(data), NEW p \in Parses, Scannable(p), NEW d \in Walk(p),
         NEW mcu \in 0 .. p.cols * p.rows - 1
  PROVE  \E D : McuRun(D, data, p, d, mcu)
<1> DEFINE s == McuBlocks(p)
           n == Len(s)
           T == Walk(p)
           Def(a) == [k \in 0 .. n |-> IF k = 0 THEN d
                                       ELSE WalkBlock(data, p, a[k - 1], mcu, s[k])]
           F == [x \in T \X (1 .. n) |-> WalkBlock(data, p, x[1], mcu, s[x[2]])]
           A == CHOOSE a : a = Def(a)
<1>1. s \in Seq(Block(p))
  BY McuBlocksType
<1>2. n \in Nat /\ \A k \in 1 .. n : s[k] \in Block(p)
  <2> HIDE DEF s
  <2> QED
    BY <1>1, ElementOf
<1>3. WalkMcu(data, p, d, mcu) = AfterMcu(data, p, A[n], mcu)
  BY DEF WalkMcu, Each
<1> HIDE DEF s, n
<1>4. \A x \in T, k \in 1 .. n : WalkBlock(data, p, x, mcu, s[k]) \in T
  BY <1>2, WalkBlockType
<1>5. d \in T
  OBVIOUS
<1> HIDE DEF T
<1>6. \E a \in [0 .. n -> T] : a = Def(a)
  <2>1. F \in [T \X (1 .. n) -> T]
    BY <1>4
  <2>2. PICK a : IsRun(a, T, d, n, F)
    BY <1>2, <1>5, <2>1, LoopRuns
  <2>3. ASSUME NEW k \in 1 .. n PROVE a[k] = WalkBlock(data, p, a[k - 1], mcu, s[k])
    <3>1. k - 1 \in 0 .. n
      BY <1>2
    <3>2. <<a[k - 1], k>> \in T \X (1 .. n)
      BY <2>2, <3>1 DEF IsRun
    <3> QED
      BY <2>2, <3>2 DEF IsRun
  <2> QED
    BY <1>2, <2>2, <2>3 DEF IsRun
<1>7. A = Def(A)
  BY <1>6
<1> HIDE DEF A
<1>8. A[0] = d /\ \A k \in 1 .. n : A[k] = WalkBlock(data, p, A[k - 1], mcu, s[k])
  BY <1>2, <1>7
<1>9. \A k \in 0 .. n : A[k] \in T
  BY <1>2, <1>4, <1>5, <1>8, LoopStays
<1>10. McuRun(A, data, p, d, mcu)
  BY <1>2, <1>3, <1>8, <1>9 DEF McuRun, T, s, n
<1> QED
  BY <1>10

LEMMA WalkMcuType ==
  ASSUME NEW data, IsData(data), NEW p \in Parses, Scannable(p), NEW d \in Walk(p),
         NEW mcu \in 0 .. p.cols * p.rows - 1
  PROVE  WalkMcu(data, p, d, mcu) \in Walk(p)
<1>1. PICK D : McuRun(D, data, p, d, mcu)
  BY WalkMcuRuns
<1>2. PICK n \in Nat : n = Len(McuBlocks(p))
  BY <1>1 DEF McuRun
<1>3. D[n] \in Walk(p) /\ WalkMcu(data, p, d, mcu) = AfterMcu(data, p, D[n], mcu)
  BY <1>1, <1>2 DEF McuRun
<1> QED
  BY <1>3, AfterMcuType

\* The walk over the MCUs of a picture as a run.
PictureWalk(W, data, p) ==
  /\ \A k \in 0 .. p.cols * p.rows : W[k] \in Walk(p)
  /\ \A k \in 1 .. p.cols * p.rows : W[k] = WalkMcu(data, p, W[k - 1], k - 1)

\* The extraction is the walk over all MCUs.
Walked(W, data, p) ==
  /\ PictureWalk(W, data, p)
  /\ W[0] = [r |-> [pos |-> 1, buf |-> <<>>], go |-> TRUE,
             pred |-> [c \in DOMAIN p.comps |-> 0], grid |-> <<>>]
  /\ ExtractDc(p, data) = [ok |-> TRUE, w |-> p.cols * LumaOf(p).h,
                           h |-> p.rows * LumaOf(p).v, grid |-> W[p.cols * p.rows].grid]

LEMMA ExtractWalks ==
  ASSUME NEW data, IsData(data), NEW p \in Parses, ~Unusable(p), Scannable(p)
  PROVE  \E W : Walked(W, data, p)
<1> DEFINE n == p.cols * p.rows
           T == Walk(p)
           start == [r |-> [pos |-> 1, buf |-> <<>>], go |-> TRUE,
                     pred |-> [c \in DOMAIN p.comps |-> 0], grid |-> <<>>]
           Def(a) == [k \in 0 .. n |-> IF k = 0 THEN start
                                       ELSE WalkMcu(data, p, a[k - 1], k - 1)]
           F == [x \in T \X (1 .. n) |-> WalkMcu(data, p, x[1], x[2] - 1)]
           A == CHOOSE a : a = Def(a)
<1>1. n \in Nat
  <2>1. p.cols \in Nat /\ p.rows \in Nat
    BY LumaOfType
  <2> QED
    BY <2>1
<1>2. start \in T
  <2>1. [pos |-> 1, buf |-> <<>>] \in Reader
    BY DEF Reader
  <2>2. [c \in DOMAIN p.comps |-> 0] \in [DOMAIN p.comps -> Int]
    OBVIOUS
  <2>3. <<>> \in Grids(p)
    <3>1. <<>> \in [{} -> 0 .. 255]
      OBVIOUS
    <3> QED
      BY <3>1 DEF Grids
  <2> QED
    BY <2>1, <2>2, <2>3 DEF Walk
<1>3. ExtractDc(p, data) = [ok |-> TRUE, w |-> p.cols * LumaOf(p).h,
                            h |-> p.rows * LumaOf(p).v, grid |-> A[n].grid]
  BY DEF ExtractDc, Loop, LumaOf
<1>4. \A x \in T, k \in 1 .. n : WalkMcu(data, p, x, k - 1) \in T
  <2> TAKE x \in T, k \in 1 .. n
  <2>1. k - 1 \in 0 .. p.cols * p.rows - 1
    BY <1>1
  <2> QED
    BY <2>1, WalkMcuType
<1> HIDE DEF T, n, start
<1>5. \E a \in [0 .. n -> T] : a = Def(a)
  <2>1. F \in [T \X (1 .. n) -> T]
    BY <1>4
  <2>2. PICK a : IsRun(a, T, start, n, F)
    BY <1>1, <1>2, <2>1, LoopRuns
  <2>3. ASSUME NEW k \in 1 .. n PROVE a[k] = WalkMcu(data, p, a[k - 1], k - 1)
    <3>1. k - 1 \in 0 .. n
      BY <1>1
    <3>2. <<a[k - 1], k>> \in T \X (1 .. n)
      BY <2>2, <3>1 DEF IsRun
    <3> QED
      BY <2>2, <3>2 DEF IsRun
  <2> QED
    BY <1>1, <2>2, <2>3 DEF IsRun
<1>6. A = Def(A)
  BY <1>5
<1> HIDE DEF A
<1>7. A[0] = start /\ \A k \in 1 .. n : A[k] = WalkMcu(data, p, A[k - 1], k - 1)
  BY <1>1, <1>6
<1>8. \A k \in 0 .. n : A[k] \in T
  BY <1>1, <1>2, <1>4, <1>7, LoopStays
<1>9. PictureWalk(A, data, p)
  BY <1>7, <1>8 DEF PictureWalk, n, T
<1> QED
  BY <1>3, <1>7, <1>9 DEF Walked, n, start

\* For any tables a header can set up and whatever the data are, and wherever they
\* end, what is extracted is bytes at cells of the picture (jpeg_dc.c:470).
THEOREM GridStaysInPicture ==
  ASSUME NEW data, IsData(data), NEW p \in Parses, ~Unusable(p) => Scannable(p)
  PROVE  /\ ExtractDc(p, data).ok \in BOOLEAN
         /\ ExtractDc(p, data).ok =>
              LET dc == ExtractDc(p, data)
              IN  /\ dc.w \in Nat /\ dc.h \in Nat
                  /\ DOMAIN dc.grid \subseteq 0 .. dc.w * dc.h - 1
                  /\ \A i \in DOMAIN dc.grid : dc.grid[i] \in 0 .. 255
<1>1. CASE Unusable(p)
  BY <1>1 DEF ExtractDc
<1>2. CASE ~Unusable(p)
  <2>1. Scannable(p)
    BY <1>2
  <2>2. /\ p.cols \in Nat /\ p.rows \in Nat
        /\ p.cols * LumaOf(p).h \in Nat /\ p.rows * LumaOf(p).v \in Nat
    BY <2>1, LumaOfType
  <2>3. PICK W : Walked(W, data, p)
    BY <1>2, <2>1, ExtractWalks
  <2>4. PICK n \in Nat : p.cols * p.rows = n
    BY <2>2
  <2>5. W[n] \in Walk(p)
    <3>1. n \in 0 .. n
      OBVIOUS
    <3> QED
      BY <2>3, <2>4, <3>1 DEF Walked, PictureWalk
  <2>6. PICK S \in SUBSET GridOf(p) : W[n].grid \in [S -> 0 .. 255]
    BY <2>5 DEF Walk, Grids
  <2>7. PICK g : g = W[n].grid
    OBVIOUS
  <2>8. DOMAIN g \subseteq GridOf(p) /\ \A i \in DOMAIN g : g[i] \in 0 .. 255
    BY <2>6, <2>7
  <2>9. ExtractDc(p, data) = [ok |-> TRUE, w |-> p.cols * LumaOf(p).h,
                              h |-> p.rows * LumaOf(p).v, grid |-> g]
    BY <2>3, <2>4, <2>7 DEF Walked
  <2> QED
    BY <2>2, <2>8, <2>9 DEF GridOf
<1> QED
  BY <1>1, <1>2

-----------------------------------------------------------------------------
(* Header segments *)

LEMMA SamplingMax ==
  ASSUME NEW S, S \subseteq 0 .. 15
  PROVE  MaxOf({1} \cup S) \in Nat \ {0}
<1>1. {1} \cup S \subseteq Nat /\ {1} \cup S # {} /\ \A x \in {1} \cup S : x <= 15
  OBVIOUS
<1>2. PICK g \in {1} \cup S : \A y \in {1} \cup S : g >= y
  BY <1>1, LargestIn
<1>3. MaxOf({1} \cup S) \in {1} \cup S /\ \A y \in {1} \cup S : MaxOf({1} \cup S) >= y
  BY <1>2 DEF MaxOf
<1> DEFINE m == MaxOf({1} \cup S)
<1>4. m \in Nat /\ m >= 1
  BY <1>1, <1>3
<1> HIDE DEF m
<1>5. m \in Nat \ {0}
  BY <1>4
<1> QED
  BY <1>5 DEF m

LEMMA CeilDivType == ASSUME NEW a \in Nat, NEW b \in Nat \ {0} PROVE CeilDiv(a, b) \in Nat
<1>1. a + b - 1 \in Nat
  OBVIOUS
<1> QED
  BY <1>1 DEF CeilDiv

LEMMA ParseSegmentType ==
  ASSUME NEW p \in Parses, NEW seg \in Segment
  PROVE  ParseSegment(p, seg) \in Parses
<1>1. /\ p.comps \in Seq(Comp) /\ p.cols \in Nat /\ p.rows \in Nat
      /\ p.scan \in Seq(ScanComp) /\ p.restart \in Nat
      /\ p.dc \in [0 .. 1 -> Tables] /\ p.ac \in [0 .. 1 -> Tables]
      /\ p.qt \in [0 .. 3 -> Nat]
      /\ p.failed \in BOOLEAN /\ p.sof \in BOOLEAN /\ p.sos \in BOOLEAN
  BY DEF Parses
<1>2. CASE p.failed \/ p.sos
  BY <1>2 DEF ParseSegment
<1>3. CASE ~(p.failed \/ p.sos) /\ Damaged(seg, p)
  <2>1. ParseSegment(p, seg) = [p EXCEPT !.failed = TRUE]
    BY <1>3 DEF ParseSegment
  <2> QED
    BY <1>1, <2>1 DEF Parses
<1>4. CASE ~(p.failed \/ p.sos) /\ ~Damaged(seg, p)
  <2>1. CASE seg \in Frame0
    <3> DEFINE hs == {c.h : c \in ToSet(seg.comps)}
               vs == {c.v : c \in ToSet(seg.comps)}
               cols == CeilDiv(seg.width, 8 * MaxOf({1} \cup hs))
               rows == CeilDiv(seg.height, 8 * MaxOf({1} \cup vs))
    <3>1. /\ seg.kind = "sof0" /\ seg.width \in Nat /\ seg.height \in Nat
          /\ seg.comps \in Seq(Comp)
      BY <2>1 DEF Frame0
    <3>2. hs \subseteq 0 .. 15 /\ vs \subseteq 0 .. 15
      <4>1. \A i \in DOMAIN seg.comps : seg.comps[i] \in Comp
        BY <3>1, ElementOf
      <4> QED
        BY <4>1 DEF ToSet, Comp
    <3>3. ParseSegment(p, seg) = [p EXCEPT !.sof = TRUE, !.comps = seg.comps,
                                          !.cols = cols, !.rows = rows]
      BY <1>4, <3>1 DEF ParseSegment
    <3> HIDE DEF hs, vs
    <3>4. MaxOf({1} \cup hs) \in Nat \ {0} /\ MaxOf({1} \cup vs) \in Nat \ {0}
      BY <3>2, SamplingMax
    <3>5. 8 * MaxOf({1} \cup hs) \in Nat \ {0} /\ 8 * MaxOf({1} \cup vs) \in Nat \ {0}
      BY <3>4
    <3>6. cols \in Nat /\ rows \in Nat
      BY <3>1, <3>5, CeilDivType
    <3> HIDE DEF cols, rows
    <3> QED
      BY <1>1, <3>1, <3>3, <3>6 DEF Parses
  <2>2. CASE seg \in Table /\ Len(seg.symbols) = Sum(seg.counts)
    <3> DEFINE t == BuildHuff(seg.counts, seg.symbols)
    <3>1. /\ seg.kind = "dht" /\ seg.class \in {"dc", "ac"} /\ seg.id \in Nat
          /\ seg.counts \in [1 .. MaxLen -> Nat] /\ seg.symbols \in Seq(0 .. 255)
      BY <2>2 DEF Table
    <3>2. t \in Tables
      BY <2>2, <3>1, BuildHuffType
    <3>3. seg.id \in 0 .. 1
      BY <1>4, <3>1 DEF Damaged
    <3> HIDE DEF t
    <3>4. CASE seg.class = "dc"
      <4> DEFINE ts == [p.dc EXCEPT ![seg.id] = t]
      <4>1. ParseSegment(p, seg) = [p EXCEPT !.dc = ts]
        BY <1>4, <3>1, <3>4 DEF ParseSegment, t
      <4>2. ts \in [0 .. 1 -> Tables]
        BY <1>1, <3>2, <3>3
      <4> HIDE DEF ts
      <4> QED
        BY <1>1, <4>1, <4>2 DEF Parses
    <3>5. CASE seg.class = "ac"
      <4> DEFINE ts == [p.ac EXCEPT ![seg.id] = t]
      <4>1. ParseSegment(p, seg) = [p EXCEPT !.ac = ts]
        BY <1>4, <3>1, <3>5 DEF ParseSegment, t
      <4>2. ts \in [0 .. 1 -> Tables]
        BY <1>1, <3>2, <3>3
      <4> HIDE DEF ts
      <4> QED
        BY <1>1, <4>1, <4>2 DEF Parses
    <3> QED
      BY <3>1, <3>4, <3>5
  <2>3. CASE seg \in [kind : {"dqt"}, id : Nat, q : Nat]
    <3>1. seg.kind = "dqt" /\ seg.id \in 0 .. 3 /\ seg.q \in Nat
      BY <1>4, <2>3 DEF Damaged
    <3> DEFINE qs == [p.qt EXCEPT ![seg.id] = seg.q]
    <3>2. ParseSegment(p, seg) = [p EXCEPT !.qt = qs]
      BY <1>4, <3>1 DEF ParseSegment
    <3>3. qs \in [0 .. 3 -> Nat]
      BY <1>1, <3>1
    <3> HIDE DEF qs
    <3> QED
      BY <1>1, <3>2, <3>3 DEF Parses
  <2>4. CASE seg \in [kind : {"dri"}, interval : Nat]
    <3>1. seg.kind = "dri" /\ seg.interval \in Nat
      BY <2>4
    <3>2. ParseSegment(p, seg) = [p EXCEPT !.restart = seg.interval]
      BY <1>4, <3>1 DEF ParseSegment
    <3> QED
      BY <1>1, <3>1, <3>2 DEF Parses
  <2>5. CASE seg \in [kind : {"sos"}, scan : Seq(ScanComp)]
    <3>1. seg.kind = "sos" /\ seg.scan \in Seq(ScanComp)
      BY <2>5
    <3>2. ParseSegment(p, seg) = [p EXCEPT !.sos = TRUE, !.scan = seg.scan]
      BY <1>4, <3>1 DEF ParseSegment
    <3> QED
      BY <1>1, <3>1, <3>2 DEF Parses
  <2>6. CASE seg \in [kind : {"app", "eoi"}]
    <3>1. seg.kind \in {"app", "eoi"}
      BY <2>6
    <3>2. ParseSegment(p, seg) = p
      BY <1>4, <3>1 DEF ParseSegment
    <3> QED
      BY <3>2
  <2> QED
    BY <2>1, <2>2, <2>3, <2>4, <2>5, <2>6 DEF Segment, Other
<1> QED
  BY <1>2, <1>3, <1>4

ParseStart ==
  [failed |-> FALSE, sof |-> FALSE, sos |-> FALSE, comps |-> <<>>, cols |-> 0, rows |-> 0,
   scan |-> <<>>, restart |-> 0, dc |-> [i \in 0 .. 1 |-> NoTable],
   ac |-> [i \in 0 .. 1 |-> NoTable], qt |-> [i \in 0 .. 3 |-> 0]]

LEMMA ParseRuns ==
  ASSUME NEW segments \in Seq(Segment)
  PROVE  \E A : /\ A[0] = ParseStart /\ Parse(segments) = A[Len(segments)]
                /\ \A k \in 0 .. Len(segments) : A[k] \in Parses
                /\ \A k \in 1 .. Len(segments) : A[k] = ParseSegment(A[k - 1], segments[k])
<1> DEFINE n == Len(segments)
           T == Parses
           Def(a) == [k \in 0 .. n |-> IF k = 0 THEN ParseStart
                                       ELSE ParseSegment(a[k - 1], segments[k])]
           F == [x \in T \X (1 .. n) |-> ParseSegment(x[1], segments[x[2]])]
           A == CHOOSE a : a = Def(a)
<1>1. n \in Nat /\ \A k \in 1 .. n : segments[k] \in Segment
  BY ElementOf
<1>2. ParseStart \in T
  <2>1. NoTable \in Tables
    BY NoTableType
  <2>2. PICK tables \in [0 .. 1 -> Tables] : tables = [i \in 0 .. 1 |-> NoTable]
    BY <2>1
  <2>3. <<>> \in Seq(Comp) /\ <<>> \in Seq(ScanComp) /\ [i \in 0 .. 3 |-> 0] \in [0 .. 3 -> Nat]
    OBVIOUS
  <2> QED
    BY <2>2, <2>3 DEF Parses, ParseStart
<1>3. Parse(segments) = A[n]
  BY DEF Parse, Each, ParseStart
<1> HIDE DEF n
<1>4. \A x \in T, k \in 1 .. n : ParseSegment(x, segments[k]) \in T
  BY <1>1, ParseSegmentType
<1> HIDE DEF T
<1>5. \E a \in [0 .. n -> T] : a = Def(a)
  <2>1. F \in [T \X (1 .. n) -> T]
    BY <1>4
  <2>2. PICK a : IsRun(a, T, ParseStart, n, F)
    BY <1>1, <1>2, <2>1, LoopRuns
  <2>3. ASSUME NEW k \in 1 .. n PROVE a[k] = ParseSegment(a[k - 1], segments[k])
    <3>1. k - 1 \in 0 .. n
      BY <1>1
    <3>2. <<a[k - 1], k>> \in T \X (1 .. n)
      BY <2>2, <3>1 DEF IsRun
    <3> QED
      BY <2>2, <3>2 DEF IsRun
  <2> QED
    BY <1>1, <2>2, <2>3 DEF IsRun
<1>6. A = Def(A)
  BY <1>5
<1> HIDE DEF A
<1>7. A[0] = ParseStart /\ \A k \in 1 .. n : A[k] = ParseSegment(A[k - 1], segments[k])
  BY <1>1, <1>6
<1>8. \A k \in 0 .. n : A[k] \in T
  BY <1>1, <1>2, <1>4, <1>7, LoopStays
<1> QED
  BY <1>3, <1>7, <1>8 DEF T, n

\* Whatever segments a header has, its tables are proper.
LEMMA ParseType ==
  ASSUME NEW segments \in Seq(Segment)
  PROVE  Parse(segments) \in Parses
<1>1. PICK A : /\ Parse(segments) = A[Len(segments)]
               /\ \A k \in 0 .. Len(segments) : A[k] \in Parses
  BY ParseRuns
<1>2. Len(segments) \in 0 .. Len(segments)
  OBVIOUS
<1> QED
  BY <1>1, <1>2

-----------------------------------------------------------------------------
(* Bits and numbers *)

\* The powers of two that codes of up to 16 bits need.
LEMMA PowerStep ==
  ASSUME NEW n \in 0 .. 15
  PROVE  2 ^ (n + 1) = 2 * 2 ^ n
<1>1. /\ 2 ^ 0 = 1 /\ 2 ^ 1 = 2 /\ 2 ^ 2 = 4 /\ 2 ^ 3 = 8 /\ 2 ^ 4 = 16 /\ 2 ^ 5 = 32
      /\ 2 ^ 6 = 64 /\ 2 ^ 7 = 128 /\ 2 ^ 8 = 256
  OBVIOUS
<1>2. /\ 2 ^ 9 = 512 /\ 2 ^ 10 = 1024 /\ 2 ^ 11 = 2048 /\ 2 ^ 12 = 4096
      /\ 2 ^ 13 = 8192 /\ 2 ^ 14 = 16384 /\ 2 ^ 15 = 32768 /\ 2 ^ 16 = 65536
  OBVIOUS
<1>3. ASSUME NEW x \in Nat, NEW y \in Nat, x < 16, y = x + 1
      PROVE  2 ^ y = 2 * 2 ^ x
  <2>1. CASE x = 0
    <3>1. y = 1
      BY <1>3, <2>1
    <3> QED
      BY <1>1, <1>2, <2>1, <3>1
  <2>2. CASE x = 1
    <3>1. y = 2
      BY <1>3, <2>2
    <3> QED
      BY <1>1, <1>2, <2>2, <3>1
  <2>3. CASE x = 2
    <3>1. y = 3
      BY <1>3, <2>3
    <3> QED
      BY <1>1, <1>2, <2>3, <3>1
  <2>4. CASE x = 3
    <3>1. y = 4
      BY <1>3, <2>4
    <3> QED
      BY <1>1, <1>2, <2>4, <3>1
  <2>5. CASE x = 4
    <3>1. y = 5
      BY <1>3, <2>5
    <3> QED
      BY <1>1, <1>2, <2>5, <3>1
  <2>6. CASE x = 5
    <3>1. y = 6
      BY <1>3, <2>6
    <3> QED
      BY <1>1, <1>2, <2>6, <3>1
  <2>7. CASE x = 6
    <3>1. y = 7
      BY <1>3, <2>7
    <3> QED
      BY <1>1, <1>2, <2>7, <3>1
  <2>8. CASE x = 7
    <3>1. y = 8
      BY <1>3, <2>8
    <3> QED
      BY <1>1, <1>2, <2>8, <3>1
  <2>9. CASE x = 8
    <3>1. y = 9
      BY <1>3, <2>9
    <3> QED
      BY <1>1, <1>2, <2>9, <3>1
  <2>10. CASE x = 9
    <3>1. y = 10
      BY <1>3, <2>10
    <3> QED
      BY <1>1, <1>2, <2>10, <3>1
  <2>11. CASE x = 10
    <3>1. y = 11
      BY <1>3, <2>11
    <3> QED
      BY <1>1, <1>2, <2>11, <3>1
  <2>12. CASE x = 11
    <3>1. y = 12
      BY <1>3, <2>12
    <3> QED
      BY <1>1, <1>2, <2>12, <3>1
  <2>13. CASE x = 12
    <3>1. y = 13
      BY <1>3, <2>13
    <3> QED
      BY <1>1, <1>2, <2>13, <3>1
  <2>14. CASE x = 13
    <3>1. y = 14
      BY <1>3, <2>14
    <3> QED
      BY <1>1, <1>2, <2>14, <3>1
  <2>15. CASE x = 14
    <3>1. y = 15
      BY <1>3, <2>15
    <3> QED
      BY <1>1, <1>2, <2>15, <3>1
  <2>16. CASE x = 15
    <3>1. y = 16
      BY <1>3, <2>16
    <3> QED
      BY <1>1, <1>2, <2>16, <3>1
  <2> QED
    BY <1>3, <2>1, <2>2, <2>3, <2>4, <2>5, <2>6, <2>7, <2>8,
       <2>9, <2>10, <2>11, <2>12, <2>13, <2>14, <2>15, <2>16
<1> QED
  BY <1>3

LEMMA DivIs ==
  ASSUME NEW x \in Nat, NEW q \in Nat, NEW m \in Nat \ {0}, m * q <= x, x < m * q + m
  PROVE  x \div m = q
OBVIOUS

LEMMA HalfDiv ==
  ASSUME NEW x \in Nat, NEW m \in Nat \ {0}
  PROVE  /\ x \div (2 * m) = (x \div m) \div 2
         /\ x \div m = 2 * (x \div (2 * m)) + ((x \div m) % 2)
<1>1. x \div (2 * m) = (x \div m) \div 2
  OBVIOUS
<1>2. PICK y \in Nat : y = x \div m
  OBVIOUS
<1>3. y = 2 * (y \div 2) + (y % 2)
  OBVIOUS
<1> QED
  BY <1>1, <1>2, <1>3

\* The bits of a number have it as their value.
LEMMA BitsType ==
  ASSUME NEW n \in 0 .. 16, NEW x \in Nat
  PROVE  /\ Bits(x, n) \in Seq({0, 1}) /\ Len(Bits(x, n)) = n
         /\ \A k \in 1 .. n : Bits(x, n)[k] = (x \div 2 ^ (n - k)) % 2
<1>1. ASSUME NEW k \in 1 .. n PROVE (x \div 2 ^ (n - k)) % 2 \in {0, 1}
  <2>1. n - k \in Nat
    OBVIOUS
  <2>2. PICK z \in Nat \ {0} : z = 2 ^ (n - k)
    BY <2>1, PowersType
  <2>3. (x \div z) % 2 \in {0, 1}
    OBVIOUS
  <2> QED
    BY <2>2, <2>3
<1>2. Bits(x, n) = [k \in 1 .. n |-> (x \div 2 ^ (n - k)) % 2]
  BY DEF Bits
<1>3. Bits(x, n) \in [1 .. n -> {0, 1}]
  BY <1>1, <1>2
<1> QED
  BY <1>2, <1>3

LEMMA ValueOfBits ==
  ASSUME NEW n \in 0 .. 16, NEW x \in Nat, x < 2 ^ n
  PROVE  Value(Bits(x, n)) = x
<1> DEFINE s == Bits(x, n)
<1>1. s \in Seq({0, 1}) /\ Len(s) = n /\ \A k \in 1 .. n : s[k] = (x \div 2 ^ (n - k)) % 2
  BY BitsType
<1> HIDE DEF s
<1>2. PICK a \in [0 .. n -> Nat] :
        a[0] = 0 /\ a[n] = Value(s) /\ \A k \in 1 .. n : a[k] = 2 * a[k - 1] + s[k]
  BY <1>1, ValueRuns
<1> DEFINE T == {k \in Nat : k <= n => a[k] = x \div 2 ^ (n - k)}
<1>3. 0 \in T
  <2>1. PICK z \in Nat \ {0} : z = 2 ^ n
    BY PowersType
  <2>2. x \div z = 0 /\ n - 0 = n
    BY <2>1, DivIs
  <2> QED
    BY <1>2, <2>1, <2>2
<1>4. ASSUME NEW k \in Nat, k \in T PROVE k + 1 \in T
  <2> SUFFICES ASSUME k + 1 <= n PROVE a[k + 1] = x \div 2 ^ (n - (k + 1))
    OBVIOUS
  <2>1. n - (k + 1) \in 0 .. 15 /\ (n - (k + 1)) + 1 = n - k /\ k + 1 \in 1 .. n
        /\ (k + 1) - 1 = k
    OBVIOUS
  <2>2. PICK z \in Nat \ {0} : z = 2 ^ (n - (k + 1))
    BY <2>1, PowersType
  <2>3. 2 ^ (n - k) = 2 * z
    BY <2>1, <2>2, PowerStep
  <2>4. a[k] = x \div (2 * z)
    <3>1. k <= n /\ a[k] = x \div 2 ^ (n - k)
      BY <1>4
    <3> QED
      BY <2>3, <3>1
  <2>5. a[k + 1] = 2 * a[k] + ((x \div z) % 2)
    BY <1>1, <1>2, <2>1, <2>2
  <2>6. a[k + 1] = x \div z
    BY <2>4, <2>5, HalfDiv
  <2> QED
    BY <2>2, <2>6
<1> HIDE DEF T
<1>5. n \in T
  <2>1. n \in Nat
    OBVIOUS
  <2> QED
    BY <1>3, <1>4, <2>1, Induction
<1>6. n - n = 0 /\ 2 ^ 0 = 1 /\ x \div 1 = x
  OBVIOUS
<1> QED
  BY <1>2, <1>5, <1>6 DEF T, s

\* The bits of a value are those it was made of.
LEMMA BitsOfValue ==
  ASSUME NEW s \in Seq({0, 1}), NEW n \in 0 .. 16, Len(s) = n
  PROVE  /\ Value(s) \in Nat /\ Value(s) < 2 ^ n
         /\ \A k \in 1 .. n : (Value(s) \div 2 ^ (n - k)) % 2 = s[k]
<1>1. PICK a \in [0 .. n -> Nat] :
        a[0] = 0 /\ a[n] = Value(s) /\ \A k \in 1 .. n : a[k] = 2 * a[k - 1] + s[k]
  BY ValueRuns
<1>2. PICK v \in Nat : v = Value(s)
  BY <1>1
<1>3. ASSUME NEW k \in 1 .. n PROVE a[k] \div 2 = a[k - 1] /\ a[k] % 2 = s[k]
  <2>1. k - 1 \in 0 .. n /\ s[k] \in {0, 1}
    OBVIOUS
  <2>2. PICK x \in Nat : x = a[k - 1]
    BY <1>1, <2>1
  <2>3. PICK b \in {0, 1} : b = s[k]
    BY <2>1
  <2>4. (2 * x + b) \div 2 = x /\ (2 * x + b) % 2 = b
    OBVIOUS
  <2> QED
    BY <1>1, <2>2, <2>3, <2>4
<1> DEFINE T == {m \in Nat : m <= n => v \div 2 ^ m = a[n - m]}
<1>4. 0 \in T
  <2>1. 2 ^ 0 = 1 /\ v \div 1 = v /\ n - 0 = n
    OBVIOUS
  <2> QED
    BY <1>1, <1>2, <2>1
<1>5. ASSUME NEW m \in Nat, m \in T PROVE m + 1 \in T
  <2> SUFFICES ASSUME m + 1 <= n PROVE v \div 2 ^ (m + 1) = a[n - (m + 1)]
    OBVIOUS
  <2>1. m \in 0 .. 15 /\ n - m \in 1 .. n /\ (n - m) - 1 = n - (m + 1) /\ m <= n
    OBVIOUS
  <2>2. PICK z \in Nat \ {0} : z = 2 ^ m
    BY PowersType
  <2>3. 2 ^ (m + 1) = 2 * z
    BY <2>1, <2>2, PowerStep
  <2>4. v \div z = a[n - m]
    BY <1>5, <2>1, <2>2
  <2>5. v \div (2 * z) = (v \div z) \div 2
    BY HalfDiv
  <2>6. a[n - m] \div 2 = a[(n - m) - 1]
    BY <1>3, <2>1
  <2> QED
    BY <2>1, <2>3, <2>4, <2>5, <2>6
<1> HIDE DEF T
<1>6. \A m \in 0 .. n : v \div 2 ^ m = a[n - m]
  <2>1. \A m \in Nat : m \in T
    BY <1>4, <1>5, Induction
  <2> QED
    BY <2>1 DEF T
<1>7. ASSUME NEW k \in 1 .. n PROVE (v \div 2 ^ (n - k)) % 2 = s[k]
  <2>1. n - k \in 0 .. n /\ n - (n - k) = k
    OBVIOUS
  <2>2. v \div 2 ^ (n - k) = a[k]
    BY <1>6, <2>1
  <2> QED
    BY <1>3, <2>2
<1>8. v < 2 ^ n
  <2>1. n \in 0 .. n /\ n - n = 0
    OBVIOUS
  <2>2. v \div 2 ^ n = 0
    BY <1>1, <1>6, <2>1
  <2>3. PICK z \in Nat \ {0} : z = 2 ^ n
    BY PowersType
  <2> QED
    BY <2>2, <2>3
<1> QED
  BY <1>2, <1>7, <1>8

\* Eight bits are those of the byte they make.
LEMMA BitsOfByte ==
  ASSUME NEW s \in Seq({0, 1}), Len(s) = 8
  PROVE  /\ Value(s) \in 0 .. 255
         /\ \A k \in 1 .. 8 : BitsOf(Value(s))[k] = s[k]
<1>1. 8 \in 0 .. 16 /\ 2 ^ 8 = 256
  OBVIOUS
<1>2. /\ Value(s) \in Nat /\ Value(s) < 2 ^ 8
      /\ \A k \in 1 .. 8 : (Value(s) \div 2 ^ (8 - k)) % 2 = s[k]
  BY <1>1, BitsOfValue
<1>3. ASSUME NEW v, NEW k \in 1 .. 8 PROVE BitsOf(v)[k] = (v \div 2 ^ (8 - k)) % 2
  BY JpegNumbers DEF BitsOf
<1>4. Value(s) \in 0 .. 255
  <2>1. PICK v \in Nat : v = Value(s) /\ v < 2 ^ 8
    BY <1>2
  <2>2. v < 256
    BY <1>1, <2>1
  <2>3. v \in 0 .. 255
    BY <2>2
  <2> QED
    BY <2>1, <2>3, Zenon
<1> QED
  BY <1>2, <1>3, <1>4

-----------------------------------------------------------------------------
(* Sequences joined *)

\* Where each of the sequences ends.
Offsets(off, seqs) ==
  /\ off \in [0 .. Len(seqs) -> Nat] /\ off[0] = 0
  /\ \A k \in 1 .. Len(seqs) : off[k] = off[k - 1] + Len(seqs[k])

LEMMA ConcatIs ==
  ASSUME NEW S, NEW s \in Seq(S), NEW t \in Seq(S)
  PROVE  /\ s \o t \in Seq(S) /\ Len(s \o t) = Len(s) + Len(t)
         /\ \A i \in 1 .. Len(s) : (s \o t)[i] = s[i]
         /\ \A i \in 1 .. Len(t) : (s \o t)[Len(s) + i] = t[i]
OBVIOUS

LEMMA FlattenIs ==
  ASSUME NEW S, NEW seqs \in Seq(Seq(S))
  PROVE  /\ FlattenSeq(seqs) \in Seq(S)
         /\ \E off : /\ Offsets(off, seqs)
                     /\ Len(FlattenSeq(seqs)) = off[Len(seqs)]
                     /\ \A k \in 1 .. Len(seqs) : \A i \in 1 .. Len(seqs[k]) :
                          /\ off[k - 1] + i \in 1 .. off[Len(seqs)]
                          /\ FlattenSeq(seqs)[off[k - 1] + i] = seqs[k][i]
<1>1. PICK n \in Nat : n = Len(seqs)
  OBVIOUS
<1>2. \A k \in 1 .. n : seqs[k] \in Seq(S) /\ Len(seqs[k]) \in Nat
  <2> TAKE k \in 1 .. n
  <2>1. seqs[k] \in Seq(S)
    BY <1>1, ElementOf
  <2> QED
    BY <2>1
<1>3. PICK c \in [0 .. n -> Seq(S)] :
        /\ c[0] = <<>> /\ \A k \in 1 .. n : c[k] = c[k - 1] \o seqs[k]
        /\ FlattenSeq(seqs) = c[n]
  BY <1>1, FlattenRuns
<1> DEFINE off == [k \in 0 .. n |-> Len(c[k])]
<1>4. off \in [0 .. n -> Nat] /\ off[0] = 0
  BY <1>3
<1>5. ASSUME NEW k \in 1 .. n
      PROVE  /\ off[k] = off[k - 1] + Len(seqs[k])
             /\ \A i \in 1 .. off[k - 1] : c[k][i] = c[k - 1][i]
             /\ \A i \in 1 .. Len(seqs[k]) : c[k][off[k - 1] + i] = seqs[k][i]
  <2>1. k \in 0 .. n /\ k - 1 \in 0 .. n
    BY <1>1
  <2>2. c[k] = c[k - 1] \o seqs[k] /\ c[k - 1] \in Seq(S) /\ seqs[k] \in Seq(S)
    BY <1>2, <1>3, <2>1
  <2>3. off[k] = Len(c[k]) /\ off[k - 1] = Len(c[k - 1])
    BY <2>1
  <2>4. PICK s \in Seq(S), t \in Seq(S), u \in {c[k]} : s = c[k - 1] /\ t = seqs[k] /\ u = c[k]
    BY <2>2
  <2>5. u = s \o t
    BY <2>2, <2>4
  <2>6. /\ Len(u) = Len(s) + Len(t)
        /\ \A i \in 1 .. Len(s) : u[i] = s[i]
        /\ \A i \in 1 .. Len(t) : u[Len(s) + i] = t[i]
    BY <2>5, ConcatIs
  <2> QED
    BY <2>3, <2>4, <2>6
<1> HIDE DEF off
<1> DEFINE Good(m) == \A k \in 1 .. m : \A i \in 1 .. Len(seqs[k]) :
                        off[k - 1] + i \in 1 .. off[m] /\ c[m][off[k - 1] + i] = seqs[k][i]
           T == {m \in Nat : m <= n => Good(m)}
<1>6. 0 \in T
  OBVIOUS
<1>7. ASSUME NEW m \in Nat, m \in T PROVE m + 1 \in T
  <2> SUFFICES ASSUME m + 1 <= n PROVE Good(m + 1)
    <3>1. m + 1 \in Nat
      OBVIOUS
    <3> QED
      BY <3>1, Zenon
  <2>1. m + 1 \in 1 .. n /\ (m + 1) - 1 = m /\ m \in 0 .. n /\ m + 1 \in 0 .. n /\ m <= n
    BY <1>1
  <2>2. Good(m)
    BY <1>7, <2>1
  <2>3. /\ off[m + 1] = off[m] + Len(seqs[m + 1])
        /\ \A i \in 1 .. off[m] : c[m + 1][i] = c[m][i]
        /\ \A i \in 1 .. Len(seqs[m + 1]) : c[m + 1][off[m] + i] = seqs[m + 1][i]
    <3>1. PICK k \in 1 .. n : k = m + 1 /\ k - 1 = m
      BY <2>1
    <3>2. /\ off[k] = off[k - 1] + Len(seqs[k])
          /\ \A i \in 1 .. off[k - 1] : c[k][i] = c[k - 1][i]
          /\ \A i \in 1 .. Len(seqs[k]) : c[k][off[k - 1] + i] = seqs[k][i]
      BY <1>5
    <3> QED
      BY <3>1, <3>2
  <2>4. off[m] \in Nat /\ off[m + 1] \in Nat /\ Len(seqs[m + 1]) \in Nat
    BY <1>2, <1>4, <2>1
  <2> SUFFICES ASSUME NEW k \in 1 .. m + 1, NEW i \in 1 .. Len(seqs[k])
               PROVE  /\ off[k - 1] + i \in 1 .. off[m + 1]
                      /\ c[m + 1][off[k - 1] + i] = seqs[k][i]
    OBVIOUS
  <2>5. CASE k = m + 1
    <3>1. i \in 1 .. Len(seqs[m + 1]) /\ off[k - 1] = off[m]
      BY <2>1, <2>5
    <3>2. PICK a \in Nat, b \in Nat, z \in Nat :
            a = off[m] /\ b = Len(seqs[m + 1]) /\ z = off[m + 1]
      BY <2>4
    <3>3. z = a + b /\ i \in 1 .. b
      BY <2>3, <3>1, <3>2
    <3>4. a + i \in 1 .. z
      BY <3>3
    <3>5. c[m + 1][a + i] = seqs[k][i]
      BY <2>3, <2>5, <3>2, <3>3
    <3> QED
      BY <3>1, <3>2, <3>4, <3>5
  <2>6. CASE k # m + 1
    <3>1. k \in 1 .. m
      BY <2>6
    <3>2. off[k - 1] + i \in 1 .. off[m] /\ c[m][off[k - 1] + i] = seqs[k][i]
      BY <2>2, <3>1
    <3>3. PICK j : j = off[k - 1] + i
      OBVIOUS
    <3>4. j \in 1 .. off[m] /\ c[m][j] = seqs[k][i] /\ c[m + 1][j] = c[m][j]
      BY <2>3, <3>2, <3>3
    <3>5. j \in 1 .. off[m + 1]
      <4>1. PICK a \in Nat, b \in Nat, z \in Nat :
              a = off[m] /\ b = Len(seqs[m + 1]) /\ z = off[m + 1]
        BY <2>4
      <4>2. z = a + b /\ j \in 1 .. a
        BY <2>3, <3>4, <4>1
      <4>3. j \in 1 .. z
        BY <4>2
      <4> QED
        BY <4>1, <4>3
    <3> QED
      BY <3>3, <3>4, <3>5
  <2> QED
    BY <2>5, <2>6
<1> HIDE DEF T
<1>8. n \in T
  BY <1>1, <1>6, <1>7, Induction
<1>9. Good(n) /\ off[n] = Len(c[n])
  <2>1. n <= n /\ n \in 0 .. n
    BY <1>1
  <2>2. off[n] = Len(c[n])
    BY <2>1 DEF off
  <2> QED
    BY <1>8, <2>1, <2>2 DEF T
<1>10. c[n] \in Seq(S)
  BY <1>1, <1>3
<1>11. Offsets(off, seqs)
  BY <1>1, <1>4, <1>5 DEF Offsets
<1> QED
  BY <1>1, <1>3, <1>9, <1>10, <1>11

-----------------------------------------------------------------------------
(* Reading bits from stuffed data *)

\* A stream s is a place in the data where the bits s.bits are, as bytes, each 255
\* followed by 0; the k-th byte ends s.off[k] bytes behind s.from.  What follows is
\* a marker, or the data end there or within the marker.
ByteAt(s, k) == s.from + s.off[k - 1] + 1

CarriesByte(s, k) ==
  /\ \A i \in 1 .. 8 : BitsOf(s.data[ByteAt(s, k)])[i] = s.bits[8 * (k - 1) + i]
  /\ \/ s.data[ByteAt(s, k)] # 255 /\ s.off[k] = s.off[k - 1] + 1
     \/ /\ s.data[ByteAt(s, k)] = 255 /\ s.off[k] = s.off[k - 1] + 2
        /\ s.data[ByteAt(s, k) + 1] = 0
  /\ s.from + s.off[k] <= Len(s.data)

EndOf(s) == s.from + s.off[s.n] + 1

Carries(s) ==
  /\ IsData(s.data) /\ s.from \in Nat /\ s.n \in Nat
  /\ s.bits \in Seq({0, 1}) /\ Len(s.bits) = 8 * s.n
  /\ s.off \in [0 .. s.n -> Nat] /\ s.off[0] = 0
  /\ \A k \in 1 .. s.n : CarriesByte(s, k)
  /\ \/ EndOf(s) > Len(s.data)
     \/ s.data[EndOf(s)] = 255 /\ (EndOf(s) = Len(s.data) \/ s.data[EndOf(s) + 1] # 0)

\* The reader r has given the first a bits of a stream: it has read ahead up to
\* the k-th byte, or over half of the marker at the end of the data.
Ahead(s, r, a, k) ==
  /\ a + Len(r.buf) = 8 * k
  /\ \A i \in 1 .. Len(r.buf) : r.buf[i] = s.bits[a + i]
  /\ \/ r.pos = s.from + s.off[k] + 1
     \/ k = s.n /\ r.pos = EndOf(s) + 1 /\ EndOf(s) = Len(s.data)

Reading(s, r, a) == r \in Reader /\ a \in Nat /\ \E k \in 0 .. s.n : Ahead(s, r, a, k)

\* The bits w are in the stream behind the first a.
Found(s, a, w) ==
  a + Len(w) <= Len(s.bits) /\ \A i \in 1 .. Len(w) : s.bits[a + i] = w[i]

\* At the end of the stream bs_fill adds nothing.
LEMMA FillByteEnds ==
  ASSUME NEW s, Carries(s), NEW r \in Reader, NEW a \in Nat, Ahead(s, r, a, s.n)
  PROVE  /\ Ahead(s, FillByte(s.data, r), a, s.n)
         /\ FillByte(s.data, r).buf = r.buf
<1> DEFINE f == FillByte(s.data, r)
<1>1. /\ s.from \in Nat /\ s.n \in Nat /\ s.off \in [0 .. s.n -> Nat] /\ IsData(s.data)
      /\ \/ EndOf(s) > Len(s.data)
         \/ s.data[EndOf(s)] = 255 /\ (EndOf(s) = Len(s.data) \/ s.data[EndOf(s) + 1] # 0)
  BY DEF Carries
<1>2. PICK m \in Nat : m = EndOf(s)
  <2>1. s.off[s.n] \in Nat
    BY <1>1
  <2> QED
    BY <1>1, <2>1 DEF EndOf
<1>3. Len(s.data) \in Nat
  BY <1>1 DEF IsData
<1>4. r.pos = m \/ (r.pos = m + 1 /\ m = Len(s.data))
  BY <1>2 DEF Ahead, EndOf
<1>5. CASE f = r
  BY <1>5
<1>6. CASE f = [r EXCEPT !.pos = @ + 1] /\ r.pos = m /\ m = Len(s.data)
  <2>1. f.buf = r.buf /\ f.pos = m + 1
    BY <1>6 DEF Reader
  <2> HIDE DEF f
  <2>2. Ahead(s, f, a, s.n)
    BY <1>2, <1>6, <2>1 DEF Ahead
  <2> QED
    BY <2>1, <2>2 DEF f
<1>7. f = r \/ (f = [r EXCEPT !.pos = @ + 1] /\ r.pos = m /\ m = Len(s.data))
  <2>1. CASE r.pos > Len(s.data)
    BY <2>1 DEF FillByte
  <2>2. CASE ~(r.pos > Len(s.data))
    <3>1. r.pos = m
      BY <1>3, <1>4, <2>2
    <3>2. s.data[m] = FF /\ (m = Len(s.data) \/ s.data[m + 1] # 0)
      BY <1>1, <1>2, <1>3, <2>2, <3>1, JpegNumbers
    <3> QED
      BY <3>1, <3>2 DEF FillByte
  <2> QED
    BY <2>1, <2>2
<1> QED
  BY <1>5, <1>6, <1>7

\* Before the end it adds the next byte.
LEMMA FillByteReads ==
  ASSUME NEW s, Carries(s), NEW r \in Reader, NEW a \in Nat, NEW k \in Nat, k < s.n,
         Ahead(s, r, a, k), Len(r.buf) <= Prefetch
  PROVE  /\ Ahead(s, FillByte(s.data, r), a, k + 1)
         /\ Len(FillByte(s.data, r).buf) = Len(r.buf) + 8
<1> DEFINE f == FillByte(s.data, r)
<1>1. /\ s.from \in Nat /\ s.n \in Nat /\ s.off \in [0 .. s.n -> Nat] /\ IsData(s.data)
      /\ CarriesByte(s, k + 1)
  <2>1. k + 1 \in 1 .. s.n
    BY DEF Carries
  <2> QED
    BY <2>1 DEF Carries
<1>2. PICK p \in Nat, o \in Nat, l \in Nat :
        p = ByteAt(s, k + 1) /\ o = s.off[k + 1] /\ l = Len(s.data)
  <2>1. s.off[k] \in Nat /\ s.off[k + 1] \in Nat /\ (k + 1) - 1 = k
    BY <1>1
  <2>2. Len(s.data) \in Nat
    BY <1>1 DEF IsData
  <2>3. ByteAt(s, k + 1) \in Nat
    BY <1>1, <2>1 DEF ByteAt
  <2> QED
    BY <2>1, <2>2, <2>3
<1>3. p = s.from + s.off[k] + 1 /\ s.off[k] \in Nat /\ (k + 1) - 1 = k
  BY <1>1, <1>2 DEF ByteAt
<1>4. r.pos = p /\ a + Len(r.buf) = 8 * k
      /\ \A i \in 1 .. Len(r.buf) : r.buf[i] = s.bits[a + i]
  BY <1>3 DEF Ahead
<1>5. /\ \A i \in 1 .. 8 : BitsOf(s.data[p])[i] = s.bits[8 * k + i]
      /\ \/ s.data[p] # 255 /\ s.from + o = p
         \/ s.data[p] = 255 /\ s.from + o = p + 1 /\ s.data[p + 1] = 0
      /\ s.from + o <= l
  <2>1. \A i \in 1 .. 8 : BitsOf(s.data[p])[i] = s.bits[8 * k + i]
    <3>1. \A i \in 1 .. 8 : BitsOf(s.data[p])[i] = s.bits[8 * ((k + 1) - 1) + i]
      BY <1>1, <1>2 DEF CarriesByte
    <3> QED
      BY <1>3, <3>1
  <2>2. /\ \/ s.data[p] # 255 /\ o = s.off[k] + 1
           \/ s.data[p] = 255 /\ o = s.off[k] + 2 /\ s.data[p + 1] = 0
        /\ s.from + o <= l
    BY <1>1, <1>2, <1>3 DEF CarriesByte
  <2>3. PICK q \in Nat, e \in Nat : q = s.off[k] /\ e = s.from
    BY <1>1, <1>3
  <2>4. p = e + q + 1
    BY <1>3, <2>3
  <2>5. (o = q + 1 => e + o = p) /\ (o = q + 2 => e + o = p + 1)
    BY <2>4
  <2> QED
    BY <2>1, <2>2, <2>3, <2>5
<1>6. p <= l
  BY <1>5
<1>7. s.data[p] \in Nat
  <2>1. p # 0
    <3>1. PICK q \in Nat, e \in Nat : q = s.off[k] /\ e = s.from
      BY <1>1, <1>3
    <3> QED
      BY <1>3, <3>1
  <2>2. p \in 1 .. l
    BY <1>6, <2>1
  <2> QED
    BY <1>1, <1>2, <2>2 DEF IsData
<1>8. PICK b \in Seq({0, 1}) : b = BitsOf(s.data[p]) /\ Len(b) = 8
  <2>1. BitsOf(s.data[p]) \in Seq({0, 1})
    BY <1>7, BitsOfType
  <2>2. Len(BitsOf(s.data[p])) = 8
    BY JpegNumbers DEF BitsOf
  <2> QED
    BY <2>1, <2>2
<1>9. f = [r EXCEPT !.pos = s.from + o + 1, !.buf = r.buf \o b]
  <2>1. ~(Len(r.buf) > Prefetch) /\ ~(r.pos > Len(s.data))
    <3>1. Len(r.buf) \in Nat /\ Prefetch \in Nat
      BY JpegNumbers DEF Reader
    <3> QED
      BY <1>2, <1>4, <1>6, <3>1
  <2>2. CASE s.data[p] # 255
    <3>1. f = [r EXCEPT !.pos = r.pos + 1, !.buf = r.buf \o BitsOf(s.data[p])]
      BY <1>4, <2>1, <2>2, JpegNumbers DEF FillByte
    <3>2. r.pos + 1 = s.from + o + 1
      BY <1>4, <1>5, <2>2
    <3> QED
      BY <1>8, <3>1, <3>2
  <2>3. CASE s.data[p] = 255
    <3>1. s.from + o = p + 1 /\ s.data[p + 1] = 0 /\ p # Len(s.data)
      BY <1>2, <1>5, <2>3
    <3>2. f = [r EXCEPT !.pos = r.pos + 2, !.buf = r.buf \o BitsOf(FF)]
      BY <1>4, <2>1, <2>3, <3>1, JpegNumbers DEF FillByte
    <3>3. r.pos + 2 = s.from + o + 1 /\ FF = s.data[p]
      BY <1>1, <1>4, <2>3, <3>1, JpegNumbers
    <3> QED
      BY <1>8, <3>2, <3>3
  <2> QED
    BY <2>2, <2>3
<1> HIDE DEF f
<1>10. PICK u \in Seq({0, 1}) : u = r.buf
  BY DEF Reader
<1>11. f.pos = s.from + s.off[k + 1] + 1 /\ f.buf = u \o b
  BY <1>2, <1>9, <1>10 DEF Reader
<1>12. /\ u \o b \in Seq({0, 1}) /\ Len(u \o b) = Len(u) + Len(b)
       /\ \A i \in 1 .. Len(u) : (u \o b)[i] = u[i]
       /\ \A i \in 1 .. Len(b) : (u \o b)[Len(u) + i] = b[i]
  BY ConcatIs
<1>13. PICK n \in Nat : n = Len(u)
  OBVIOUS
<1>14. PICK v : v = f.buf
  OBVIOUS
<1>15. /\ Len(v) = n + 8
       /\ \A i \in 1 .. n : v[i] = s.bits[a + i]
  BY <1>4, <1>8, <1>10, <1>11, <1>12, <1>13, <1>14
<1>16. \A i \in 1 .. 8 : v[n + i] = s.bits[8 * k + i]
  <2>1. v = u \o b /\ \A i \in 1 .. 8 : b[i] = s.bits[8 * k + i]
    BY <1>5, <1>8, <1>11, <1>14
  <2>2. \A i \in 1 .. 8 : (u \o b)[n + i] = b[i]
    BY <1>8, <1>12, <1>13
  <2> QED
    BY <2>1, <2>2
<1>17. a + n = 8 * k
  BY <1>4, <1>10, <1>13
<1>18. a + (n + 8) = 8 * (k + 1)
  BY <1>17
<1>19. ASSUME NEW i \in 1 .. n + 8 PROVE v[i] = s.bits[a + i]
  <2>1. CASE i \in 1 .. n
    BY <1>15, <2>1
  <2>2. CASE i \notin 1 .. n
    <3>1. PICK j \in 1 .. 8 : i = n + j
      <4>1. i - n \in 1 .. 8 /\ i = n + (i - n)
        BY <2>2
      <4> QED
        BY <4>1
    <3>2. a + i = 8 * k + j
      BY <1>17, <3>1
    <3> QED
      BY <1>16, <3>1, <3>2
  <2> QED
    BY <2>1, <2>2
<1>20. Len(f.buf) = n + 8 /\ \A i \in 1 .. n + 8 : f.buf[i] = s.bits[a + i]
  BY <1>14, <1>15, <1>19
<1>21. Ahead(s, f, a, k + 1)
  BY <1>11, <1>18, <1>20 DEF Ahead
<1> QED
  BY <1>10, <1>13, <1>20, <1>21 DEF f

\* bs_fill goes on until it has more than Prefetch bits or the stream ends.
Filled(s, r, a) == Len(r.buf) > Prefetch \/ a + Len(r.buf) = Len(s.bits)

LEMMA FillByteStays ==
  ASSUME NEW s, Carries(s), NEW r, NEW a, Reading(s, r, a), Filled(s, r, a)
  PROVE  /\ Reading(s, FillByte(s.data, r), a)
         /\ FillByte(s.data, r).buf = r.buf
<1>1. r \in Reader /\ a \in Nat /\ Len(r.buf) \in Nat /\ Prefetch \in Nat
  BY JpegNumbers DEF Reading, Reader
<1>2. PICK k \in 0 .. s.n : Ahead(s, r, a, k)
  BY DEF Reading
<1>3. CASE Len(r.buf) > Prefetch
  <2>1. FillByte(s.data, r) = r
    BY <1>3 DEF FillByte
  <2> QED
    BY <2>1
<1>4. CASE a + Len(r.buf) = Len(s.bits)
  <2>1. k = s.n
    <3>1. a + Len(r.buf) = 8 * k
      BY <1>2 DEF Ahead
    <3>2. Len(s.bits) = 8 * s.n /\ s.n \in Nat
      BY DEF Carries
    <3>3. PICK n \in Nat, j \in Nat : n = s.n /\ j = k
      BY <3>2
    <3>4. 8 * n = 8 * j
      BY <1>4, <3>1, <3>2, <3>3
    <3>5. n = j
      BY <3>4
    <3> QED
      BY <3>3, <3>5
  <2>2. Ahead(s, FillByte(s.data, r), a, s.n) /\ FillByte(s.data, r).buf = r.buf
    BY <1>1, <1>2, <2>1, FillByteEnds
  <2>3. FillByte(s.data, r) \in Reader
    <3>1. IsData(s.data)
      BY DEF Carries
    <3> QED
      BY <1>1, <3>1, FillByteType
  <2>4. s.n \in 0 .. s.n
    BY <2>1
  <2> QED
    BY <1>1, <2>2, <2>3, <2>4 DEF Reading
<1> QED
  BY <1>3, <1>4 DEF Filled

LEMMA FillByteGoesOn ==
  ASSUME NEW s, Carries(s), NEW r, NEW a, Reading(s, r, a), ~Filled(s, r, a)
  PROVE  /\ Reading(s, FillByte(s.data, r), a)
         /\ Len(FillByte(s.data, r).buf) = Len(r.buf) + 8
<1>1. r \in Reader /\ a \in Nat /\ Len(r.buf) \in Nat /\ Prefetch \in Nat
  BY JpegNumbers DEF Reading, Reader
<1>2. PICK k \in 0 .. s.n : Ahead(s, r, a, k)
  BY DEF Reading
<1>3. s.n \in Nat /\ Len(s.bits) = 8 * s.n /\ IsData(s.data)
  BY DEF Carries
<1>4. Len(r.buf) <= Prefetch /\ a + Len(r.buf) # 8 * s.n
  BY <1>1, <1>3 DEF Filled
<1>5. k # s.n
  BY <1>2, <1>4 DEF Ahead
<1>6. k \in Nat /\ k < s.n /\ k + 1 \in 0 .. s.n
  BY <1>3, <1>5
<1>7. Ahead(s, FillByte(s.data, r), a, k + 1)
      /\ Len(FillByte(s.data, r).buf) = Len(r.buf) + 8
  BY <1>1, <1>2, <1>4, <1>6, FillByteReads
<1>8. FillByte(s.data, r) \in Reader
  BY <1>1, <1>3, FillByteType
<1> QED
  BY <1>1, <1>6, <1>7, <1>8 DEF Reading

LEMMA FillReads ==
  ASSUME NEW s, Carries(s), NEW r, NEW a, Reading(s, r, a)
  PROVE  /\ Reading(s, Fill(s.data, r), a)
         /\ Filled(s, Fill(s.data, r), a)
<1>1. r \in Reader /\ a \in Nat /\ IsData(s.data) /\ Prefetch \in Nat /\ ByteBits = 8
  BY JpegNumbers DEF Reading, Carries
<1>2. PICK n \in Nat : \E x : FillRun(x, n, s.data, r)
  BY <1>1, FillRuns
<1>0. PICK x : FillRun(x, n, s.data, r)
  BY <1>2
<1>3. /\ n = 1 + Prefetch \div ByteBits /\ x \in [0 .. n -> Reader]
      /\ x[0] = r /\ \A k \in 1 .. n : x[k] = FillByte(s.data, x[k - 1])
      /\ Fill(s.data, r) = x[n]
  BY <1>0 DEF FillRun
<1>4. 8 * n > Prefetch
  <2>1. n = 1 + Prefetch \div 8
    BY <1>1, <1>3
  <2> QED
    BY <1>1, <2>1
<1> DEFINE Good(k) == Reading(s, x[k], a) /\ (Filled(s, x[k], a) \/ Len(x[k].buf) >= 8 * k)
           T == {k \in Nat : k <= n => Good(k)}
<1>5. 0 \in T
  <2>1. Len(r.buf) \in Nat
    BY <1>1 DEF Reader
  <2>2. Good(0)
    BY <1>3, <2>1
  <2> QED
    BY <2>2
<1>6. ASSUME NEW k \in Nat, k \in T PROVE k + 1 \in T
  <2> SUFFICES ASSUME k + 1 <= n PROVE Good(k + 1)
    <3>1. k + 1 \in Nat
      OBVIOUS
    <3> QED
      BY <3>1, Zenon
  <2>1. k + 1 \in 1 .. n /\ (k + 1) - 1 = k /\ k \in 0 .. n /\ k <= n
    OBVIOUS
  <2>2. PICK y, z : y = x[k] /\ z = x[k + 1]
    OBVIOUS
  <2>3. /\ z = FillByte(s.data, y) /\ Reading(s, y, a) /\ y \in Reader
        /\ Filled(s, y, a) \/ Len(y.buf) >= 8 * k
    BY <1>3, <1>6, <2>1, <2>2
  <2>4. CASE Filled(s, y, a)
    <3>1. Reading(s, z, a) /\ z.buf = y.buf
      BY <2>3, <2>4, FillByteStays
    <3>2. Filled(s, z, a)
      BY <2>4, <3>1 DEF Filled
    <3> QED
      BY <2>2, <3>1, <3>2
  <2>5. CASE ~Filled(s, y, a)
    <3>1. Reading(s, z, a) /\ Len(z.buf) = Len(y.buf) + 8
      BY <2>3, <2>5, FillByteGoesOn
    <3>2. Len(y.buf) \in Nat /\ Len(y.buf) >= 8 * k
      BY <2>3, <2>5 DEF Reader
    <3>3. Len(z.buf) >= 8 * (k + 1)
      BY <3>1, <3>2
    <3> QED
      BY <2>2, <3>1, <3>3
  <2> QED
    BY <2>4, <2>5
<1> HIDE DEF T
<1>7. n \in T
  BY <1>2, <1>5, <1>6, Induction
<1>8. Good(n)
  <2>1. n <= n
    OBVIOUS
  <2> QED
    BY <1>7, <2>1 DEF T
<1>9. PICK y : y = x[n] /\ y \in Reader
  <2>1. n \in 0 .. n
    OBVIOUS
  <2> QED
    BY <1>3, <2>1
<1>10. Reading(s, y, a) /\ (Filled(s, y, a) \/ Len(y.buf) >= 8 * n) /\ Len(y.buf) \in Nat
  BY <1>8, <1>9 DEF Reader
<1>11. Filled(s, y, a)
  BY <1>1, <1>4, <1>10 DEF Filled
<1> QED
  BY <1>3, <1>9, <1>10, <1>11

\* bs_get gives the bits that are in the stream.
Gets(s, r, a, w, n) ==
  LET g == Get(s.data, r, n)
  IN  g.ok /\ g.val = Value(w) /\ Reading(s, g.r, a + n)

LEMMA GetReads ==
  ASSUME NEW s, Carries(s), NEW r, NEW a, Reading(s, r, a),
         NEW w \in Seq({0, 1}), Found(s, a, w), NEW n \in 0 .. 16, Len(w) = n
  PROVE  Gets(s, r, a, w, n)
<1> DEFINE f == IF Len(r.buf) < n THEN Fill(s.data, r) ELSE r
<1>1. Reading(s, f, a)
  BY FillReads
<1>2. Get(s.data, r, n) = Taken(f, n)
  BY DEF Get
<1>3. Len(f.buf) < n => Filled(s, f, a)
  BY FillReads
<1> HIDE DEF f
<1>4. /\ f \in Reader /\ a \in Nat /\ Prefetch \in Nat /\ Prefetch >= 16
      /\ s.n \in Nat /\ Len(s.bits) = 8 * s.n
  BY <1>1, JpegNumbers DEF Reading, Carries
<1>5. PICK b \in Seq({0, 1}), m \in Nat : b = f.buf /\ m = Len(b)
  BY <1>4 DEF Reader
<1>6. PICK k \in 0 .. s.n : Ahead(s, f, a, k)
  BY <1>1 DEF Reading
<1>7. a + m = 8 * k /\ \A i \in 1 .. m : b[i] = s.bits[a + i]
  BY <1>5, <1>6 DEF Ahead
<1>8. n <= m
  <2> SUFFICES ASSUME m < n PROVE FALSE
    OBVIOUS
  <2>1. m > Prefetch \/ a + m = Len(s.bits)
    BY <1>3, <1>5 DEF Filled
  <2>2. a + n <= Len(s.bits)
    BY DEF Found
  <2>3. PICK l \in Nat, p \in Nat, c \in Nat : l = Len(s.bits) /\ p = Prefetch /\ c = a
    BY <1>4
  <2>4. (m > p \/ c + m = l) /\ c + n <= l /\ p >= 16
    BY <1>4, <2>1, <2>2, <2>3
  <2> QED
    BY <2>4
<1>9. SubSeq(b, 1, n) = w
  <2>1. SubSeq(b, 1, n) = [i \in 1 .. n |-> b[i]]
    BY <1>5, <1>8
  <2>2. ASSUME NEW i \in 1 .. n PROVE b[i] = w[i]
    BY <1>7, <1>8 DEF Found
  <2>3. w = [i \in 1 .. n |-> w[i]]
    OBVIOUS
  <2> QED
    BY <2>1, <2>2, <2>3
<1>10. PICK t \in Seq({0, 1}) :
         /\ t = SubSeq(b, n + 1, m) /\ Len(t) = m - n
         /\ \A i \in 1 .. m - n : t[i] = b[n + i]
  <2> DEFINE t == SubSeq(b, n + 1, m)
  <2>1. t \in Seq({0, 1}) /\ Len(t) = m - n
    BY <1>5, <1>8
  <2>2. \A i \in 1 .. m - n : t[i] = b[n + i]
    BY <1>5, <1>8
  <2> QED
    BY <2>1, <2>2
<1>11. Taken(f, n) = [ok |-> TRUE, val |-> Value(w), r |-> [f EXCEPT !.buf = t]]
  <2>1. ~(Len(f.buf) < n)
    BY <1>5, <1>8
  <2>2. SubSeq(f.buf, 1, n) = w /\ SubSeq(f.buf, n + 1, Len(f.buf)) = t
    BY <1>5, <1>9, <1>10
  <2> QED
    BY <2>1, <2>2 DEF Taken
<1>12. PICK g \in Reader : g = [f EXCEPT !.buf = t] /\ g.buf = t /\ g.pos = f.pos
  <2>1. PICK g : g = [f EXCEPT !.buf = t]
    OBVIOUS
  <2>2. g.buf = t /\ g.pos = f.pos
    BY <1>4, <2>1 DEF Reader
  <2>3. t \in Seq({0, 1})
    BY <1>10
  <2>4. g \in Reader
    BY <1>4, <2>1, <2>3 DEF Reader
  <2> QED
    BY <2>1, <2>2, <2>4
<1>13. Ahead(s, g, a + n, k)
  <2>1. (a + n) + Len(t) = 8 * k
    <3>1. PICK c \in Nat, e \in Nat : c = a /\ e = m - n
      BY <1>4, <1>8
    <3>2. (c + n) + e = c + m
      BY <3>1
    <3> QED
      BY <1>7, <1>10, <3>1, <3>2
  <2>2. ASSUME NEW i \in 1 .. Len(t) PROVE t[i] = s.bits[(a + n) + i]
    <3>1. n + i \in 1 .. m /\ i \in 1 .. m - n /\ a + (n + i) = (a + n) + i
      BY <1>4, <1>8, <1>10
    <3>2. t[i] = b[n + i] /\ b[n + i] = s.bits[a + (n + i)]
      BY <1>7, <1>10, <3>1
    <3> QED
      BY <3>1, <3>2
  <2> QED
    BY <1>6, <1>12, <2>1, <2>2 DEF Ahead
<1>14. a + n \in Nat
  BY <1>4
<1>15. Get(s.data, r, n) = [ok |-> TRUE, val |-> Value(w), r |-> g]
  BY <1>2, <1>11, <1>12
<1>16. Reading(s, g, a + n)
  BY <1>2, <1>12, <1>13, <1>14 DEF Reading
<1> QED
  BY <1>15, <1>16 DEF Gets

-----------------------------------------------------------------------------
(* Huffman codes *)

\* A table as Annex C makes it: upto[len] codes have at most len bits, and the codes
\* of len bits are the numbers from first[len] on.
Canonical(ht, counts, upto, first) ==
  /\ upto \in [0 .. MaxLen -> Nat] /\ upto[0] = 0
  /\ \A len \in 1 .. MaxLen : upto[len] = upto[len - 1] + counts[len]
  /\ first \in [1 .. MaxLen -> Nat] /\ first[1] = 0
  /\ \A len \in 2 .. MaxLen : first[len] = 2 * (first[len - 1] + counts[len - 1])
  /\ Len(ht.symbols) = upto[MaxLen]
  /\ \A len \in 1 .. MaxLen :
       /\ ht.min[len] = first[len] /\ ht.ptr[len] = upto[len - 1]
       /\ ht.max[len] = IF counts[len] = 0 THEN -1 ELSE first[len] + counts[len] - 1

LEMMA BuildHuffIs ==
  ASSUME NEW counts \in [1 .. MaxLen -> Nat], NEW symbols \in Seq(0 .. 255),
         Len(symbols) = Sum(counts)
  PROVE  /\ BuildHuff(counts, symbols).symbols = symbols
         /\ \E upto, first : Canonical(BuildHuff(counts, symbols), counts, upto, first)
<1> DEFINE n == MaxLen
           CDef(f) == [len \in 1 .. n |->
                         IF len = 1 THEN 0 ELSE 2 * (f[len - 1] + counts[len - 1])]
           BDef(f) == [len \in 1 .. n |->
                         IF len = 1 THEN 0 ELSE f[len - 1] + counts[len - 1]]
           code == CHOOSE f : f = CDef(f)
           before == CHOOSE f : f = BDef(f)
           ht == BuildHuff(counts, symbols)
<1>1. n \in Nat /\ n > 0 /\ \A k \in 1 .. n : counts[k] \in Nat
  BY JpegConstants
<1>2. ht = [min |-> [len \in 1 .. MaxLen |-> code[len]],
            max |-> [len \in 1 .. MaxLen |->
                       IF counts[len] = 0 THEN -1 ELSE code[len] + counts[len] - 1],
            ptr |-> [len \in 1 .. MaxLen |-> before[len]],
            symbols |-> symbols]
  BY DEF BuildHuff
<1>3. code = CDef(code)
  <2> DEFINE G == [x \in Nat \X (1 .. n) |-> 2 * (x[1] + counts[x[2]])]
  <2>1. G \in [Nat \X (1 .. n) -> Nat]
    BY <1>1
  <2>2. PICK f \in [1 .. n -> Nat] :
               f[1] = 0 /\ \A k \in 2 .. n : f[k] = G[<<f[k - 1], k - 1>>]
    BY <1>1, <2>1, Chain
  <2>3. ASSUME NEW k \in 2 .. n PROVE f[k] = 2 * (f[k - 1] + counts[k - 1])
    <3>1. k - 1 \in 1 .. n
      BY <1>1
    <3>2. <<f[k - 1], k - 1>> \in Nat \X (1 .. n)
      BY <2>2, <3>1
    <3> QED
      BY <2>2, <3>2
  <2>4. f = CDef(f)
    BY <1>1, <2>2, <2>3
  <2> QED
    BY <2>4
<1>4. before = BDef(before)
  <2> DEFINE G == [x \in Nat \X (1 .. n) |-> x[1] + counts[x[2]]]
  <2>1. G \in [Nat \X (1 .. n) -> Nat]
    BY <1>1
  <2>2. PICK f \in [1 .. n -> Nat] :
               f[1] = 0 /\ \A k \in 2 .. n : f[k] = G[<<f[k - 1], k - 1>>]
    BY <1>1, <2>1, Chain
  <2>3. ASSUME NEW k \in 2 .. n PROVE f[k] = f[k - 1] + counts[k - 1]
    <3>1. k - 1 \in 1 .. n
      BY <1>1
    <3>2. <<f[k - 1], k - 1>> \in Nat \X (1 .. n)
      BY <2>2, <3>1
    <3> QED
      BY <2>2, <3>2
  <2>4. f = BDef(f)
    BY <1>1, <2>2, <2>3
  <2> QED
    BY <2>4
<1> HIDE DEF code, before, ht
<1>5. code[1] = 0 /\ \A k \in 2 .. n : code[k] = 2 * (code[k - 1] + counts[k - 1])
  BY <1>1, <1>3
<1>6. before[1] = 0 /\ \A k \in 2 .. n : before[k] = before[k - 1] + counts[k - 1]
  BY <1>1, <1>4
<1>7. PICK a \in [0 .. n -> Nat] :
        /\ a[0] = 0 /\ \A k \in 1 .. n : a[k] = a[k - 1] + counts[k]
        /\ Len(symbols) = a[n]
  BY SumIs
<1>8. \A k \in 1 .. n : code[k] \in Nat /\ before[k] = a[k - 1] /\ a[k] <= a[n]
  <2> DEFINE S == {k \in Nat : k + 1 <= n => code[k + 1] \in Nat /\ before[k + 1] = a[k]}
             U == {k \in Nat : k <= n => a[n - k] <= a[n]}
  <2>1. 0 \in S /\ 0 \in U
    BY <1>1, <1>5, <1>6, <1>7
  <2>2. ASSUME NEW k \in Nat, k \in S PROVE k + 1 \in S
    <3> SUFFICES ASSUME (k + 1) + 1 <= n
                 PROVE  code[(k + 1) + 1] \in Nat /\ before[(k + 1) + 1] = a[k + 1]
      OBVIOUS
    <3>1. (k + 1) + 1 \in 2 .. n /\ k + 1 \in 1 .. n /\ ((k + 1) + 1) - 1 = k + 1
          /\ (k + 1) - 1 = k
      BY <1>1
    <3>2. code[k + 1] \in Nat /\ before[k + 1] = a[k]
      BY <2>2, <3>1
    <3> HIDE DEF S
    <3>3. code[(k + 1) + 1] = 2 * (code[k + 1] + counts[k + 1])
      BY <1>5, <3>1
    <3>4. before[(k + 1) + 1] = before[k + 1] + counts[k + 1]
      BY <1>6, <3>1
    <3>5. a[k + 1] = a[k] + counts[k + 1]
      BY <1>7, <3>1
    <3>6. counts[k + 1] \in Nat
      BY <1>1, <3>1
    <3>7. 2 * (code[k + 1] + counts[k + 1]) \in Nat
      BY <3>2, <3>6
    <3> QED
      BY <3>2, <3>3, <3>4, <3>5, <3>7
  <2>3. ASSUME NEW k \in Nat, k \in U PROVE k + 1 \in U
    <3> SUFFICES ASSUME k + 1 <= n PROVE a[n - (k + 1)] <= a[n]
      OBVIOUS
    <3>1. n - k \in 1 .. n /\ (n - k) - 1 = n - (k + 1) /\ n - (k + 1) \in 0 .. n
      BY <1>1
    <3>2. a[n - k] <= a[n]
      <4>1. k <= n
        BY <1>1
      <4> QED
        BY <2>3, <4>1
    <3>3. a[n - k] = a[n - (k + 1)] + counts[n - k] /\ counts[n - k] \in Nat
      BY <1>1, <1>7, <3>1
    <3>4. a[n - k] \in Nat /\ a[n - (k + 1)] \in Nat /\ a[n] \in Nat
      BY <1>1, <1>7, <3>1
    <3> QED
      BY <3>2, <3>3, <3>4
  <2> HIDE DEF S, U
  <2>4. \A k \in Nat : k \in S
    BY <2>1, <2>2, Induction
  <2>5. \A k \in Nat : k \in U
    BY <2>1, <2>3, Induction
  <2>6. ASSUME NEW k \in 1 .. n
        PROVE  code[k] \in Nat /\ before[k] = a[k - 1] /\ a[k] <= a[n]
    <3>1. k - 1 \in Nat /\ (k - 1) + 1 = k /\ n - k \in Nat /\ n - (n - k) = k
      BY <1>1
    <3>2. k - 1 \in S /\ n - k \in U
      BY <2>4, <2>5, <3>1
    <3> QED
      BY <1>1, <3>1, <3>2 DEF S, U
  <2> QED
    BY <2>6
<1>9. \A k \in 1 .. n : before[k] \in Nat
  <2> TAKE k \in 1 .. n
  <2>1. k - 1 \in 0 .. n
    BY <1>1
  <2> QED
    BY <1>7, <1>8, <2>1
<1>10. ASSUME NEW len \in 1 .. n
       PROVE  /\ ht.min[len] = code[len] /\ ht.ptr[len] = before[len]
              /\ ht.max[len] = IF counts[len] = 0 THEN -1 ELSE code[len] + counts[len] - 1
              /\ ht.symbols = symbols /\ counts[len] \in Nat
              /\ code[len] \in Nat /\ before[len] \in Nat
  BY <1>1, <1>2, <1>8, <1>9
<1>11. code \in [1 .. n -> Nat]
  BY <1>3, <1>8
<1>12. ht.symbols = symbols
  BY <1>2
<1>13. Canonical(ht, counts, a, code)
  <2>1. \A len \in 1 .. n : ht.ptr[len] = a[len - 1]
    BY <1>8, <1>10
  <2> QED
    BY <1>5, <1>7, <1>10, <1>11, <1>12, <2>1 DEF Canonical
<1> QED
  BY <1>12, <1>13 DEF ht

LEMMA UptoRises ==
  ASSUME NEW counts \in [1 .. 16 -> Nat], NEW upto \in [0 .. 16 -> Nat],
         \A len \in 1 .. 16 : upto[len] = upto[len - 1] + counts[len],
         NEW x \in 0 .. 16, NEW y \in 0 .. 16, x <= y
  PROVE  upto[x] <= upto[y]
<1> DEFINE T == {m \in Nat : x + m <= 16 => upto[x] <= upto[x + m]}
<1>1. 0 \in T
  <2>1. x + 0 = x /\ upto[x] \in Nat
    OBVIOUS
  <2> QED
    BY <2>1
<1>2. ASSUME NEW m \in Nat, m \in T PROVE m + 1 \in T
  <2> SUFFICES ASSUME x + (m + 1) <= 16 PROVE upto[x] <= upto[x + (m + 1)]
    OBVIOUS
  <2>1. PICK z \in 1 .. 16 : x + (m + 1) = z /\ x + m = z - 1 /\ z - 1 \in 0 .. 16
    OBVIOUS
  <2>2. upto[x] <= upto[z - 1]
    <3>1. x + m <= 16
      BY <2>1
    <3>2. upto[x] <= upto[x + m]
      BY <1>2, <3>1
    <3> QED
      BY <2>1, <3>2
  <2>3. upto[z] = upto[z - 1] + counts[z] /\ counts[z] \in Nat
    OBVIOUS
  <2>4. upto[z] \in Nat /\ upto[z - 1] \in Nat /\ upto[x] \in Nat
    BY <2>1
  <2> QED
    BY <2>1, <2>2, <2>3, <2>4
<1> HIDE DEF T
<1>3. y - x \in T
  <2>1. y - x \in Nat
    OBVIOUS
  <2> QED
    BY <1>1, <1>2, <2>1, Induction
<1>4. x + (y - x) = y
  OBVIOUS
<1> QED
  BY <1>3, <1>4 DEF T

\* The codes of a length begin behind those of the lengths before it, and there if
\* the lengths in between have no codes.
LEMMA FirstGrows ==
  ASSUME NEW counts \in [1 .. 16 -> Nat], NEW first \in [1 .. 16 -> Nat],
         \A len \in 1 .. 15 : first[len + 1] = 2 * (first[len] + counts[len]),
         NEW x \in 1 .. 16, NEW y \in 1 .. 16, x < y
  PROVE  /\ first[y] >= (first[x] + counts[x]) * 2 ^ (y - x)
         /\ (\A len \in x + 1 .. y - 1 : counts[len] = 0)
              => first[y] = (first[x] + counts[x]) * 2 ^ (y - x)
<1>1. PICK c \in Nat : first[x] + counts[x] = c
  OBVIOUS
<1> DEFINE Good(m) ==
      /\ first[x + m] >= c * 2 ^ m
      /\ (\A len \in x + 1 .. x + m - 1 : counts[len] = 0) => first[x + m] = c * 2 ^ m
           T == {m \in Nat : m > 0 /\ x + m <= 16 => Good(m)}
<1>2. 0 \in T
  OBVIOUS
<1>3. ASSUME NEW m \in Nat, m \in T PROVE m + 1 \in T
  <2> SUFFICES ASSUME x + (m + 1) <= 16 PROVE Good(m + 1)
    <3>1. m + 1 \in Nat
      OBVIOUS
    <3> QED
      BY <3>1, Zenon
  <2>1. x + m \in 1 .. 15 /\ (x + m) + 1 = x + (m + 1) /\ m \in 0 .. 15
    OBVIOUS
  <2>2. PICK f \in Nat, k \in Nat, z \in Nat :
          first[x + m] = f /\ counts[x + m] = k /\ 2 ^ m = z
    BY <2>1, PowersType
  <2>3. first[x + (m + 1)] = 2 * (f + k)
    BY <2>1, <2>2
  <2>4. 2 ^ (m + 1) = 2 * z
    BY <2>1, <2>2, PowerStep
  <2>5. c * (2 * z) = 2 * (c * z) /\ c * z \in Nat
    OBVIOUS
  <2>6. CASE m = 0
    <3>1. x + m = x /\ x + (m + 1) - 1 = x /\ z = 1 /\ f + k = c
      BY <1>1, <2>2, <2>6
    <3>2. first[x + (m + 1)] = 2 * c /\ c * 2 ^ (m + 1) = 2 * c
      BY <2>3, <2>4, <3>1
    <3> QED
      BY <1>1, <3>2
  <2>7. CASE m # 0
    <3>1. Good(m)
      BY <1>3, <2>1, <2>7
    <3>2. PICK e \in Nat : c * z = e
      BY <2>5
    <3>3. f >= e
      BY <2>2, <3>1, <3>2
    <3>4. 2 * (f + k) >= 2 * e
      BY <3>3
    <3>5. ASSUME \A len \in x + 1 .. x + (m + 1) - 1 : counts[len] = 0
          PROVE  2 * (f + k) = 2 * e
      <4>1. \A len \in x + 1 .. x + m - 1 : counts[len] = 0
        BY <3>5
      <4>2. f = e
        BY <2>2, <3>1, <3>2, <4>1
      <4>3. x + m \in x + 1 .. x + (m + 1) - 1
        BY <2>7
      <4>4. k = 0
        BY <2>2, <3>5, <4>3
      <4> QED
        BY <4>2, <4>4
    <3> QED
      BY <2>3, <2>4, <2>5, <3>2, <3>4, <3>5
  <2> QED
    BY <2>6, <2>7
<1> HIDE DEF T
<1>4. y - x \in T
  <2>1. y - x \in Nat
    OBVIOUS
  <2> QED
    BY <1>2, <1>3, <2>1, Induction
<1>5. Good(y - x)
  <2>1. y - x > 0 /\ x + (y - x) <= 16
    OBVIOUS
  <2> QED
    BY <1>4, <2>1 DEF T
<1>6. x + (y - x) = y
  OBVIOUS
<1> QED
  BY <1>1, <1>5, <1>6

LEMMA SumRuns ==
  ASSUME NEW s \in Seq(Nat)
  PROVE  \E a \in [0 .. Len(s) -> Nat] :
           /\ a[0] = 0 /\ a[Len(s)] = Sum(s)
           /\ \A k \in 1 .. Len(s) : a[k] = a[k - 1] + s[k]
<1> DEFINE n == Len(s)
           Def(a) == [k \in 0 .. n |-> IF k = 0 THEN 0 ELSE a[k - 1] + s[k]]
           F == [x \in Nat \X (1 .. n) |-> x[1] + s[x[2]]]
           A == CHOOSE a : a = Def(a)
<1>1. n \in Nat /\ \A k \in 1 .. n : s[k] \in Nat
  OBVIOUS
<1>2. Sum(s) = A[n]
  BY DEF Sum, Each, A, n
<1> HIDE DEF n
<1>3. F \in [Nat \X (1 .. n) -> Nat]
  BY <1>1
<1>4. PICK a : IsRun(a, Nat, 0, n, F)
  BY <1>1, <1>3, LoopRuns
<1>5. ASSUME NEW k \in 1 .. n PROVE a[k] = a[k - 1] + s[k]
  <2>1. k - 1 \in 0 .. n
    BY <1>1
  <2>2. <<a[k - 1], k>> \in Nat \X (1 .. n)
    BY <1>4, <2>1 DEF IsRun
  <2> QED
    BY <1>4, <2>2 DEF IsRun
<1>6. a = Def(a)
  BY <1>1, <1>4, <1>5 DEF IsRun
<1>7. A = Def(A)
  BY <1>6
<1> HIDE DEF A
<1>8. A[0] = 0 /\ \A k \in 1 .. n : A[k] = A[k - 1] + s[k]
  BY <1>1, <1>7
<1>9. ASSUME NEW k \in 1 .. n, A[k - 1] \in Nat PROVE A[k] \in Nat
  BY <1>1, <1>8, <1>9
<1>10. \A k \in 0 .. n : A[k] \in Nat
  <2>1. A[0] \in Nat
    BY <1>8
  <2> QED
    BY <1>1, <1>9, <2>1, LoopStays
<1>11. A \in [0 .. n -> Nat]
  BY <1>7, <1>10
<1> QED
  BY <1>2, <1>8, <1>11 DEF n

LEMMA NextUpTo ==
  ASSUME NEW l \in 0 .. 16, NEW k \in Nat, k + 1 <= l
  PROVE  k + 1 \in 1 .. l /\ k + 1 \in 1 .. 16 /\ (k + 1) - 1 = k /\ k <= l
OBVIOUS

\* The sum of the first counts of a table.
LEMMA SumOfFirst ==
  ASSUME NEW counts \in [1 .. 16 -> Nat], NEW upto \in [0 .. 16 -> Nat], upto[0] = 0,
         \A len \in 1 .. 16 : upto[len] = upto[len - 1] + counts[len], NEW l \in 0 .. 16
  PROVE  Sum(SubSeq(counts, 1, l)) = upto[l]
<1> DEFINE s == SubSeq(counts, 1, l)
<1>1. s \in Seq(Nat) /\ Len(s) = l /\ \A k \in 1 .. l : s[k] = counts[k]
  OBVIOUS
<1> HIDE DEF s
<1>2. PICK a \in [0 .. l -> Nat] :
        a[0] = 0 /\ a[l] = Sum(s) /\ \A k \in 1 .. l : a[k] = a[k - 1] + s[k]
  BY <1>1, SumRuns
<1> DEFINE T == {k \in Nat : k <= l => a[k] = upto[k]}
<1>3. 0 \in T
  BY <1>2
<1>4. ASSUME NEW k \in Nat, k \in T PROVE k + 1 \in T
  <2> SUFFICES ASSUME k + 1 <= l PROVE a[k + 1] = upto[k + 1]
    OBVIOUS
  <2>1. k + 1 \in 1 .. l /\ k + 1 \in 1 .. 16 /\ (k + 1) - 1 = k /\ k <= l
    BY NextUpTo
  <2>2. a[k] = upto[k]
    BY <1>4, <2>1
  <2>3. a[k + 1] = a[k] + s[k + 1] /\ s[k + 1] = counts[k + 1]
    BY <1>1, <1>2, <2>1
  <2>4. upto[k + 1] = upto[k] + counts[k + 1]
    BY <2>1
  <2> QED
    BY <2>2, <2>3, <2>4
<1> HIDE DEF T
<1>5. l \in T
  <2>1. l \in Nat
    OBVIOUS
  <2> QED
    BY <1>3, <1>4, <2>1, Induction
<1> QED
  BY <1>2, <1>5 DEF T, s

\* The length of the k-th code.
OfLength(upto, k, len) == upto[len - 1] < k /\ k <= upto[len]

LEMMA LengthIsOne ==
  ASSUME NEW counts \in [1 .. 16 -> Nat], NEW upto \in [0 .. 16 -> Nat],
         \A len \in 1 .. 16 : upto[len] = upto[len - 1] + counts[len],
         NEW x \in 1 .. 16, NEW y \in 1 .. 16, NEW i \in Nat, NEW j \in Nat, i <= j,
         OfLength(upto, i, x), OfLength(upto, j, y)
  PROVE  x <= y
<1> SUFFICES ASSUME y < x PROVE FALSE
  OBVIOUS
<1>1. y \in 0 .. 16 /\ x - 1 \in 0 .. 16 /\ y <= x - 1
  OBVIOUS
<1>2. upto[y] <= upto[x - 1]
  BY <1>1, UptoRises
<1>3. PICK u \in Nat, v \in Nat : upto[y] = u /\ upto[x - 1] = v
  BY <1>1
<1>4. v < i /\ j <= u
  BY <1>3 DEF OfLength
<1> QED
  BY <1>2, <1>3, <1>4

LEMMA SizeIs ==
  ASSUME NEW t, NEW counts \in [1 .. 16 -> Nat], t.counts = counts,
         NEW upto \in [0 .. 16 -> Nat], upto[0] = 0,
         \A len \in 1 .. 16 : upto[len] = upto[len - 1] + counts[len],
         NEW k \in 1 .. upto[16]
  PROVE  SizeOf(t, k) \in 1 .. 16 /\ OfLength(upto, k, SizeOf(t, k))
<1>1. k \in Nat /\ k > 0 /\ k <= upto[16]
  <2>1. upto[16] \in Nat
    OBVIOUS
  <2> QED
    BY <2>1
<1>2. SizeOf(t, k) = CHOOSE len \in 1 .. 16 :
        Sum(SubSeq(t.counts, 1, len - 1)) < k /\ k <= Sum(SubSeq(t.counts, 1, len))
  BY DEF SizeOf, Sum
<1>3. ASSUME NEW len \in 1 .. 16
      PROVE  Sum(SubSeq(t.counts, 1, len - 1)) = upto[len - 1]
             /\ Sum(SubSeq(t.counts, 1, len)) = upto[len]
  <2>1. len - 1 \in 0 .. 16 /\ len \in 0 .. 16
    OBVIOUS
  <2> QED
    BY <2>1, SumOfFirst
<1>4. \E len \in 1 .. 16 : OfLength(upto, k, len)
  <2> DEFINE S == {l \in 1 .. 16 : k <= upto[l]}
  <2>1. 16 \in S /\ S \subseteq Nat
    BY <1>1
  <2>2. PICK l \in S : \A m \in S : l <= m
    BY <2>1, SmallestIn, Zenon
  <2>3. l \in 1 .. 16 /\ k <= upto[l]
    OBVIOUS
  <2>4. upto[l - 1] < k
    <3>1. CASE l = 1
      BY <1>1, <3>1
    <3>2. CASE l # 1
      <4>1. l - 1 \in 1 .. 16 /\ ~(l <= l - 1)
        BY <2>3, <3>2
      <4>2. ~(k <= upto[l - 1])
        BY <2>2, <4>1
      <4>3. upto[l - 1] \in Nat
        BY <4>1
      <4> QED
        BY <1>1, <4>2, <4>3
    <3> QED
      BY <3>1, <3>2
  <2> QED
    BY <2>3, <2>4 DEF OfLength
<1> QED
  BY <1>2, <1>3, <1>4 DEF OfLength

\* The numbers of codes, and the first code, of each length.
Numbered(counts, upto, first) ==
  /\ counts \in [1 .. 16 -> Nat] /\ upto \in [0 .. 16 -> Nat] /\ upto[0] = 0
  /\ first \in [1 .. 16 -> Nat] /\ first[1] = 0
  /\ \A len \in 1 .. 16 : upto[len] = upto[len - 1] + counts[len]
  /\ \A len \in 1 .. 15 : first[len + 1] = 2 * (first[len] + counts[len])

\* Where no code is shorter the first one is 0.
LEMMA FirstIsZero ==
  ASSUME NEW counts, NEW upto, NEW first, Numbered(counts, upto, first),
         NEW l \in 1 .. 16, upto[l - 1] = 0
  PROVE  first[l] = 0
<1>1. CASE l = 1
  BY <1>1 DEF Numbered
<1>2. CASE l # 1
  <2>1. 1 \in 1 .. 16 /\ 1 < l /\ l - 1 \in 1 .. 16 /\ l - 1 \in 0 .. 16
    BY <1>2
  <2>2. \A len \in 1 .. l - 1 : counts[len] = 0
    <3> TAKE len \in 1 .. l - 1
    <3>1. len \in 1 .. 16 /\ len \in 0 .. 16 /\ len - 1 \in 0 .. 16 /\ len <= l - 1
      BY <2>1
    <3>2. upto[len] <= upto[l - 1]
      BY <2>1, <3>1, UptoRises DEF Numbered
    <3>3. /\ upto[len] = upto[len - 1] + counts[len] /\ upto[len - 1] \in Nat
          /\ counts[len] \in Nat
      BY <3>1 DEF Numbered
    <3> QED
      BY <3>2, <3>3
  <2>3. first[l] = (first[1] + counts[1]) * 2 ^ (l - 1)
    <3>1. \A len \in 1 + 1 .. l - 1 : counts[len] = 0
      BY <2>2
    <3> QED
      BY <2>1, <3>1, FirstGrows DEF Numbered
  <2>4. first[1] + counts[1] = 0
    BY <2>1, <2>2 DEF Numbered
  <2>5. PICK z \in Nat : 2 ^ (l - 1) = z
    <3>1. l - 1 \in Nat
      BY <2>1
    <3> QED
      BY <3>1, PowersType
  <2>6. 0 * z = 0
    OBVIOUS
  <2> QED
    BY <2>3, <2>4, <2>5, <2>6
<1> QED
  BY <1>1, <1>2

\* The code of Annex C follows the one before it.
NextCode(c, x, y) == (c + 1) * 2 ^ (y - x)

LEMMA CodeFollows ==
  ASSUME NEW counts, NEW upto, NEW first, Numbered(counts, upto, first),
         NEW k \in Nat, k > 0, NEW x \in 1 .. 16, NEW y \in 1 .. 16,
         OfLength(upto, k, x), OfLength(upto, k + 1, y)
  PROVE  NextCode(first[x] + (k - 1 - upto[x - 1]), x, y) = first[y] + (k - upto[y - 1])
<1>1. x <= y
  <2>1. k + 1 \in Nat /\ k <= k + 1
    OBVIOUS
  <2>2. counts \in [1 .. 16 -> Nat] /\ upto \in [0 .. 16 -> Nat]
        /\ \A len \in 1 .. 16 : upto[len] = upto[len - 1] + counts[len]
    BY DEF Numbered
  <2> QED
    BY <2>1, <2>2, LengthIsOne
<1>2. x \in 0 .. 16 /\ x - 1 \in 0 .. 16 /\ y - 1 \in 0 .. 16 /\ x \in Nat /\ y \in Nat
  OBVIOUS
<1>3. PICK f \in Nat, u \in Nat, v \in Nat, n \in Nat :
        first[x] = f /\ upto[x - 1] = u /\ upto[x] = v /\ counts[x] = n
  BY <1>2 DEF Numbered
<1>4. v = u + n
  BY <1>3 DEF Numbered
<1>5. PICK g \in Nat, w \in Nat : first[y] = g /\ upto[y - 1] = w
  BY <1>2 DEF Numbered
<1>6. u < k /\ k <= v /\ w < k + 1
  BY <1>3, <1>5 DEF OfLength
<1>7. CASE x = y
  <2>1. y - x = 0 /\ 2 ^ 0 = 1 /\ f = g /\ u = w
    BY <1>2, <1>3, <1>5, <1>7
  <2>2. (f + (k - 1 - u) + 1) * 1 = f + (k - u)
    BY <1>6
  <2> QED
    BY <1>3, <1>5, <2>1, <2>2 DEF NextCode
<1>8. CASE x # y
  <2>1. x < y /\ x <= y - 1
    BY <1>1, <1>2, <1>8
  <2>2. v <= w
    BY <1>2, <1>3, <1>5, <2>1, UptoRises DEF Numbered
  <2>3. v = k /\ w = k
    BY <1>6, <2>2
  <2>4. \A len \in x + 1 .. y - 1 : counts[len] = 0
    <3> TAKE len \in x + 1 .. y - 1
    <3>1. /\ len \in 1 .. 16 /\ len \in 0 .. 16 /\ len - 1 \in 0 .. 16
          /\ len <= y - 1 /\ x <= len - 1
      BY <1>2
    <3>2. upto[x] <= upto[len - 1] /\ upto[len] <= upto[y - 1]
      BY <1>2, <3>1, UptoRises DEF Numbered
    <3>3. /\ upto[len] = upto[len - 1] + counts[len] /\ upto[len - 1] \in Nat
          /\ counts[len] \in Nat
      BY <3>1 DEF Numbered
    <3>4. k <= upto[len - 1] /\ upto[len] <= k
      BY <1>3, <1>5, <2>3, <3>2
    <3> QED
      BY <3>3, <3>4
  <2>5. first[y] = (first[x] + counts[x]) * 2 ^ (y - x)
    BY <2>1, <2>4, FirstGrows DEF Numbered
  <2>6. f + (k - 1 - u) + 1 = f + n
    BY <1>4, <2>3
  <2>7. g + (k - w) = g
    BY <2>3
  <2> QED
    BY <1>3, <1>5, <2>5, <2>6, <2>7 DEF NextCode
<1> QED
  BY <1>7, <1>8

\* The k-th code has the length len and the number c.
CodeAt(upto, first, k, len, c) ==
  OfLength(upto, k, len) /\ first[len] + (k - 1 - upto[len - 1]) = c

\* Annex C gives the k-th code the number it has in the table.
LEMMA CodeIs ==
  ASSUME NEW t, NEW counts, NEW upto, NEW first, Numbered(counts, upto, first),
         t.counts = counts, NEW k \in 1 .. upto[16]
  PROVE  \E len \in 1 .. 16 :
           SizeOf(t, k) = len /\ CodeAt(upto, first, k, len, CodeOf(t, k))
<1>1. ASSUME NEW i \in 1 .. k
      PROVE  SizeOf(t, i) \in 1 .. 16 /\ OfLength(upto, i, SizeOf(t, i))
  <2>1. upto[16] \in Nat
    BY DEF Numbered
  <2>2. i \in 1 .. upto[16]
    BY <2>1
  <2> QED
    BY <2>2, SizeIs DEF Numbered
<1> DEFINE Def(c) == [i \in 1 .. k |->
                        IF i = 1 THEN 0
                        ELSE (c[i - 1] + 1) * 2 ^ (SizeOf(t, i) - SizeOf(t, i - 1))]
           Number(i) == first[SizeOf(t, i)] + (i - 1 - upto[SizeOf(t, i) - 1])
           N == [i \in 1 .. k |-> Number(i)]
           C == CHOOSE c : c = Def(c)
<1>2. CodeOf(t, k) = C[k]
  BY DEF CodeOf
<1>3. k \in Nat /\ k > 0
  <2>1. upto[16] \in Nat
    BY DEF Numbered
  <2> QED
    BY <2>1
<1>4. Number(1) = 0
  <2>1. 1 \in 1 .. k
    BY <1>3
  <2>2. PICK l \in 1 .. 16 : SizeOf(t, 1) = l /\ OfLength(upto, 1, l)
    BY <1>1, <2>1
  <2>3. upto[l - 1] \in Nat /\ upto[l - 1] < 1
    BY <2>2 DEF OfLength, Numbered
  <2>4. upto[l - 1] = 0
    BY <2>3
  <2>5. first[l] = 0
    BY <2>4, FirstIsZero
  <2> QED
    BY <2>2, <2>4, <2>5
<1>5. ASSUME NEW i \in 1 .. k, i # 1
      PROVE  (Number(i - 1) + 1) * 2 ^ (SizeOf(t, i) - SizeOf(t, i - 1)) = Number(i)
  <2>1. i - 1 \in 1 .. k /\ i - 1 \in Nat /\ i - 1 > 0 /\ (i - 1) + 1 = i /\ i \in Nat
    BY <1>3, <1>5
  <2>2. PICK x \in 1 .. 16 : SizeOf(t, i - 1) = x /\ OfLength(upto, i - 1, x)
    BY <1>1, <2>1
  <2>3. PICK y \in 1 .. 16 : SizeOf(t, i) = y /\ OfLength(upto, i, y)
    BY <1>1
  <2>4. NextCode(first[x] + ((i - 1) - 1 - upto[x - 1]), x, y)
          = first[y] + ((i - 1) - upto[y - 1])
    <3>1. PICK j \in Nat : j = i - 1 /\ j > 0 /\ j + 1 = i
      BY <2>1
    <3>2. OfLength(upto, j, x) /\ OfLength(upto, j + 1, y)
      BY <2>2, <2>3, <3>1
    <3>3. NextCode(first[x] + (j - 1 - upto[x - 1]), x, y) = first[y] + (j - upto[y - 1])
      BY <3>1, <3>2, CodeFollows
    <3> QED
      BY <3>1, <3>3
  <2> QED
    BY <2>2, <2>3, <2>4 DEF NextCode
<1>6. N = Def(N)
  <2>1. ASSUME NEW i \in 1 .. k, i # 1 PROVE N[i - 1] = Number(i - 1)
    <3>1. i - 1 \in 1 .. k
      BY <1>3, <2>1
    <3> QED
      BY <3>1
  <2> HIDE DEF Number
  <2> QED
    BY <1>4, <1>5, <2>1
<1>7. C = Def(C)
  BY <1>6
<1> HIDE DEF C, N
<1>8. C[1] = 0
        /\ \A i \in 1 .. k : i # 1 =>
             C[i] = (C[i - 1] + 1) * 2 ^ (SizeOf(t, i) - SizeOf(t, i - 1))
  BY <1>3, <1>7
<1> HIDE DEF Def
<1> DEFINE S == {i \in Nat : i + 1 <= k => C[i + 1] = Number(i + 1)}
<1>9. 0 \in S
  <2> HIDE DEF Number
  <2> QED
    BY <1>4, <1>8
<1>10. ASSUME NEW i \in Nat, i \in S PROVE i + 1 \in S
  <2> HIDE DEF Number
  <2> SUFFICES ASSUME (i + 1) + 1 <= k PROVE C[(i + 1) + 1] = Number((i + 1) + 1)
    <3>1. i + 1 \in Nat
      OBVIOUS
    <3> QED
      BY <3>1, Zenon
  <2>1. PICK j \in 1 .. k : (i + 1) + 1 = j /\ i + 1 = j - 1 /\ j # 1
    BY <1>3
  <2>2. C[j - 1] = Number(j - 1)
    <3>1. i + 1 <= k
      BY <1>3
    <3>2. C[i + 1] = Number(i + 1)
      BY <1>10, <3>1
    <3> QED
      BY <2>1, <3>2
  <2> QED
    BY <1>5, <1>8, <2>1, <2>2
<1> HIDE DEF S
<1>11. C[k] = Number(k)
  <2>1. k - 1 \in Nat /\ (k - 1) + 1 = k /\ (k - 1) + 1 <= k
    BY <1>3
  <2>2. k - 1 \in S
    BY <1>9, <1>10, <2>1, Induction
  <2> HIDE DEF Number
  <2> QED
    BY <2>1, <2>2 DEF S
<1>12. k \in 1 .. k
  BY <1>3
<1> QED
  BY <1>1, <1>2, <1>11, <1>12 DEF CodeAt

LEMMA ValueOfOne == ASSUME NEW b \in {0, 1} PROVE Value(<<b>>) = b
<1> DEFINE w == <<b>>
<1>1. w \in Seq({0, 1}) /\ Len(w) = 1 /\ w[1] = b
  OBVIOUS
<1> HIDE DEF w
<1>2. PICK v \in [0 .. 1 -> Nat] :
        v[0] = 0 /\ v[1] = Value(w) /\ \A k \in 1 .. 1 : v[k] = 2 * v[k - 1] + w[k]
  BY <1>1, ValueRuns
<1>3. 1 \in 1 .. 1 /\ 1 - 1 = 0
  OBVIOUS
<1>4. v[1] = 2 * v[0] + w[1]
  BY <1>2, <1>3
<1>5. Value(w) = b
  BY <1>1, <1>2, <1>4
<1> QED
  BY <1>5 DEF w

LEMMA DivType == ASSUME NEW x \in Nat, NEW m \in Nat \ {0} PROVE x \div m \in Nat
OBVIOUS

\* One bit of what is found.
LEMMA BitReads ==
  ASSUME NEW s, Carries(s), NEW a \in Nat, NEW w \in Seq({0, 1}), Found(s, a, w),
         NEW l \in Nat, l < Len(w), NEW r, Reading(s, r, a + l)
  PROVE  /\ Get(s.data, r, 1).ok /\ Get(s.data, r, 1).val = w[l + 1]
         /\ Reading(s, Get(s.data, r, 1).r, a + (l + 1))
<1>1. PICK b \in {0, 1} : w[l + 1] = b
  OBVIOUS
<1> DEFINE v == <<b>>
<1>2. v \in Seq({0, 1}) /\ Len(v) = 1 /\ v[1] = b
  OBVIOUS
<1> HIDE DEF v
<1>3. Found(s, a + l, v)
  <2>0. Len(w) \in Nat /\ Len(s.bits) \in Nat
    <3>1. s.bits \in Seq({0, 1})
      BY DEF Carries
    <3> QED
      BY <3>1
  <2>1. PICK m \in Nat, t \in Nat : Len(w) = m /\ Len(s.bits) = t
    BY <2>0
  <2>2. a + m <= t /\ \A i \in 1 .. m : s.bits[a + i] = w[i]
    BY <2>1 DEF Found
  <2>3. l + 1 \in 1 .. m /\ (a + l) + 1 <= t /\ a + (l + 1) = (a + l) + 1
    BY <2>1, <2>2
  <2>4. s.bits[(a + l) + 1] = b
    BY <1>1, <2>2, <2>3
  <2>5. (a + l) + Len(v) <= Len(s.bits)
    BY <1>2, <2>1, <2>3
  <2> QED
    BY <1>2, <2>4, <2>5 DEF Found
<1>4. 1 \in 0 .. 16 /\ (a + l) + 1 = a + (l + 1)
  OBVIOUS
<1>5. Value(v) = b
  BY ValueOfOne DEF v
<1>6. Gets(s, r, a + l, v, 1)
  BY <1>2, <1>3, <1>4, GetReads
<1> QED
  BY <1>1, <1>4, <1>5, <1>6 DEF Gets

\* What has been read of a code that begins at a, and the code that was found.
Midway(s, x, a, c, L, l) == x.go /\ x.code = c \div 2 ^ (L - l) /\ Reading(s, x.r, a + l)

Decoded(s, x, a, sym, L) == ~x.go /\ x.ok /\ x.sym = sym /\ Reading(s, x.r, a + L)

LEMMA HuffStepReads ==
  ASSUME NEW s, Carries(s), NEW a \in Nat, NEW ht \in Tables,
         NEW counts, NEW upto, NEW first,
         Numbered(counts, upto, first), Canonical(ht, counts, upto, first),
         NEW L \in 1 .. 16, NEW k \in Nat, k > 0, NEW c \in Nat,
         CodeAt(upto, first, k, L, c),
         NEW w \in Seq({0, 1}), Bits(c, L) = w, Found(s, a, w),
         NEW l \in 0 .. 15, l < L, NEW x \in HuffState(ht), Midway(s, x, a, c, L, l),
         NEW y, HuffStep(s.data, ht, x, l + 1) = y
  PROVE  /\ l + 1 = L => Decoded(s, y, a, ht.symbols[k], L)
         /\ l + 1 # L => Midway(s, y, a, c, L, l + 1)
<1> DEFINE g == Get(s.data, x.r, 1)
<1>0. OfLength(upto, k, L) /\ first[L] + (k - 1 - upto[L - 1]) = c
  BY DEF CodeAt
<1>1. l + 1 \in 1 .. 16 /\ l + 1 <= L /\ L \in Nat /\ L \in 0 .. 16 /\ l \in Nat
  OBVIOUS
<1>2. Len(w) = L /\ w[l + 1] = (c \div 2 ^ (L - (l + 1))) % 2
  <2>1. l + 1 \in 1 .. L
    BY <1>1
  <2> QED
    BY <1>1, <2>1, BitsType
<1>3. x.go /\ x.code = c \div 2 ^ (L - l) /\ Reading(s, x.r, a + l)
  BY DEF Midway
<1>4. g.ok /\ g.val = w[l + 1] /\ Reading(s, g.r, a + (l + 1))
  BY <1>1, <1>2, <1>3, BitReads
<1>5. y = HuffBit(ht, x, l + 1, g)
  BY <1>3 DEF HuffStep
<1> HIDE DEF g
<1>6. PICK m \in Nat \ {0} : 2 ^ (L - (l + 1)) = m
  <2>1. L - (l + 1) \in Nat
    BY <1>1
  <2> QED
    BY <2>1, PowersType
<1>7. 2 ^ (L - l) = 2 * m
  <2>1. L - (l + 1) \in 0 .. 15 /\ (L - (l + 1)) + 1 = L - l
    BY <1>1
  <2> QED
    BY <1>6, <2>1, PowerStep
<1>8. PICK code \in Nat : c \div m = code
  BY DivType
<1>9. 2 * x.code + g.val = code
  <2>1. c \div m = 2 * (c \div (2 * m)) + ((c \div m) % 2)
    BY HalfDiv
  <2> QED
    BY <1>2, <1>3, <1>4, <1>6, <1>7, <1>8, <2>1
<1>10. /\ ht.max[l + 1] = IF counts[l + 1] = 0 THEN -1
                          ELSE first[l + 1] + counts[l + 1] - 1
       /\ ht.min[L] = first[L] /\ ht.ptr[L] = upto[L - 1]
  <2>1. counts \in [1 .. MaxLen -> Nat]
    BY JpegNumbers DEF Numbered
  <2>2. \A len \in 1 .. 16 :
          /\ ht.min[len] = first[len] /\ ht.ptr[len] = upto[len - 1]
          /\ ht.max[len] = IF counts[len] = 0 THEN -1 ELSE first[len] + counts[len] - 1
    BY JpegNumbers DEF Canonical
  <2> QED
    BY <1>1, <2>2
<1>11. PICK f \in Nat, n \in Nat : first[l + 1] = f /\ counts[l + 1] = n
  BY <1>1 DEF Numbered
<1>12. PICK u \in Nat, v \in Nat :
         upto[L - 1] = u /\ upto[L] = v /\ u < k /\ k <= v /\ v = u + counts[L]
  <2>1. L - 1 \in 0 .. 16 /\ L \in 0 .. 16
    BY <1>1
  <2>2. upto[L - 1] \in Nat /\ upto[L] \in Nat /\ upto[L] = upto[L - 1] + counts[L]
    BY <2>1 DEF Numbered
  <2> QED
    BY <1>0, <2>2 DEF OfLength
<1>13. /\ x.go \in BOOLEAN /\ x.ok \in BOOLEAN /\ x \in HuffState(ht)
  BY DEF HuffState
<1>14. CASE l + 1 = L
  <2>1. m = 1 /\ code = c
    <3>1. L - (l + 1) = 0 /\ 2 ^ 0 = 1 /\ c \div 1 = c
      BY <1>1, <1>14
    <3> QED
      BY <1>6, <1>8, <3>1
  <2>2. c = f + (k - 1 - u) /\ n > 0 /\ c <= f + n - 1
    <3>1. c = f + (k - 1 - u)
      BY <1>0, <1>11, <1>12, <1>14
    <3>2. v = u + n
      BY <1>11, <1>12, <1>14
    <3> QED
      BY <1>12, <3>1, <3>2
  <2>3. ~(code > ht.max[l + 1])
    BY <1>10, <1>11, <2>1, <2>2
  <2>4. ht.ptr[l + 1] + code - ht.min[l + 1] + 1 = k
    <3>1. u + c - f + 1 = k
      BY <2>2, <1>12
    <3> QED
      BY <1>10, <1>11, <1>12, <1>14, <2>1, <3>1
  <2>5. y = [x EXCEPT !.go = FALSE, !.ok = TRUE, !.r = g.r, !.sym = ht.symbols[k]]
    BY <1>4, <1>5, <1>9, <2>3, <2>4 DEF HuffBit
  <2>6. ~y.go /\ y.ok /\ y.sym = ht.symbols[k] /\ y.r = g.r
    BY <1>13, <2>5 DEF HuffState
  <2>7. Reading(s, y.r, a + L)
    BY <1>4, <1>14, <2>6
  <2> QED
    BY <1>14, <2>6, <2>7 DEF Decoded
<1>15. CASE l + 1 # L
  <2>1. l + 1 < L
    BY <1>1, <1>15
  <2>2. code > ht.max[l + 1]
    <3>1. CASE n = 0
      BY <1>10, <1>11, <3>1
    <3>2. CASE n # 0
      <4>1. first[L] >= (f + n) * m
        BY <1>1, <1>6, <1>11, <2>1, FirstGrows DEF Numbered
      <4>2. PICK h \in Nat : first[L] = h
        BY <1>1 DEF Numbered
      <4>3. c >= (f + n) * m
        <5>1. c >= h
          BY <1>0, <1>12, <4>2
        <5>2. PICK e \in Nat : (f + n) * m = e
          OBVIOUS
        <5> QED
          BY <4>1, <4>2, <5>1, <5>2
      <4>4. code >= f + n
        <5>1. PICK e \in Nat : f + n = e
          OBVIOUS
        <5>2. c >= e * m
          BY <4>3, <5>1
        <5>3. c \div m >= e
          BY <5>2
        <5> QED
          BY <1>8, <5>1, <5>3
      <4> QED
        BY <1>10, <1>11, <3>2, <4>4
    <3> QED
      BY <3>1, <3>2
  <2>3. y = [x EXCEPT !.code = code, !.r = g.r]
    BY <1>4, <1>5, <1>9, <2>2 DEF HuffBit
  <2>4. y.go /\ y.code = code /\ y.r = g.r
    BY <1>3, <1>13, <2>3 DEF HuffState
  <2>5. Midway(s, y, a, c, L, l + 1)
    BY <1>4, <1>6, <1>8, <2>4 DEF Midway
  <2> QED
    BY <1>15, <2>5
<1> QED
  BY <1>14, <1>15

-----------------------------------------------------------------------------
(* A Huffman table gives back the symbol of a code *)

LEMMA CanonicalNumbers ==
  ASSUME NEW ht, NEW counts, NEW upto, NEW first, counts \in [1 .. MaxLen -> Nat],
         Canonical(ht, counts, upto, first)
  PROVE  Numbered(counts, upto, first) /\ Len(ht.symbols) = upto[16]
<1>1. MaxLen = 16
  BY JpegNumbers
<1>2. ASSUME NEW len \in 1 .. 15 PROVE first[len + 1] = 2 * (first[len] + counts[len])
  <2>1. len + 1 \in 2 .. 16 /\ (len + 1) - 1 = len
    OBVIOUS
  <2>2. \A l \in 2 .. 16 : first[l] = 2 * (first[l - 1] + counts[l - 1])
    BY <1>1 DEF Canonical
  <2>3. PICK l \in 2 .. 16 : l = len + 1
    BY <2>1
  <2>4. l - 1 = len
    BY <2>3
  <2> QED
    BY <2>2, <2>3, <2>4
<1>3. /\ counts \in [1 .. 16 -> Nat] /\ upto \in [0 .. 16 -> Nat] /\ upto[0] = 0
      /\ first \in [1 .. 16 -> Nat] /\ first[1] = 0 /\ Len(ht.symbols) = upto[16]
  <2>1. counts \in [1 .. 16 -> Nat]
    BY <1>1
  <2>2. upto \in [0 .. 16 -> Nat] /\ upto[0] = 0
    BY <1>1 DEF Canonical
  <2>3. first \in [1 .. 16 -> Nat] /\ first[1] = 0
    BY <1>1 DEF Canonical
  <2>4. Len(ht.symbols) = upto[16]
    BY <1>1 DEF Canonical
  <2> QED
    BY <2>1, <2>2, <2>3, <2>4
<1>4. \A len \in 1 .. 16 : upto[len] = upto[len - 1] + counts[len]
  BY <1>1 DEF Canonical
<1> QED
  BY <1>2, <1>3, <1>4, Zenon DEF Numbered

\* A table of codes: as many codes as symbols, and each fits its length.
CodeTable(t) ==
  /\ t.counts \in [1 .. MaxLen -> Nat] /\ t.symbols \in Seq(0 .. 255)
  /\ Len(t.symbols) = Sum(t.counts)
  /\ \A len \in 1 .. MaxLen : BuildHuff(t.counts, t.symbols).max[len] < 2 ^ len

TableOf(t) == BuildHuff(t.counts, t.symbols)

LEMMA TableIs ==
  ASSUME NEW t, CodeTable(t)
  PROVE  /\ TableOf(t) \in Tables /\ TableOf(t).symbols = t.symbols
         /\ \E upto, first :
              /\ Numbered(t.counts, upto, first) /\ Len(t.symbols) = upto[16]
              /\ Canonical(TableOf(t), t.counts, upto, first)
              /\ \A len \in 1 .. 16 : t.counts[len] > 0
                                        => first[len] + t.counts[len] <= 2 ^ len
<1>1. /\ t.counts \in [1 .. MaxLen -> Nat] /\ t.symbols \in Seq(0 .. 255)
      /\ Len(t.symbols) = Sum(t.counts)
  BY DEF CodeTable
<1>2. TableOf(t) \in Tables
  BY <1>1, BuildHuffType DEF TableOf
<1>3. PICK upto, first : /\ Canonical(TableOf(t), t.counts, upto, first)
                         /\ TableOf(t).symbols = t.symbols
  BY <1>1, BuildHuffIs DEF TableOf
<1>4. Numbered(t.counts, upto, first) /\ Len(t.symbols) = upto[16]
  BY <1>1, <1>3, CanonicalNumbers
<1>5. ASSUME NEW len \in 1 .. 16, t.counts[len] > 0
      PROVE  first[len] + t.counts[len] <= 2 ^ len
  <2>1. TableOf(t).max[len] < 2 ^ len
    BY JpegNumbers DEF CodeTable, TableOf
  <2>2. TableOf(t).max[len]
          = IF t.counts[len] = 0 THEN -1 ELSE first[len] + t.counts[len] - 1
    BY <1>3, JpegNumbers DEF Canonical
  <2>3. PICK z \in Nat, f \in Nat, n \in Nat :
          2 ^ len = z /\ first[len] = f /\ t.counts[len] = n
    <3>1. len \in Nat
      OBVIOUS
    <3> QED
      BY <1>4, <3>1, PowersType DEF Numbered
  <2>4. n > 0 /\ f + n - 1 < z
    BY <1>5, <2>1, <2>2, <2>3
  <2>5. f + n <= z
    BY <2>4
  <2> QED
    BY <2>3, <2>5
<1> QED
  BY <1>2, <1>3, <1>4, <1>5

\* What stands for a symbol: the code of the k-th, of L bits.
Stands(t, sym, upto, first, k, L, c) ==
  /\ t.symbols[k] = sym /\ CodeAt(upto, first, k, L, c) /\ c < 2 ^ L
  /\ Huffman(t, sym) = Bits(c, L)

LEMMA HuffmanIs ==
  ASSUME NEW t, CodeTable(t), NEW sym, \E i \in DOMAIN t.symbols : t.symbols[i] = sym,
         NEW upto, NEW first, Numbered(t.counts, upto, first), Len(t.symbols) = upto[16],
         \A len \in 1 .. 16 : t.counts[len] > 0 => first[len] + t.counts[len] <= 2 ^ len
  PROVE  \E k \in 1 .. upto[16], L \in 1 .. 16, c \in Nat :
           Stands(t, sym, upto, first, k, L, c)
<1> DEFINE j == CHOOSE i \in DOMAIN t.symbols : t.symbols[i] = sym
<1>1. PICK k \in 1 .. upto[16] :
        t.symbols[k] = sym /\ Huffman(t, sym) = Bits(CodeOf(t, k), SizeOf(t, k))
  <2>1. DOMAIN t.symbols = 1 .. upto[16]
    BY DEF CodeTable
  <2>2. j \in 1 .. upto[16] /\ t.symbols[j] = sym
    BY <2>1
  <2>3. Huffman(t, sym) = Bits(CodeOf(t, j), SizeOf(t, j))
    BY DEF Huffman
  <2> HIDE DEF j
  <2> QED
    BY <2>2, <2>3
<1>2. PICK L \in 1 .. 16 :
        SizeOf(t, k) = L /\ CodeAt(upto, first, k, L, CodeOf(t, k))
  BY CodeIs
<1>3. L - 1 \in 0 .. 16 /\ L \in 0 .. 16 /\ L \in Nat /\ 16 \in 0 .. 16
  OBVIOUS
<1>4. PICK f \in Nat, n \in Nat, u \in Nat, v \in Nat, z \in Nat :
        /\ first[L] = f /\ t.counts[L] = n /\ upto[L - 1] = u /\ upto[L] = v
        /\ 2 ^ L = z
  BY <1>3, PowersType DEF Numbered
<1>5. v = u + n
  BY <1>4 DEF Numbered
<1>6. k \in Nat /\ k > 0
  <2>1. upto[16] \in Nat
    BY <1>3 DEF Numbered
  <2> QED
    BY <2>1
<1>7. u < k /\ k <= v /\ CodeOf(t, k) = f + (k - 1 - u)
  BY <1>2, <1>4 DEF OfLength, CodeAt
<1>8. PICK d \in Nat : k - 1 - u = d /\ d < n
  <2>1. u < k /\ k <= u + n
    BY <1>5, <1>7
  <2>2. k - 1 - u \in Nat /\ k - 1 - u < n
    BY <1>6, <2>1
  <2> QED
    BY <2>2
<1>9. f + n <= z
  <2>1. n > 0
    BY <1>8
  <2> QED
    BY <1>4, <2>1
<1>10. f + (k - 1 - u) \in Nat /\ f + (k - 1 - u) < z
  <2>1. f + d \in Nat /\ f + d < z
    BY <1>8, <1>9
  <2> QED
    BY <1>8, <2>1
<1>11. PICK c \in Nat : f + (k - 1 - u) = c /\ c < z
  BY <1>10
<1>12. CodeOf(t, k) = c /\ c < 2 ^ L
  BY <1>4, <1>7, <1>11
<1>13. Stands(t, sym, upto, first, k, L, c)
  BY <1>1, <1>2, <1>12 DEF Stands
<1> QED
  BY <1>13

LEMMA MidwayStarts ==
  ASSUME NEW s, NEW r, NEW a, Reading(s, r, a), NEW L \in 1 .. 16, NEW c \in Nat, c < 2 ^ L
  PROVE  Midway(s, [go |-> TRUE, ok |-> FALSE, code |-> 0, sym |-> 0, r |-> r], a, c, L, 0)
<1>1. PICK z \in Nat \ {0} : 2 ^ L = z
  <2>1. L \in Nat
    OBVIOUS
  <2> QED
    BY <2>1, PowersType
<1>2. c \div z = 0
  <2>1. z * 0 <= c /\ c < z * 0 + z /\ 0 \in Nat
    BY <1>1
  <2> QED
    BY <2>1, DivIs
<1>3. L - 0 = L /\ a + 0 = a
  BY DEF Reading
<1> QED
  BY <1>1, <1>2, <1>3 DEF Midway

\* Huffman coding is undone: for any table whose codes fit their lengths, where the
\* code of a symbol is next in the data, wherever bytes and reads ahead end,
\* huff_decode gives the symbol and leaves the reader behind the code
\* (jpeg_dc.c:190).
THEOREM HuffGivesBack ==
  ASSUME NEW s, Carries(s), NEW r, NEW a, Reading(s, r, a), NEW t, CodeTable(t),
         NEW sym, \E i \in DOMAIN t.symbols : t.symbols[i] = sym,
         Found(s, a, Huffman(t, sym))
  PROVE  LET h == HuffDecode(s.data, r, BuildHuff(t.counts, t.symbols))
         IN  /\ h.ok /\ h.sym = sym
             /\ Reading(s, h.r, a + Len(Huffman(t, sym)))
<1> DEFINE ht == TableOf(t)
           data == s.data
           n == MaxLen
           T == HuffState(ht)
           start == [go |-> TRUE, ok |-> FALSE, code |-> 0, sym |-> 0, r |-> r]
           Def(e) == [i \in 0 .. n |->
                        IF i = 0 THEN start ELSE HuffStep(data, ht, e[i - 1], i)]
           F == [x \in T \X (1 .. n) |-> HuffStep(data, ht, x[1], x[2])]
           A == CHOOSE e : e = Def(e)
<1>1. n = 16 /\ IsData(data) /\ ht \in Tables /\ r \in Reader /\ a \in Nat
  BY JpegNumbers, TableIs DEF Carries, Reading
<1>2. PICK upto, first :
        /\ Numbered(t.counts, upto, first) /\ Len(t.symbols) = upto[16]
        /\ Canonical(ht, t.counts, upto, first) /\ ht.symbols = t.symbols
        /\ \A len \in 1 .. 16 : t.counts[len] > 0
                                  => first[len] + t.counts[len] <= 2 ^ len
  BY TableIs
<1>3. PICK k \in 1 .. upto[16], L \in 1 .. 16, c \in Nat :
        Stands(t, sym, upto, first, k, L, c)
  BY <1>2, HuffmanIs
<1>4. PICK w \in Seq({0, 1}) : Bits(c, L) = w /\ Len(w) = L /\ Found(s, a, w)
  <2>1. L \in 0 .. 16
    OBVIOUS
  <2> QED
    BY <1>3, <2>1, BitsType DEF Stands
<1>5. k \in Nat /\ k > 0
  <2>1. upto[16] \in Nat
    BY <1>2 DEF Numbered
  <2> QED
    BY <2>1
<1>6. start \in T
  BY <1>1 DEF HuffState, SymbolsOf
<1>7. \A x \in T, i \in 1 .. n : HuffStep(data, ht, x, i) \in T
  BY <1>1, HuffStepType
<1>8. HuffDecode(data, r, BuildHuff(t.counts, t.symbols)) = A[n]
  BY DEF HuffDecode, Loop, HuffStep, TableOf
<1> HIDE DEF T, ht
<1>9. \E e \in [0 .. n -> T] : e = Def(e)
  <2>1. F \in [T \X (1 .. n) -> T]
    BY <1>7
  <2>2. PICK e : IsRun(e, T, start, n, F)
    BY <1>1, <1>6, <2>1, LoopRuns
  <2>3. ASSUME NEW i \in 1 .. n PROVE e[i] = HuffStep(data, ht, e[i - 1], i)
    <3>1. i - 1 \in 0 .. n
      BY <1>1
    <3>2. <<e[i - 1], i>> \in T \X (1 .. n)
      BY <2>2, <3>1 DEF IsRun
    <3> QED
      BY <2>2, <3>2 DEF IsRun
  <2>4. e = [i \in 0 .. n |-> e[i]] /\ e[0] = start /\ e \in [0 .. n -> T]
    BY <2>2 DEF IsRun
  <2>5. ASSUME NEW i \in 0 .. n
        PROVE  e[i] = IF i = 0 THEN start ELSE HuffStep(data, ht, e[i - 1], i)
    <3>1. CASE i = 0
      BY <2>4, <3>1
    <3>2. CASE i # 0
      <4>1. i \in 1 .. n
        BY <1>1, <3>2
      <4> QED
        BY <2>3, <3>2, <4>1
    <3> QED
      BY <3>1, <3>2
  <2> HIDE DEF start
  <2>6. e = Def(e)
    BY <2>4, <2>5
  <2> QED
    BY <2>4, <2>6
<1>10. A = Def(A)
  BY <1>9
<1> HIDE DEF A, start
<1>11. A[0] = start /\ \A i \in 1 .. n : A[i] = HuffStep(data, ht, A[i - 1], i)
  BY <1>1, <1>10
<1>12. \A i \in 0 .. n : A[i] \in T
  BY <1>1, <1>6, <1>7, <1>11, LoopStays
<1> DEFINE Good(i) == IF i < L THEN Midway(s, A[i], a, c, L, i)
                      ELSE Decoded(s, A[i], a, sym, L)
           S == {i \in Nat : i <= 16 => Good(i)}
<1>13. 0 \in S
  <2>1. Midway(s, start, a, c, L, 0)
    BY <1>3, MidwayStarts DEF start, Stands
  <2>2. 0 < L
    OBVIOUS
  <2> QED
    BY <1>11, <2>1, <2>2
<1>14. ASSUME NEW i \in Nat, i \in S PROVE i + 1 \in S
  <2> SUFFICES ASSUME i + 1 <= 16 PROVE Good(i + 1)
    <3>1. i + 1 \in Nat
      OBVIOUS
    <3> QED
      BY <3>1, Zenon
  <2>1. i \in 0 .. 15 /\ i \in 0 .. n /\ i + 1 \in 1 .. n /\ (i + 1) - 1 = i /\ i <= 16
    BY <1>1
  <2>2. A[i] \in HuffState(ht) /\ A[i + 1] = HuffStep(data, ht, A[i], i + 1)
    BY <1>11, <1>12, <2>1 DEF T
  <2>3. Good(i)
    BY <1>14, <2>1
  <2>4. CASE i < L
    <3>1. Midway(s, A[i], a, c, L, i)
      BY <2>3, <2>4
    <3>2. PICK x \in HuffState(ht), y \in {A[i + 1]} : A[i] = x /\ A[i + 1] = y
      BY <2>2
    <3>3. CodeAt(upto, first, k, L, c) /\ ht.symbols[k] = sym
      BY <1>2, <1>3 DEF Stands
    <3>4. HuffStep(s.data, ht, x, i + 1) = y /\ Midway(s, x, a, c, L, i)
      BY <2>2, <3>1, <3>2
    <3>5. /\ i + 1 = L => Decoded(s, y, a, sym, L)
          /\ i + 1 # L => Midway(s, y, a, c, L, i + 1)
      BY <1>1, <1>2, <1>4, <1>5, <2>1, <2>4, <3>3, <3>4, HuffStepReads
    <3>6. i + 1 < L <=> i + 1 # L
      BY <2>4
    <3> QED
      BY <3>2, <3>5, <3>6
  <2>5. CASE ~(i < L)
    <3>1. Decoded(s, A[i], a, sym, L) /\ ~(i + 1 < L)
      BY <2>3, <2>5
    <3>2. A[i + 1] = A[i]
      BY <2>2, <3>1 DEF Decoded, HuffStep
    <3> QED
      BY <3>1, <3>2
  <2> QED
    BY <2>4, <2>5
<1> HIDE DEF S
<1>15. Decoded(s, A[n], a, sym, L)
  <2>1. 16 \in S /\ 16 \in Nat /\ 16 <= 16 /\ ~(16 < L)
    BY <1>13, <1>14, Induction
  <2> QED
    BY <1>1, <2>1 DEF S
<1> QED
  BY <1>3, <1>4, <1>8, <1>15 DEF Decoded, Stands

-----------------------------------------------------------------------------
(* The camera's tables *)

\* The first codes of the camera's tables.
LEMMA DcNumbers ==
  ASSUME NEW first \in [1 .. 16 -> Nat], first[1] = 0,
         \A len \in 1 .. 15 : first[len + 1] = 2 * (first[len] + DcTable.counts[len])
  PROVE  /\ first[2] = 0 /\ first[3] = 2 /\ first[4] = 14 /\ first[5] = 30 /\ first[6] = 62
         /\ first[7] = 126 /\ first[8] = 254 /\ first[9] = 510
<1> DEFINE c == DcTable.counts
<1>1. /\ c[1] = 0 /\ c[2] = 1 /\ c[3] = 5 /\ c[4] = 1 /\ c[5] = 1
      /\ c[6] = 1 /\ c[7] = 1 /\ c[8] = 1
  BY DEF DcTable
<1> HIDE DEF c
<1>2. \A len \in 1 .. 15 : first[len + 1] = 2 * (first[len] + c[len])
  BY DEF c
<1>3. /\ first[1 + 1] = 2 * (first[1] + c[1]) /\ first[2 + 1] = 2 * (first[2] + c[2])
      /\ first[3 + 1] = 2 * (first[3] + c[3]) /\ first[4 + 1] = 2 * (first[4] + c[4])
      /\ first[5 + 1] = 2 * (first[5] + c[5]) /\ first[6 + 1] = 2 * (first[6] + c[6])
      /\ first[7 + 1] = 2 * (first[7] + c[7]) /\ first[8 + 1] = 2 * (first[8] + c[8])
  BY <1>2
<1> QED
  BY <1>1, <1>3

LEMMA AcNumbers ==
  ASSUME NEW first \in [1 .. 16 -> Nat], first[1] = 0,
         \A len \in 1 .. 15 : first[len + 1] = 2 * (first[len] + AcTable.counts[len])
  PROVE  /\ first[2] = 0 /\ first[3] = 2 /\ first[12] = 1536 /\ first[16] = 24592
<1> DEFINE c == AcTable.counts
<1>1. /\ c[1] = 0 /\ c[2] = 1 /\ c[3] = 1 /\ c[4] = 0 /\ c[5] = 0
      /\ c[6] = 0 /\ c[7] = 0 /\ c[8] = 0 /\ c[9] = 0 /\ c[10] = 0
      /\ c[11] = 0 /\ c[12] = 1 /\ c[13] = 0 /\ c[14] = 0 /\ c[15] = 0
  BY DEF AcTable
<1> HIDE DEF c
<1>2. \A len \in 1 .. 15 : first[len + 1] = 2 * (first[len] + c[len])
  BY DEF c
<1>3. /\ first[1 + 1] = 2 * (first[1] + c[1]) /\ first[2 + 1] = 2 * (first[2] + c[2])
      /\ first[3 + 1] = 2 * (first[3] + c[3]) /\ first[4 + 1] = 2 * (first[4] + c[4])
      /\ first[5 + 1] = 2 * (first[5] + c[5]) /\ first[6 + 1] = 2 * (first[6] + c[6])
      /\ first[7 + 1] = 2 * (first[7] + c[7]) /\ first[8 + 1] = 2 * (first[8] + c[8])
  BY <1>2
<1>4. /\ first[9 + 1] = 2 * (first[9] + c[9]) /\ first[10 + 1] = 2 * (first[10] + c[10])
      /\ first[11 + 1] = 2 * (first[11] + c[11]) /\ first[12 + 1] = 2 * (first[12] + c[12])
      /\ first[13 + 1] = 2 * (first[13] + c[13]) /\ first[14 + 1] = 2 * (first[14] + c[14])
      /\ first[15 + 1] = 2 * (first[15] + c[15])
  BY <1>2
<1>5. first[2] = 0 /\ first[3] = 2 /\ first[4] = 6 /\ first[9] = 192
  BY <1>1, <1>3
<1>6. first[12] = 1536 /\ first[16] = 24592
  BY <1>1, <1>4, <1>5
<1> QED
  BY <1>5, <1>6

LEMMA DcSum == Sum(DcTable.counts) = 12
<1> DEFINE c == DcTable.counts
<1>1. /\ c[1] = 0 /\ c[2] = 1 /\ c[3] = 5 /\ c[4] = 1 /\ c[5] = 1
      /\ c[6] = 1 /\ c[7] = 1 /\ c[8] = 1 /\ c[9] = 1 /\ c[10] = 0
      /\ c[11] = 0 /\ c[12] = 0 /\ c[13] = 0 /\ c[14] = 0 /\ c[15] = 0 /\ c[16] = 0
      /\ c \in [1 .. 16 -> Nat]
  BY DEF DcTable
<1> HIDE DEF c
<1>2. PICK a \in [0 .. 16 -> Nat] :
        a[0] = 0 /\ Sum(c) = a[16] /\ \A k \in 1 .. 16 : a[k] = a[k - 1] + c[k]
  BY <1>1, SumIs, JpegNumbers
<1>3. /\ a[1] = a[1 - 1] + c[1] /\ a[2] = a[2 - 1] + c[2] /\ a[3] = a[3 - 1] + c[3]
      /\ a[4] = a[4 - 1] + c[4] /\ a[5] = a[5 - 1] + c[5] /\ a[6] = a[6 - 1] + c[6]
      /\ a[7] = a[7 - 1] + c[7] /\ a[8] = a[8 - 1] + c[8]
  BY <1>2
<1>4. /\ a[9] = a[9 - 1] + c[9] /\ a[10] = a[10 - 1] + c[10] /\ a[11] = a[11 - 1] + c[11]
      /\ a[12] = a[12 - 1] + c[12] /\ a[13] = a[13 - 1] + c[13] /\ a[14] = a[14 - 1] + c[14]
      /\ a[15] = a[15 - 1] + c[15] /\ a[16] = a[16 - 1] + c[16]
  BY <1>2
<1>5. a[8] = 11
  BY <1>1, <1>2, <1>3
<1>6. a[16] = 12
  BY <1>1, <1>4, <1>5
<1> QED
  BY <1>2, <1>6 DEF c

LEMMA AcSum == Sum(AcTable.counts) = 4
<1> DEFINE c == AcTable.counts
<1>1. /\ c[1] = 0 /\ c[2] = 1 /\ c[3] = 1 /\ c[4] = 0 /\ c[5] = 0
      /\ c[6] = 0 /\ c[7] = 0 /\ c[8] = 0 /\ c[9] = 0 /\ c[10] = 0
      /\ c[11] = 0 /\ c[12] = 1 /\ c[13] = 0 /\ c[14] = 0 /\ c[15] = 0 /\ c[16] = 1
      /\ c \in [1 .. 16 -> Nat]
  BY DEF AcTable
<1> HIDE DEF c
<1>2. PICK a \in [0 .. 16 -> Nat] :
        a[0] = 0 /\ Sum(c) = a[16] /\ \A k \in 1 .. 16 : a[k] = a[k - 1] + c[k]
  BY <1>1, SumIs, JpegNumbers
<1>3. /\ a[1] = a[1 - 1] + c[1] /\ a[2] = a[2 - 1] + c[2] /\ a[3] = a[3 - 1] + c[3]
      /\ a[4] = a[4 - 1] + c[4] /\ a[5] = a[5 - 1] + c[5] /\ a[6] = a[6 - 1] + c[6]
      /\ a[7] = a[7 - 1] + c[7] /\ a[8] = a[8 - 1] + c[8]
  BY <1>2
<1>4. /\ a[9] = a[9 - 1] + c[9] /\ a[10] = a[10 - 1] + c[10] /\ a[11] = a[11 - 1] + c[11]
      /\ a[12] = a[12 - 1] + c[12] /\ a[13] = a[13 - 1] + c[13] /\ a[14] = a[14 - 1] + c[14]
      /\ a[15] = a[15 - 1] + c[15] /\ a[16] = a[16 - 1] + c[16]
  BY <1>2
<1>5. a[8] = 2
  BY <1>1, <1>2, <1>3
<1>6. a[16] = 4
  BY <1>1, <1>4, <1>5
<1> QED
  BY <1>2, <1>6 DEF c

\* The lengths of the codes of the camera's tables, and that they fit.
LEMMA DcFits ==
  ASSUME NEW len \in 1 .. 16, DcTable.counts[len] > 0, NEW first \in [1 .. 16 -> Nat],
         first[1] = 0,
         \A l \in 1 .. 15 : first[l + 1] = 2 * (first[l] + DcTable.counts[l])
  PROVE  first[len] + DcTable.counts[len] <= 2 ^ len
<1> DEFINE c == DcTable.counts
<1>1. /\ c[1] = 0 /\ c[2] = 1 /\ c[3] = 5 /\ c[4] = 1 /\ c[5] = 1
      /\ c[6] = 1 /\ c[7] = 1 /\ c[8] = 1 /\ c[9] = 1 /\ c[10] = 0
      /\ c[11] = 0 /\ c[12] = 0 /\ c[13] = 0 /\ c[14] = 0 /\ c[15] = 0 /\ c[16] = 0
  BY DEF DcTable
<1>2. /\ first[2] = 0 /\ first[3] = 2 /\ first[4] = 14 /\ first[5] = 30 /\ first[6] = 62
      /\ first[7] = 126 /\ first[8] = 254 /\ first[9] = 510
  BY DcNumbers
<1>3. /\ 2 ^ 2 = 4 /\ 2 ^ 3 = 8 /\ 2 ^ 4 = 16 /\ 2 ^ 5 = 32
      /\ 2 ^ 6 = 64 /\ 2 ^ 7 = 128 /\ 2 ^ 8 = 256 /\ 2 ^ 9 = 512
  OBVIOUS
<1>4. len \in 2 .. 9
  <2>1. c[len] > 0
    OBVIOUS
  <2> HIDE DEF c
  <2>2. /\ len # 1 /\ len # 10 /\ len # 11 /\ len # 12 /\ len # 13
        /\ len # 14 /\ len # 15 /\ len # 16
    BY <1>1, <2>1
  <2> QED
    BY <2>2
<1> HIDE DEF c
<1>5. first[len] + c[len] <= 2 ^ len
  <2>1. \/ len = 2 \/ len = 3 \/ len = 4 \/ len = 5
        \/ len = 6 \/ len = 7 \/ len = 8 \/ len = 9
    BY <1>4
  <2>2. /\ first[2] + c[2] <= 2 ^ 2 /\ first[3] + c[3] <= 2 ^ 3
        /\ first[4] + c[4] <= 2 ^ 4 /\ first[5] + c[5] <= 2 ^ 5
        /\ first[6] + c[6] <= 2 ^ 6 /\ first[7] + c[7] <= 2 ^ 7
        /\ first[8] + c[8] <= 2 ^ 8 /\ first[9] + c[9] <= 2 ^ 9
    BY <1>1, <1>2, <1>3
  <2> QED
    BY <2>1, <2>2, Zenon
<1> QED
  BY <1>5 DEF c

LEMMA AcFits ==
  ASSUME NEW len \in 1 .. 16, AcTable.counts[len] > 0, NEW first \in [1 .. 16 -> Nat],
         first[1] = 0,
         \A l \in 1 .. 15 : first[l + 1] = 2 * (first[l] + AcTable.counts[l])
  PROVE  first[len] + AcTable.counts[len] <= 2 ^ len
<1> DEFINE c == AcTable.counts
<1>1. /\ c[1] = 0 /\ c[2] = 1 /\ c[3] = 1 /\ c[4] = 0 /\ c[5] = 0
      /\ c[6] = 0 /\ c[7] = 0 /\ c[8] = 0 /\ c[9] = 0 /\ c[10] = 0
      /\ c[11] = 0 /\ c[12] = 1 /\ c[13] = 0 /\ c[14] = 0 /\ c[15] = 0 /\ c[16] = 1
  BY DEF AcTable
<1>2. first[2] = 0 /\ first[3] = 2 /\ first[12] = 1536 /\ first[16] = 24592
  BY AcNumbers
<1>3. 2 ^ 2 = 4 /\ 2 ^ 3 = 8 /\ 2 ^ 12 = 4096 /\ 2 ^ 16 = 65536
  OBVIOUS
<1>4. len = 2 \/ len = 3 \/ len = 12 \/ len = 16
  <2>1. c[len] > 0
    OBVIOUS
  <2> HIDE DEF c
  <2>2. /\ len # 1 /\ len # 4 /\ len # 5 /\ len # 6 /\ len # 7 /\ len # 8 /\ len # 9
        /\ len # 10 /\ len # 11 /\ len # 13 /\ len # 14 /\ len # 15
    BY <1>1, <2>1
  <2> QED
    BY <2>2
<1> HIDE DEF c
<1>5. first[len] + c[len] <= 2 ^ len
  <2>1. /\ first[2] + c[2] <= 2 ^ 2 /\ first[3] + c[3] <= 2 ^ 3
        /\ first[12] + c[12] <= 2 ^ 12 /\ first[16] + c[16] <= 2 ^ 16
    BY <1>1, <1>2, <1>3
  <2> QED
    BY <1>4, <2>1, Zenon
<1> QED
  BY <1>5 DEF c

\* A table whose codes fit has a code for each symbol.
LEMMA CodesFit ==
  ASSUME NEW t, t.counts \in [1 .. 16 -> Nat], t.symbols \in Seq(0 .. 255),
         Len(t.symbols) = Sum(t.counts),
         \A first \in [1 .. 16 -> Nat] :
           first[1] = 0
             /\ (\A l \in 1 .. 15 : first[l + 1] = 2 * (first[l] + t.counts[l]))
           => \A len \in 1 .. 16 : t.counts[len] > 0
                                     => first[len] + t.counts[len] <= 2 ^ len
  PROVE  CodeTable(t)
<1>1. MaxLen = 16
  BY JpegNumbers
<1>2. PICK upto, first : Canonical(TableOf(t), t.counts, upto, first)
  BY <1>1, BuildHuffIs DEF TableOf
<1>3. Numbered(t.counts, upto, first)
  BY <1>1, <1>2, CanonicalNumbers
<1>4. \A len \in 1 .. 16 : t.counts[len] > 0 => first[len] + t.counts[len] <= 2 ^ len
  BY <1>3 DEF Numbered
<1>5. ASSUME NEW len \in 1 .. 16 PROVE TableOf(t).max[len] < 2 ^ len
  <2>1. TableOf(t).max[len]
          = IF t.counts[len] = 0 THEN -1 ELSE first[len] + t.counts[len] - 1
    BY <1>1, <1>2 DEF Canonical
  <2>2. PICK z \in Nat \ {0}, f \in Nat, n \in Nat :
          2 ^ len = z /\ first[len] = f /\ t.counts[len] = n
    <3>1. len \in Nat
      OBVIOUS
    <3> QED
      BY <1>3, <3>1, PowersType DEF Numbered
  <2>3. n > 0 => f + n <= z
    BY <1>4, <2>2
  <2>4. CASE n = 0
    BY <2>1, <2>2, <2>4
  <2>5. CASE n # 0
    <3>1. f + n - 1 < z
      BY <2>3, <2>5
    <3> QED
      BY <2>1, <2>2, <2>5, <3>1
  <2> QED
    BY <2>4, <2>5
<1> QED
  BY <1>1, <1>5 DEF CodeTable, TableOf

LEMMA DcTableIs ==
  CodeTable(DcTable) /\ \A c \in 0 .. 11 : \E i \in DOMAIN DcTable.symbols : DcTable.symbols[i] = c
<1>1. /\ DcTable.counts \in [1 .. 16 -> Nat] /\ DcTable.symbols \in Seq(0 .. 255)
      /\ Len(DcTable.symbols) = 12
  BY DEF DcTable
<1>2. CodeTable(DcTable)
  BY <1>1, DcSum, DcFits, CodesFit
<1>3. ASSUME NEW c \in 0 .. 11
      PROVE  c + 1 \in DOMAIN DcTable.symbols /\ DcTable.symbols[c + 1] = c
  <2>1. DOMAIN DcTable.symbols = 1 .. 12
    BY DEF DcTable
  <2>2. DcTable.symbols[c + 1] = c
    <3>1. \/ c = 0 \/ c = 1 \/ c = 2 \/ c = 3 \/ c = 4 \/ c = 5 \/ c = 6 \/ c = 7
          \/ c = 8 \/ c = 9 \/ c = 10 \/ c = 11
      OBVIOUS
    <3> QED
      BY <3>1 DEF DcTable
  <2> QED
    BY <2>1, <2>2
<1> QED
  BY <1>2, <1>3

LEMMA AcTableIs ==
  /\ CodeTable(AcTable)
  /\ \A c \in {0, 34, 240, 225} : \E i \in DOMAIN AcTable.symbols : AcTable.symbols[i] = c
<1>1. /\ AcTable.counts \in [1 .. 16 -> Nat] /\ AcTable.symbols \in Seq(0 .. 255)
      /\ Len(AcTable.symbols) = 4
  BY DEF AcTable
<1>2. CodeTable(AcTable)
  BY <1>1, AcSum, AcFits, CodesFit
<1>3. /\ DOMAIN AcTable.symbols = 1 .. 4 /\ AcTable.symbols[1] = 0
      /\ AcTable.symbols[2] = 34 /\ AcTable.symbols[3] = 240 /\ AcTable.symbols[4] = 225
  BY DEF AcTable
<1>4. 1 \in 1 .. 4 /\ 2 \in 1 .. 4 /\ 3 \in 1 .. 4 /\ 4 \in 1 .. 4
  OBVIOUS
<1> QED
  BY <1>2, <1>3, <1>4

-----------------------------------------------------------------------------
(* DC differences *)

LEMMA HuffmanType ==
  ASSUME NEW t, CodeTable(t), NEW sym, \E i \in DOMAIN t.symbols : t.symbols[i] = sym
  PROVE  Huffman(t, sym) \in Seq({0, 1}) /\ Len(Huffman(t, sym)) \in 1 .. 16
<1>1. PICK upto, first :
        /\ Numbered(t.counts, upto, first) /\ Len(t.symbols) = upto[16]
        /\ \A len \in 1 .. 16 : t.counts[len] > 0
                                  => first[len] + t.counts[len] <= 2 ^ len
  BY TableIs
<1>2. PICK k \in 1 .. upto[16], L \in 1 .. 16, c \in Nat :
        Stands(t, sym, upto, first, k, L, c)
  BY <1>1, HuffmanIs
<1>3. L \in 0 .. 16 /\ Huffman(t, sym) = Bits(c, L)
  BY <1>2 DEF Stands
<1> QED
  BY <1>3, BitsType

\* What is found is found in parts.
LEMMA FoundParts ==
  ASSUME NEW s, Carries(s), NEW a \in Nat, NEW u \in Seq({0, 1}), NEW v \in Seq({0, 1}),
         Found(s, a, u \o v)
  PROVE  /\ Found(s, a, u) /\ Found(s, a + Len(u), v)
         /\ u \o v \in Seq({0, 1}) /\ Len(u \o v) = Len(u) + Len(v)
<1> DEFINE w == u \o v
<1>1. PICK m \in Nat, n \in Nat, t \in Nat : Len(u) = m /\ Len(v) = n /\ Len(s.bits) = t
  BY DEF Carries
<1>2. /\ w \in Seq({0, 1}) /\ Len(w) = m + n
      /\ \A i \in 1 .. m : w[i] = u[i]
      /\ \A i \in 1 .. n : w[m + i] = v[i]
  BY <1>1
<1>3. Found(s, a, w)
  OBVIOUS
<1> HIDE DEF w
<1>4. a + (m + n) <= t /\ \A i \in 1 .. m + n : s.bits[a + i] = w[i]
  BY <1>1, <1>2, <1>3 DEF Found
<1>5. Found(s, a, u)
  <2>1. a + m <= t
    BY <1>4
  <2>2. \A i \in 1 .. m : s.bits[a + i] = u[i]
    BY <1>2, <1>4
  <2> QED
    BY <1>1, <2>1, <2>2 DEF Found
<1>6. Found(s, a + m, v)
  <2>1. (a + m) + n <= t
    BY <1>4
  <2>2. ASSUME NEW i \in 1 .. n PROVE s.bits[(a + m) + i] = v[i]
    <3>1. m + i \in 1 .. m + n /\ a + (m + i) = (a + m) + i
      OBVIOUS
    <3> QED
      BY <1>2, <1>4, <3>1
  <2> QED
    BY <1>1, <2>1, <2>2 DEF Found
<1> QED
  BY <1>1, <1>2, <1>5, <1>6 DEF w

Doubled(c) == \E y \in Nat \ {0} : 2 ^ (c - 1) = y /\ 2 ^ c = 2 * y

LEMMA Doubles == ASSUME NEW c \in 1 .. 16 PROVE Doubled(c)
<1>1. ASSUME NEW d \in 0 .. 15, c = d + 1 PROVE Doubled(c)
  <2>1. d \in Nat /\ c - 1 = d
    BY <1>1
  <2>2. PICK y \in Nat \ {0} : 2 ^ d = y
    BY <2>1, PowersType
  <2>3. 2 ^ (d + 1) = 2 * y
    BY <2>2, PowerStep
  <2> QED
    BY <1>1, <2>1, <2>2, <2>3 DEF Doubled
<1>2. c - 1 \in 0 .. 15 /\ c = (c - 1) + 1
  OBVIOUS
<1> QED
  BY <1>1, <1>2

\* The differences of values of 11 bits.
Differences == -2047 .. 2047

\* The category of a difference, and its bits.
OfCategory(diff, c) ==
  LET m == IF diff < 0 THEN -diff ELSE diff
  IN  m < 2 ^ c /\ (c = 0 \/ m >= 2 ^ (c - 1))

\* How far a difference is from 0.
Magnitude(diff) == IF diff < 0 THEN -diff ELSE diff

LEMMA MagnitudeIs ==
  ASSUME NEW diff \in Differences
  PROVE  Magnitude(diff) \in 0 .. 2047
<1>1. diff \in Int /\ diff <= 2047
  BY DEF Differences
<1>2. -2047 <= diff
  BY DEF Differences
<1>3. PICK n \in Int : n = -diff
  BY <1>1
<1>4. CASE diff < 0
  <2>1. n \in 0 .. 2047
    BY <1>1, <1>2, <1>3, <1>4
  <2> QED
    BY <1>3, <1>4, <2>1 DEF Magnitude
<1>5. CASE ~(diff < 0)
  BY <1>1, <1>5 DEF Magnitude
<1> QED
  BY <1>4, <1>5

LEMMA CategoryIs ==
  ASSUME NEW diff \in Differences
  PROVE  Category(diff) \in 0 .. 11 /\ OfCategory(diff, Category(diff))
<1>0. diff \in -2047 .. 2047
  BY DEF Differences
<1>a. PICK m \in 0 .. 2047 : Magnitude(diff) = m
  BY MagnitudeIs
<1>1. (IF diff < 0 THEN -diff ELSE diff) = m
  BY <1>a DEF Magnitude
<1>2. /\ 2 ^ 0 = 1 /\ 2 ^ 1 = 2 /\ 2 ^ 2 = 4 /\ 2 ^ 3 = 8 /\ 2 ^ 4 = 16 /\ 2 ^ 5 = 32
      /\ 2 ^ 6 = 64 /\ 2 ^ 7 = 128 /\ 2 ^ 8 = 256 /\ 2 ^ 9 = 512 /\ 2 ^ 10 = 1024
      /\ 2 ^ 11 = 2048
  OBVIOUS
<1> DEFINE P(c) == m < 2 ^ c /\ (c = 0 \/ m >= 2 ^ (c - 1))
<1>3. \E c \in 0 .. 11 : P(c)
  <2>1. ASSUME m = 0 PROVE P(0)
    BY <1>2, <2>1
  <2>2. ASSUME NEW c \in 1 .. 11, NEW x, NEW y, 2 ^ c = x, 2 ^ (c - 1) = y, m < x, m >= y
        PROVE  P(c)
    BY <2>2
  <2>3. /\ 1 - 1 = 0 /\ 2 - 1 = 1 /\ 3 - 1 = 2 /\ 4 - 1 = 3 /\ 5 - 1 = 4 /\ 6 - 1 = 5
        /\ 7 - 1 = 6 /\ 8 - 1 = 7 /\ 9 - 1 = 8 /\ 10 - 1 = 9 /\ 11 - 1 = 10
    OBVIOUS
  <2>4. \/ m = 0 \/ (m < 2 /\ m >= 1) \/ (m < 4 /\ m >= 2) \/ (m < 8 /\ m >= 4)
        \/ (m < 16 /\ m >= 8) \/ (m < 32 /\ m >= 16) \/ (m < 64 /\ m >= 32)
        \/ (m < 128 /\ m >= 64) \/ (m < 256 /\ m >= 128) \/ (m < 512 /\ m >= 256)
        \/ (m < 1024 /\ m >= 512) \/ (m < 2048 /\ m >= 1024)
    OBVIOUS
  <2>5. CASE m = 0
    BY <2>1, <2>5
  <2>6. CASE m < 2 /\ m >= 1
    BY <1>2, <2>2, <2>3, <2>6
  <2>7. CASE m < 4 /\ m >= 2
    BY <1>2, <2>2, <2>3, <2>7
  <2>8. CASE m < 8 /\ m >= 4
    BY <1>2, <2>2, <2>3, <2>8
  <2>9. CASE m < 16 /\ m >= 8
    BY <1>2, <2>2, <2>3, <2>9
  <2>10. CASE m < 32 /\ m >= 16
    BY <1>2, <2>2, <2>3, <2>10
  <2>11. CASE m < 64 /\ m >= 32
    BY <1>2, <2>2, <2>3, <2>11
  <2>12. CASE m < 128 /\ m >= 64
    BY <1>2, <2>2, <2>3, <2>12
  <2>13. CASE m < 256 /\ m >= 128
    BY <1>2, <2>2, <2>3, <2>13
  <2>14. CASE m < 512 /\ m >= 256
    BY <1>2, <2>2, <2>3, <2>14
  <2>15. CASE m < 1024 /\ m >= 512
    BY <1>2, <2>2, <2>3, <2>15
  <2>16. CASE m < 2048 /\ m >= 1024
    BY <1>2, <2>2, <2>3, <2>16
  <2> QED
    BY <2>4, <2>5, <2>6, <2>7, <2>8, <2>9, <2>10, <2>11, <2>12, <2>13, <2>14, <2>15, <2>16
<1>4. Category(diff) = CHOOSE c \in 0 .. 11 : OfCategory(diff, c)
  BY DEF Category, OfCategory
<1>5. \E c \in 0 .. 11 : OfCategory(diff, c)
  <2>1. PICK c \in 0 .. 11 : P(c)
    BY <1>3
  <2>2. OfCategory(diff, c)
    BY <1>1, <2>1 DEF OfCategory
  <2> QED
    BY <2>2
<1> QED
  BY <1>4, <1>5

\* The bits of a difference say which it is.
Amplitude(diff, c) == IF diff < 0 THEN diff + 2 ^ c - 1 ELSE diff

LEMMA ExtendIs ==
  ASSUME NEW diff \in Differences, NEW c \in 0 .. 11, OfCategory(diff, c)
  PROVE  /\ Amplitude(diff, c) \in Nat /\ Amplitude(diff, c) < 2 ^ c
         /\ Extend(Amplitude(diff, c), c) = diff
<1>0. diff \in -2047 .. 2047
  BY DEF Differences
<1>a. PICK m \in 0 .. 2047 : Magnitude(diff) = m
  BY MagnitudeIs
<1>1. (IF diff < 0 THEN -diff ELSE diff) = m
  BY <1>a DEF Magnitude
<1>2. m < 2 ^ c /\ (c = 0 \/ m >= 2 ^ (c - 1))
  BY <1>1 DEF OfCategory
<1>3. CASE c = 0
  <2>1. 2 ^ 0 = 1
    OBVIOUS
  <2>2. m = 0
    BY <1>2, <1>3, <2>1
  <2>3. diff = 0
    BY <1>0, <1>1, <2>2
  <2>4. Amplitude(diff, c) = 0
    BY <2>3 DEF Amplitude
  <2> QED
    BY <1>3, <2>1, <2>3, <2>4 DEF Extend
<1>4. CASE c # 0
  <2>1. PICK y \in Nat \ {0} : 2 ^ (c - 1) = y /\ 2 ^ c = 2 * y
    <3>1. c \in 1 .. 16
      BY <1>4
    <3>2. Doubled(c)
      BY <3>1, Doubles
    <3> QED
      BY <3>2 DEF Doubled
  <2>2. PICK z \in Nat : 2 * y = z
    OBVIOUS
  <2>3. m < z /\ m >= y /\ 2 ^ c = z
    BY <1>2, <1>4, <2>1, <2>2
  <2>4. PICK v \in Int : Amplitude(diff, c) = v /\ v = IF diff < 0 THEN diff + z - 1 ELSE diff
    <3>1. Amplitude(diff, c) = IF diff < 0 THEN diff + z - 1 ELSE diff
      BY <2>3 DEF Amplitude
    <3>2. (IF diff < 0 THEN diff + z - 1 ELSE diff) \in Int
      BY <1>0
    <3> QED
      BY <3>1, <3>2
  <2>5. Extend(v, c) = IF v < y THEN v - (z - 1) ELSE v
    BY <1>4, <2>1, <2>3 DEF Extend
  <2>6. CASE diff < 0
    <3>1. m = -diff /\ v = diff + z - 1
      BY <1>1, <2>4, <2>6
    <3>2. v \in Nat /\ v < y /\ v < z /\ v - (z - 1) = diff
      BY <1>0, <2>2, <2>3, <3>1
    <3> QED
      BY <2>3, <2>4, <2>5, <3>2
  <2>7. CASE ~(diff < 0)
    <3>1. m = diff /\ v = diff
      BY <1>1, <2>4, <2>7
    <3>2. v \in Nat /\ ~(v < y) /\ v < z
      BY <1>0, <2>3, <3>1
    <3> QED
      BY <2>3, <2>4, <2>5, <3>1, <3>2
  <2> QED
    BY <2>6, <2>7
<1> QED
  BY <1>3, <1>4

-----------------------------------------------------------------------------
(* AC coefficients *)

\* A difference is decoded as it was coded.
DcRead(s, r, diff, e) ==
  LET h == HuffDecode(s.data, r, TableOf(DcTable))
      g == Get(s.data, h.r, h.sym)
  IN  h.ok /\ g.ok /\ Extend(g.val, h.sym) = diff /\ Reading(s, g.r, e)

LEMMA DcReads ==
  ASSUME NEW s, Carries(s), NEW r, NEW a, Reading(s, r, a), NEW diff \in Differences,
         Found(s, a, DcBits(diff))
  PROVE  DcRead(s, r, diff, a + Len(DcBits(diff)))
<1>1. PICK c \in 0 .. 11 : c = Category(diff) /\ OfCategory(diff, c)
  BY CategoryIs
<1>2. PICK v \in Nat : v = Amplitude(diff, c) /\ v < 2 ^ c /\ Extend(v, c) = diff
  <2>1. Amplitude(diff, c) \in Nat /\ Amplitude(diff, c) < 2 ^ c
        /\ Extend(Amplitude(diff, c), c) = diff
    BY <1>1, ExtendIs
  <2> QED
    BY <2>1
<1>3. PICK u \in Seq({0, 1}) : Huffman(DcTable, c) = u
  BY DcTableIs, HuffmanType
<1>4. c \in 0 .. 16 /\ c \in Nat
  OBVIOUS
<1>5. PICK w \in Seq({0, 1}) : Bits(v, c) = w /\ Len(w) = c /\ Value(w) = v
  BY <1>2, <1>4, BitsType, ValueOfBits
<1>6. DcBits(diff) = u \o w
  BY <1>1, <1>2, <1>3, <1>5 DEF DcBits, Amplitude
<1>7. a \in Nat
  BY DEF Reading
<1>8. PICK m \in Nat : Len(u) = m
  OBVIOUS
<1>9. Found(s, a, u) /\ Found(s, a + m, w) /\ Len(u \o w) = m + c
  <2>1. Found(s, a, u \o w)
    BY <1>6
  <2>2. Found(s, a, u) /\ Found(s, a + Len(u), w) /\ Len(u \o w) = Len(u) + Len(w)
    BY <1>7, <2>1, FoundParts
  <2> QED
    BY <1>5, <1>8, <2>2
<1>10. PICK h : h = HuffDecode(s.data, r, TableOf(DcTable))
  OBVIOUS
<1>11. h.ok /\ h.sym = c /\ Reading(s, h.r, a + m)
  <2>1. CodeTable(DcTable) /\ \E i \in DOMAIN DcTable.symbols : DcTable.symbols[i] = c
    BY DcTableIs
  <2>2. Found(s, a, Huffman(DcTable, c))
    BY <1>3, <1>9
  <2>3. LET b == HuffDecode(s.data, r, BuildHuff(DcTable.counts, DcTable.symbols))
        IN  b.ok /\ b.sym = c /\ Reading(s, b.r, a + Len(Huffman(DcTable, c)))
    BY <2>1, <2>2, HuffGivesBack
  <2> QED
    BY <1>3, <1>8, <1>10, <2>3 DEF TableOf
<1>12. PICK g : g = Get(s.data, h.r, c)
  OBVIOUS
<1>13. g.ok /\ g.val = v /\ Reading(s, g.r, (a + m) + c)
  <2>1. PICK b \in Nat : a + m = b
    BY <1>7
  <2>2. Reading(s, h.r, b) /\ Found(s, b, w)
    BY <1>9, <1>11, <2>1
  <2>3. Gets(s, h.r, b, w, c)
    BY <1>4, <1>5, <2>2, GetReads
  <2> QED
    BY <1>5, <1>12, <2>1, <2>3 DEF Gets
<1>14. (a + m) + c = a + (m + c)
  BY <1>7
<1> QED
  BY <1>2, <1>6, <1>9, <1>10, <1>11, <1>12, <1>13, <1>14 DEF DcRead

Stopped(x) == ~(x.go /\ x.count < 64)

\* It ends where it stops.
LEMMA AcStops ==
  ASSUME NEW A, NEW data, NEW ht, NEW r, AcRun(A, data, ht, r),
         NEW i \in 0 .. 64, Stopped(A[i])
  PROVE  SkipAc(data, ht, r) = A[i].r
<1> DEFINE S == {k \in Nat : i + k <= 64 => A[i + k] = A[i]}
<1>1. i \in Nat /\ Coefs = 64
  BY JpegNumbers
<1>2. 0 \in S
  <2>1. i + 0 = i
    BY <1>1
  <2> QED
    BY <2>1
<1>3. ASSUME NEW k \in Nat, k \in S PROVE k + 1 \in S
  <2> SUFFICES ASSUME i + (k + 1) <= 64 PROVE A[i + (k + 1)] = A[i]
    OBVIOUS
  <2>1. i + (k + 1) \in 1 .. 64 /\ (i + (k + 1)) - 1 = i + k /\ i + k <= 64
    BY <1>1
  <2>2. A[i + k] = A[i]
    BY <1>3, <2>1
  <2>3. A[i + (k + 1)] = AcStep(data, ht, A[i + k])
    BY <2>1 DEF AcRun
  <2> QED
    BY <1>1, <2>2, <2>3 DEF AcStep, Stopped
<1> HIDE DEF S
<1>4. 64 - i \in S /\ i + (64 - i) = 64 /\ i + (64 - i) <= 64
  <2>1. 64 - i \in Nat /\ i + (64 - i) = 64 /\ i + (64 - i) <= 64
    BY <1>1
  <2>2. \A k \in Nat : k \in S
    BY <1>2, <1>3, Induction
  <2> QED
    BY <2>1, <2>2
<1>5. A[64] = A[i]
  BY <1>4 DEF S
<1> QED
  BY <1>5 DEF AcRun

\* In the walk, count coefficients being known, behind the first a bits.
AcAt(s, x, a, count) == x.go /\ x.count = count /\ Reading(s, x.r, a)

\* What a step does for each of the symbols the camera uses.
AcStepped(s, y, a, m, count, sym) ==
  /\ sym = 0 => ~y.go /\ Reading(s, y.r, a + m)
  /\ sym = 240 => AcAt(s, y, a + m, count + 16)
  /\ sym = 34 /\ Found(s, a + m, <<1, 1>>) => AcAt(s, y, (a + m) + 2, count + 3)
  /\ sym = 225 /\ Found(s, a + m, <<1>>) => AcAt(s, y, (a + m) + 1, count + 15)

LEMMA AcStepReads ==
  ASSUME NEW s, Carries(s), NEW a \in Nat, NEW count \in 0 .. 63, NEW x \in AcState,
         AcAt(s, x, a, count), NEW sym \in {0, 34, 240, 225},
         Found(s, a, Huffman(AcTable, sym)),
         NEW m \in Nat, Len(Huffman(AcTable, sym)) = m,
         NEW y, AcStep(s.data, TableOf(AcTable), x) = y
  PROVE  AcStepped(s, y, a, m, count, sym)
<1>1. /\ x.go \in BOOLEAN /\ x.go /\ x.count = count /\ Reading(s, x.r, a)
      /\ count < Coefs /\ count \in Nat
  BY JpegNumbers DEF AcState, AcAt
<1>2. PICK h : h = HuffDecode(s.data, x.r, TableOf(AcTable))
  OBVIOUS
<1>3. h.ok /\ h.sym = sym /\ Reading(s, h.r, a + m)
  BY <1>1, <1>2, AcTableIs, HuffGivesBack DEF TableOf
<1>4. y = AcSymbol(s.data, x, h)
  BY <1>1, <1>2 DEF AcStep
<1>5. CASE sym = 0
  <2>1. h.sym % 16 = 0 /\ h.sym \div 16 # 15
    BY <1>3, <1>5
  <2>2. y = [x EXCEPT !.go = FALSE, !.r = h.r]
    BY <1>4, <2>1 DEF AcSymbol
  <2>3. ~y.go /\ y.r = h.r
    BY <2>2 DEF AcState
  <2> QED
    BY <1>3, <1>5, <2>3 DEF AcStepped
<1>6. CASE sym = 240
  <2>1. h.sym % 16 = 0 /\ h.sym \div 16 = 15
    BY <1>3, <1>6
  <2>2. y = [x EXCEPT !.count = @ + 16, !.r = h.r]
    BY <1>3, <1>4, <2>1 DEF AcSymbol
  <2>3. y.go /\ y.count = count + 16 /\ y.r = h.r
    BY <1>1, <2>2 DEF AcState
  <2>4. AcAt(s, y, a + m, count + 16)
    BY <1>3, <2>3 DEF AcAt
  <2> QED
    BY <1>6, <2>4 DEF AcStepped
<1>7. ASSUME NEW run \in Nat, NEW size \in 1 .. 2, NEW w \in Seq({0, 1}), Len(w) = size,
             Found(s, a + m, w), sym % 16 = size, sym \div 16 = run
      PROVE  AcAt(s, y, (a + m) + size, count + run + 1)
  <2>1. h.sym % 16 = size /\ h.sym \div 16 = run /\ size # 0 /\ size \in 0 .. 16
    BY <1>3, <1>7
  <2>2. PICK g : Get(s.data, h.r, size) = g
    OBVIOUS
  <2>3. g.ok /\ Reading(s, g.r, (a + m) + size)
    <3>1. PICK b \in Nat : a + m = b
      OBVIOUS
    <3>2. Reading(s, h.r, b) /\ Found(s, b, w)
      BY <1>3, <1>7, <3>1
    <3>3. size \in 0 .. 16 /\ Len(w) = size
      BY <1>7
    <3>4. PICK z \in 0 .. 16 : z = size
      BY <3>3
    <3>5. PICK q : q = h.r
      OBVIOUS
    <3>6. Reading(s, q, b) /\ Len(w) = z /\ w \in Seq({0, 1})
      BY <3>2, <3>3, <3>4, <3>5
    <3>7. Gets(s, q, b, w, z)
      BY <3>2, <3>6, GetReads
    <3>8. Gets(s, h.r, b, w, size)
      BY <3>4, <3>5, <3>7
    <3> QED
      BY <2>2, <3>1, <3>8 DEF Gets
  <2>4. y = [count |-> x.count + run + 1, go |-> g.ok, r |-> g.r]
    BY <1>3, <1>4, <2>1, <2>2 DEF AcSymbol
  <2> QED
    BY <1>1, <2>3, <2>4 DEF AcAt
<1>8. ASSUME sym = 34, Found(s, a + m, <<1, 1>>) PROVE AcAt(s, y, (a + m) + 2, count + 3)
  <2>1. sym % 16 = 2 /\ sym \div 16 = 2 /\ 2 \in Nat /\ 2 \in 1 .. 2
        /\ <<1, 1>> \in Seq({0, 1}) /\ Len(<<1, 1>>) = 2 /\ count + 2 + 1 = count + 3
    BY <1>8
  <2>2. AcAt(s, y, (a + m) + 2, count + 2 + 1)
    BY <1>7, <1>8, <2>1
  <2> QED
    BY <2>1, <2>2
<1>9. ASSUME sym = 225, Found(s, a + m, << 1 >>) PROVE AcAt(s, y, (a + m) + 1, count + 15)
  <2>1. sym % 16 = 1 /\ sym \div 16 = 14 /\ 14 \in Nat /\ 1 \in 1 .. 2
        /\ <<1>> \in Seq({0, 1}) /\ Len(<<1>>) = 1 /\ count + 14 + 1 = count + 15
    BY <1>9
  <2>2. AcAt(s, y, (a + m) + 1, count + 14 + 1)
    BY <1>7, <1>9, <2>1
  <2> QED
    BY <2>1, <2>2
<1> QED
  BY <1>5, <1>6, <1>8, <1>9 DEF AcStepped

LEMMA FlattenThree ==
  ASSUME NEW x \in Seq({0, 1})
  PROVE  FlattenSeq([i \in 1 .. 3 |-> x]) = (x \o x) \o x
<1> DEFINE seqs == [i \in 1 .. 3 |-> x]
<1>1. /\ seqs \in Seq(Seq({0, 1})) /\ Len(seqs) = 3
      /\ seqs[1] = x /\ seqs[2] = x /\ seqs[3] = x
  OBVIOUS
<1> HIDE DEF seqs
<1>2. PICK c :
        /\ c[0] = <<>> /\ \A k \in 1 .. 3 : c[k] = c[k - 1] \o seqs[k]
        /\ FlattenSeq(seqs) = c[3]
  <2>1. PICK c \in [0 .. Len(seqs) -> Seq({0, 1})] :
          /\ c[0] = <<>> /\ \A k \in 1 .. Len(seqs) : c[k] = c[k - 1] \o seqs[k]
          /\ FlattenSeq(seqs) = c[Len(seqs)]
    BY <1>1, FlattenRuns
  <2> QED
    BY <1>1, <2>1
<1>3. 1 - 1 = 0 /\ 2 - 1 = 1 /\ 3 - 1 = 2 /\ 1 \in 1 .. 3 /\ 2 \in 1 .. 3 /\ 3 \in 1 .. 3
  OBVIOUS
<1>4. c[1] = <<>> \o x /\ c[2] = c[1] \o x /\ c[3] = c[2] \o x
  BY <1>1, <1>2, <1>3
<1>5. <<>> \o x = x
  OBVIOUS
<1> QED
  BY <1>2, <1>4, <1>5 DEF seqs

LEMMA BitsConcat ==
  ASSUME NEW u \in Seq({0, 1}), NEW v \in Seq({0, 1}) PROVE u \o v \in Seq({0, 1})
OBVIOUS

LEMMA AcCode ==
  ASSUME NEW sym \in {0, 34, 240, 225}
  PROVE  Huffman(AcTable, sym) \in Seq({0, 1})
BY AcTableIs, HuffmanType

LEMMA Ones ==
  /\ <<1>> \in Seq({0, 1}) /\ Len(<<1>>) = 1
  /\ <<1, 1>> \in Seq({0, 1}) /\ Len(<<1, 1>>) = 2
OBVIOUS

LEMMA AcRunIs ==
  ASSUME NEW s, NEW A, NEW data, NEW ht, NEW r, NEW a, AcRun(A, data, ht, r), Reading(s, r, a)
  PROVE  /\ A[0] \in AcState /\ A[1] \in AcState /\ A[2] \in AcState /\ A[3] \in AcState
         /\ AcStep(data, ht, A[0]) = A[1] /\ AcStep(data, ht, A[1]) = A[2]
         /\ AcStep(data, ht, A[2]) = A[3] /\ AcStep(data, ht, A[3]) = A[4]
         /\ AcAt(s, A[0], a, 1)
<1>1. /\ 1 \in 1 .. 64 /\ 2 \in 1 .. 64 /\ 3 \in 1 .. 64 /\ 4 \in 1 .. 64
      /\ 1 - 1 = 0 /\ 2 - 1 = 1 /\ 3 - 1 = 2 /\ 4 - 1 = 3
  OBVIOUS
<1>2. 0 \in 0 .. 64 /\ 1 \in 0 .. 64 /\ 2 \in 0 .. 64 /\ 3 \in 0 .. 64
  OBVIOUS
<1>3. \A k \in 1 .. 64 : A[k] = AcStep(data, ht, A[k - 1])
  BY DEF AcRun
<1>4. A[0] = [count |-> 1, go |-> TRUE, r |-> r] /\ \A k \in 0 .. 64 : A[k] \in AcState
  BY DEF AcRun
<1>5. AcAt(s, A[0], a, 1)
  BY <1>4 DEF AcAt
<1>6. /\ AcStep(data, ht, A[0]) = A[1] /\ AcStep(data, ht, A[1]) = A[2]
      /\ AcStep(data, ht, A[2]) = A[3] /\ AcStep(data, ht, A[3]) = A[4]
  BY <1>1, <1>3
<1> QED
  BY <1>2, <1>4, <1>5, <1>6

\* The bits of the AC coefficients lead the reader behind them.
LEMMA FlatReads ==
  ASSUME NEW s, Carries(s), NEW r, NEW a, Reading(s, r, a), Found(s, a, AcBits("flat"))
  PROVE  /\ AcBits("flat") \in Seq({0, 1})
         /\ Reading(s, SkipAc(s.data, TableOf(AcTable), r), a + Len(AcBits("flat")))
<1>1. PICK u \in Seq({0, 1}), m \in Nat : Huffman(AcTable, 0) = u /\ Len(u) = m
  <2>1. Huffman(AcTable, 0) \in Seq({0, 1})
    BY AcCode
  <2> QED
    BY <2>1
<1>2. AcBits("flat") = u
  BY <1>1 DEF AcBits
<1>3. r \in Reader /\ a \in Nat /\ IsData(s.data) /\ TableOf(AcTable) \in Tables
  BY AcTableIs, TableIs DEF Reading, Carries
<1>4. PICK A : AcRun(A, s.data, TableOf(AcTable), r)
  BY <1>3, SkipAcRuns
<1>5. A[0] \in AcState /\ AcAt(s, A[0], a, 1)
  BY <1>4, AcRunIs
<1>6. PICK y : A[1] = y
  OBVIOUS
<1>7. AcStep(s.data, TableOf(AcTable), A[0]) = y
  BY <1>4, <1>6, AcRunIs
<1>8. ~y.go /\ Reading(s, y.r, a + m)
  <2>1. 1 \in 0 .. 63 /\ 0 \in {0, 34, 240, 225} /\ Found(s, a, Huffman(AcTable, 0))
    BY <1>1, <1>2
  <2>2. Len(Huffman(AcTable, 0)) = m
    BY <1>1
  <2>3. AcStepped(s, y, a, m, 1, 0)
    BY <1>3, <1>5, <1>7, <2>1, <2>2, AcStepReads
  <2> QED
    BY <2>3 DEF AcStepped
<1>9. SkipAc(s.data, TableOf(AcTable), r) = A[1].r
  <2>1. 1 \in 0 .. 64 /\ Stopped(A[1])
    BY <1>6, <1>8 DEF Stopped
  <2> QED
    BY <1>4, <2>1, AcStops
<1> QED
  BY <1>1, <1>2, <1>6, <1>8, <1>9

LEMMA EdgeReads ==
  ASSUME NEW s, Carries(s), NEW r, NEW a, Reading(s, r, a), Found(s, a, AcBits("edge"))
  PROVE  /\ AcBits("edge") \in Seq({0, 1})
         /\ Reading(s, SkipAc(s.data, TableOf(AcTable), r), a + Len(AcBits("edge")))
<1>1. PICK u \in Seq({0, 1}), m \in Nat : Huffman(AcTable, 34) = u /\ Len(u) = m
  <2>1. Huffman(AcTable, 34) \in Seq({0, 1})
    BY AcCode
  <2> QED
    BY <2>1
<1>2. PICK v \in Seq({0, 1}), n \in Nat : Huffman(AcTable, 0) = v /\ Len(v) = n
  <2>1. Huffman(AcTable, 0) \in Seq({0, 1})
    BY AcCode
  <2> QED
    BY <2>1
<1>3. PICK w \in Seq({0, 1}) : <<1, 1>> = w /\ Len(w) = 2
  BY Ones
<1>4. AcBits("edge") = (u \o w) \o v
  BY <1>1, <1>2, <1>3 DEF AcBits
<1>5. r \in Reader /\ a \in Nat /\ IsData(s.data) /\ TableOf(AcTable) \in Tables
  BY AcTableIs, TableIs DEF Reading, Carries
<1>6. /\ Found(s, a, u) /\ Found(s, a + m, w) /\ Found(s, (a + m) + 2, v)
      /\ (u \o w) \o v \in Seq({0, 1}) /\ a + Len((u \o w) \o v) = ((a + m) + 2) + n
  <2>1. PICK x \in Seq({0, 1}) : u \o w = x
    BY BitsConcat
  <2>2. Found(s, a, x \o v)
    BY <1>4, <2>1
  <2>3. /\ Found(s, a, x) /\ Found(s, a + Len(x), v)
        /\ x \o v \in Seq({0, 1}) /\ Len(x \o v) = Len(x) + Len(v)
    BY <1>5, <2>2, FoundParts
  <2>4. Found(s, a, u) /\ Found(s, a + Len(u), w) /\ Len(x) = m + 2
    <3>1. Found(s, a, u \o w)
      BY <2>1, <2>3
    <3>2. Found(s, a, u) /\ Found(s, a + Len(u), w) /\ Len(u \o w) = Len(u) + Len(w)
      BY <1>5, <3>1, FoundParts
    <3> QED
      BY <1>1, <1>3, <2>1, <3>2
  <2>5. a + (m + 2) = (a + m) + 2 /\ a + ((m + 2) + n) = ((a + m) + 2) + n
    BY <1>5
  <2> QED
    BY <1>1, <1>2, <2>1, <2>3, <2>4, <2>5
<1>7. PICK A : AcRun(A, s.data, TableOf(AcTable), r)
  BY <1>5, SkipAcRuns
<1>8. A[0] \in AcState /\ AcAt(s, A[0], a, 1)
  BY <1>7, AcRunIs
<1>9. PICK y \in AcState, z \in {A[2]} : A[1] = y /\ A[2] = z
  BY <1>7, AcRunIs
<1>10. /\ AcStep(s.data, TableOf(AcTable), A[0]) = y
       /\ AcStep(s.data, TableOf(AcTable), y) = z
  BY <1>7, <1>9, AcRunIs
<1>11. AcAt(s, y, (a + m) + 2, 4)
  <2>1. 1 \in 0 .. 63 /\ 34 \in {0, 34, 240, 225} /\ 1 + 3 = 4
    OBVIOUS
  <2>2. Len(Huffman(AcTable, 34)) = m /\ Found(s, a, Huffman(AcTable, 34))
        /\ Found(s, a + m, <<1, 1>>)
    BY <1>1, <1>3, <1>6
  <2>3. AcStepped(s, y, a, m, 1, 34)
    BY <1>5, <1>8, <1>10, <2>1, <2>2, AcStepReads
  <2>4. AcAt(s, y, (a + m) + 2, 1 + 3)
    BY <2>2, <2>3 DEF AcStepped
  <2> QED
    BY <2>1, <2>4
<1>12. ~z.go /\ Reading(s, z.r, ((a + m) + 2) + n)
  <2>1. 4 \in 0 .. 63 /\ 0 \in {0, 34, 240, 225} /\ (a + m) + 2 \in Nat
    BY <1>5
  <2>2. Len(Huffman(AcTable, 0)) = n /\ Found(s, (a + m) + 2, Huffman(AcTable, 0))
    BY <1>2, <1>6
  <2>3. AcStepped(s, z, (a + m) + 2, n, 4, 0)
    BY <1>10, <1>11, <2>1, <2>2, AcStepReads
  <2> QED
    BY <2>3 DEF AcStepped
<1>13. SkipAc(s.data, TableOf(AcTable), r) = A[2].r
  <2>1. 2 \in 0 .. 64 /\ Stopped(A[2])
    BY <1>9, <1>12 DEF Stopped
  <2> QED
    BY <1>7, <2>1, AcStops
<1> QED
  BY <1>4, <1>6, <1>9, <1>12, <1>13

LEMMA SharpReads ==
  ASSUME NEW s, Carries(s), NEW r, NEW a, Reading(s, r, a), Found(s, a, AcBits("sharp"))
  PROVE  /\ AcBits("sharp") \in Seq({0, 1})
         /\ Reading(s, SkipAc(s.data, TableOf(AcTable), r), a + Len(AcBits("sharp")))
<1>1. PICK u \in Seq({0, 1}), m \in Nat : Huffman(AcTable, 240) = u /\ Len(u) = m
  <2>1. Huffman(AcTable, 240) \in Seq({0, 1})
    BY AcCode
  <2> QED
    BY <2>1
<1>2. PICK v \in Seq({0, 1}), n \in Nat : Huffman(AcTable, 225) = v /\ Len(v) = n
  <2>1. Huffman(AcTable, 225) \in Seq({0, 1})
    BY AcCode
  <2> QED
    BY <2>1
<1>3. PICK w \in Seq({0, 1}) : <<1>> = w /\ Len(w) = 1
  BY Ones
<1>4. AcBits("sharp") = (((u \o u) \o u) \o v) \o w
  <2>1. FlattenSeq([i \in 1 .. 3 |-> Huffman(AcTable, 240)]) = (u \o u) \o u
    BY <1>1, FlattenThree
  <2>2. AcBits("sharp") = FlattenSeq([i \in 1 .. 3 |-> Huffman(AcTable, 240)])
                             \o Huffman(AcTable, 225) \o <<1>>
    BY DEF AcBits
  <2> QED
    BY <1>2, <1>3, <2>1, <2>2
<1>5. r \in Reader /\ a \in Nat /\ IsData(s.data) /\ TableOf(AcTable) \in Tables
  BY AcTableIs, TableIs DEF Reading, Carries
<1>6. PICK b1 \in Nat, b2 \in Nat, b3 \in Nat, b4 \in Nat :
        a + m = b1 /\ b1 + m = b2 /\ b2 + m = b3 /\ b3 + n = b4
  BY <1>5
<1>7. /\ Found(s, a, u) /\ Found(s, b1, u) /\ Found(s, b2, u) /\ Found(s, b3, v)
      /\ Found(s, b4, w)
      /\ AcBits("sharp") \in Seq({0, 1}) /\ a + Len(AcBits("sharp")) = b4 + 1
  <2>1. PICK x \in Seq({0, 1}), y \in Seq({0, 1}), z \in Seq({0, 1}) :
          u \o u = x /\ x \o u = y /\ y \o v = z /\ AcBits("sharp") = z \o w
    <3>1. PICK x \in Seq({0, 1}) : u \o u = x
      BY BitsConcat
    <3>2. PICK y \in Seq({0, 1}) : x \o u = y
      BY BitsConcat
    <3>3. PICK z \in Seq({0, 1}) : y \o v = z
      BY BitsConcat
    <3> QED
      BY <1>4, <3>1, <3>2, <3>3
  <2>2. /\ Found(s, a, z) /\ Found(s, a + Len(z), w) /\ z \o w \in Seq({0, 1})
        /\ Len(z \o w) = Len(z) + Len(w)
    <3>1. Found(s, a, z \o w)
      BY <2>1
    <3> QED
      BY <1>5, <3>1, FoundParts
  <2>3. Found(s, a, y) /\ Found(s, a + Len(y), v) /\ Len(z) = Len(y) + Len(v)
    <3>1. Found(s, a, y \o v)
      BY <2>1, <2>2
    <3>2. Found(s, a, y) /\ Found(s, a + Len(y), v) /\ Len(y \o v) = Len(y) + Len(v)
      BY <1>5, <3>1, FoundParts
    <3> QED
      BY <2>1, <3>2
  <2>4. Found(s, a, x) /\ Found(s, a + Len(x), u) /\ Len(y) = Len(x) + Len(u)
    <3>1. Found(s, a, x \o u)
      BY <2>1, <2>3
    <3>2. Found(s, a, x) /\ Found(s, a + Len(x), u) /\ Len(x \o u) = Len(x) + Len(u)
      BY <1>5, <3>1, FoundParts
    <3> QED
      BY <2>1, <3>2
  <2>5. Found(s, a, u) /\ Found(s, a + Len(u), u) /\ Len(x) = Len(u) + Len(u)
    <3>1. Found(s, a, u \o u)
      BY <2>1, <2>4
    <3>2. Found(s, a, u) /\ Found(s, a + Len(u), u) /\ Len(u \o u) = Len(u) + Len(u)
      BY <1>5, <3>1, FoundParts
    <3> QED
      BY <2>1, <3>2
  <2>6. Len(x) = m + m /\ Len(y) = (m + m) + m /\ Len(z) = ((m + m) + m) + n
        /\ Len(z \o w) = (((m + m) + m) + n) + 1
    BY <1>1, <1>2, <1>3, <2>2, <2>3, <2>4, <2>5
  <2>7. /\ a + (m + m) = b2 /\ a + ((m + m) + m) = b3 /\ a + (((m + m) + m) + n) = b4
        /\ a + ((((m + m) + m) + n) + 1) = b4 + 1
    BY <1>5, <1>6
  <2>8. Found(s, a, u) /\ Found(s, b1, u) /\ Found(s, b2, u)
    BY <1>1, <1>6, <2>4, <2>5, <2>6, <2>7
  <2>9. Found(s, b3, v) /\ Found(s, b4, w)
    BY <2>2, <2>3, <2>6, <2>7
  <2>10. AcBits("sharp") \in Seq({0, 1}) /\ a + Len(AcBits("sharp")) = b4 + 1
    BY <2>1, <2>2, <2>6, <2>7
  <2> QED
    BY <2>8, <2>9, <2>10
<1>8. PICK A : AcRun(A, s.data, TableOf(AcTable), r)
  BY <1>5, SkipAcRuns
<1>9. /\ A[0] \in AcState /\ A[1] \in AcState /\ A[2] \in AcState /\ A[3] \in AcState
      /\ AcAt(s, A[0], a, 1)
  BY <1>8, AcRunIs
<1>10. /\ AcStep(s.data, TableOf(AcTable), A[0]) = A[1]
       /\ AcStep(s.data, TableOf(AcTable), A[1]) = A[2]
       /\ AcStep(s.data, TableOf(AcTable), A[2]) = A[3]
       /\ AcStep(s.data, TableOf(AcTable), A[3]) = A[4]
  BY <1>8, AcRunIs
<1>11. PICK x1 \in AcState, x2 \in AcState, x3 \in AcState, x4 \in {A[4]} :
         A[1] = x1 /\ A[2] = x2 /\ A[3] = x3 /\ A[4] = x4
  BY <1>9
<1>12. Len(Huffman(AcTable, 240)) = m /\ 240 \in {0, 34, 240, 225}
  BY <1>1
<1>13. AcAt(s, x1, b1, 17)
  <2>1. 1 \in 0 .. 63 /\ 1 + 16 = 17
    OBVIOUS
  <2>2. Found(s, a, Huffman(AcTable, 240)) /\ AcStep(s.data, TableOf(AcTable), A[0]) = x1
    BY <1>1, <1>7, <1>10, <1>11
  <2>3. AcAt(s, x1, a + m, 1 + 16)
    <3>1. AcStepped(s, x1, a, m, 1, 240)
      BY <1>5, <1>9, <1>12, <2>1, <2>2, AcStepReads
    <3> QED
      BY <3>1 DEF AcStepped
  <2> QED
    BY <1>6, <2>1, <2>3
<1>14. AcAt(s, x2, b2, 33)
  <2>1. 17 \in 0 .. 63 /\ 17 + 16 = 33
    OBVIOUS
  <2>2. Found(s, b1, Huffman(AcTable, 240)) /\ AcStep(s.data, TableOf(AcTable), x1) = x2
    BY <1>1, <1>7, <1>10, <1>11
  <2>3. AcAt(s, x2, b1 + m, 17 + 16)
    <3>1. AcStepped(s, x2, b1, m, 17, 240)
      BY <1>12, <1>13, <2>1, <2>2, AcStepReads
    <3> QED
      BY <3>1 DEF AcStepped
  <2> QED
    BY <1>6, <2>1, <2>3
<1>15. AcAt(s, x3, b3, 49)
  <2>1. 33 \in 0 .. 63 /\ 33 + 16 = 49
    OBVIOUS
  <2>2. Found(s, b2, Huffman(AcTable, 240)) /\ AcStep(s.data, TableOf(AcTable), x2) = x3
    BY <1>1, <1>7, <1>10, <1>11
  <2>3. AcAt(s, x3, b2 + m, 33 + 16)
    <3>1. AcStepped(s, x3, b2, m, 33, 240)
      BY <1>12, <1>14, <2>1, <2>2, AcStepReads
    <3> QED
      BY <3>1 DEF AcStepped
  <2> QED
    BY <1>6, <2>1, <2>3
<1>16. AcAt(s, x4, b4 + 1, 64)
  <2>1. 49 \in 0 .. 63 /\ 49 + 15 = 64 /\ 225 \in {0, 34, 240, 225}
    OBVIOUS
  <2>2. /\ Found(s, b3, Huffman(AcTable, 225)) /\ AcStep(s.data, TableOf(AcTable), x3) = x4
        /\ Len(Huffman(AcTable, 225)) = n
    BY <1>2, <1>7, <1>10, <1>11
  <2>3. Found(s, b3 + n, <<1>>)
    BY <1>3, <1>6, <1>7
  <2>4. AcAt(s, x4, (b3 + n) + 1, 49 + 15)
    <3>1. AcStepped(s, x4, b3, n, 49, 225)
      BY <1>15, <2>1, <2>2, AcStepReads
    <3> QED
      BY <2>3, <3>1 DEF AcStepped
  <2> QED
    BY <1>6, <2>1, <2>4
<1>17. SkipAc(s.data, TableOf(AcTable), r) = x4.r
  <2>1. 4 \in 0 .. 64 /\ Stopped(A[4])
    BY <1>11, <1>16 DEF AcAt, Stopped
  <2> QED
    BY <1>8, <1>11, <2>1, AcStops
<1> QED
  BY <1>7, <1>16, <1>17 DEF AcAt

LEMMA AcReads ==
  ASSUME NEW s, Carries(s), NEW r, NEW a, Reading(s, r, a),
         NEW detail \in {"flat", "edge", "sharp"}, Found(s, a, AcBits(detail))
  PROVE  Reading(s, SkipAc(s.data, TableOf(AcTable), r), a + Len(AcBits(detail)))
<1>1. CASE detail = "flat"
  BY <1>1, FlatReads
<1>2. CASE detail = "edge"
  BY <1>2, EdgeReads
<1>3. CASE detail = "sharp"
  BY <1>3, SharpReads
<1> QED
  BY <1>1, <1>2, <1>3

LEMMA AcBitsType ==
  ASSUME NEW detail \in {"flat", "edge", "sharp"}
  PROVE  AcBits(detail) \in Seq({0, 1})
<1>1. /\ Huffman(AcTable, 0) \in Seq({0, 1}) /\ Huffman(AcTable, 34) \in Seq({0, 1})
      /\ Huffman(AcTable, 240) \in Seq({0, 1}) /\ Huffman(AcTable, 225) \in Seq({0, 1})
  BY AcCode
<1>2. FlattenSeq([i \in 1 .. 3 |-> Huffman(AcTable, 240)]) \in Seq({0, 1})
  <2>1. PICK u \in Seq({0, 1}) : Huffman(AcTable, 240) = u
    BY <1>1
  <2>2. FlattenSeq([i \in 1 .. 3 |-> u]) = (u \o u) \o u
    BY FlattenThree
  <2>3. (u \o u) \o u \in Seq({0, 1})
    OBVIOUS
  <2> QED
    BY <2>1, <2>2, <2>3
<1> DEFINE f == FlattenSeq([i \in 1 .. 3 |-> Huffman(AcTable, 240)])
<1>3. AcBits("flat") \in Seq({0, 1})
  BY <1>1 DEF AcBits
<1>4. AcBits("edge") \in Seq({0, 1})
  BY <1>1 DEF AcBits
<1>5. AcBits("sharp") \in Seq({0, 1})
  <2>1. AcBits("sharp") = f \o Huffman(AcTable, 225) \o <<1>>
    BY DEF AcBits
  <2>2. f \in Seq({0, 1})
    BY <1>2
  <2> HIDE DEF f
  <2>3. PICK u \in Seq({0, 1}), v \in Seq({0, 1}) :
          f \o Huffman(AcTable, 225) = u /\ <<1>> = v
    BY <1>1, <2>2, BitsConcat, Ones
  <2>4. u \o v \in Seq({0, 1})
    BY BitsConcat
  <2> QED
    BY <2>1, <2>3, <2>4
<1> QED
  BY <1>3, <1>4, <1>5

LEMMA DcBitsType == ASSUME NEW diff \in Differences PROVE DcBits(diff) \in Seq({0, 1})
<1>1. PICK c \in 0 .. 11 : Category(diff) = c /\ OfCategory(diff, c)
  BY CategoryIs
<1>2. PICK v \in Nat : Amplitude(diff, c) = v
  BY <1>1, ExtendIs
<1>3. Huffman(DcTable, c) \in Seq({0, 1})
  BY DcTableIs, HuffmanType
<1>4. Bits(v, c) \in Seq({0, 1})
  <2>1. c \in 0 .. 16
    OBVIOUS
  <2> QED
    BY <2>1, BitsType
<1>5. DcBits(diff) = Huffman(DcTable, c) \o Bits(v, c)
  BY <1>1, <1>2 DEF DcBits, Amplitude
<1> QED
  BY <1>3, <1>4, <1>5

-----------------------------------------------------------------------------
(* A block *)

\* From d to n a block of component c was read up to bit e, its value being level.
BlockRead(s, d, n, c, level, e) ==
  /\ n.go /\ n.grid = d.grid /\ Reading(s, n.r, e) /\ DOMAIN n.pred = DOMAIN d.pred
  /\ \A x \in DOMAIN d.pred : n.pred[x] = IF x = c THEN level ELSE d.pred[x]

Level(d, c, diff) == d.pred[c] + diff

LEMMA BlockReads ==
  ASSUME NEW s, Carries(s), NEW p \in Parses, Scannable(p), NEW d \in Walk(p), d.go,
         NEW a, Reading(s, d.r, a), NEW k \in DOMAIN p.scan,
         p.dc[p.scan[k].dc] = TableOf(DcTable), p.ac[p.scan[k].ac] = TableOf(AcTable),
         NEW c, p.scan[k].comp = c, NEW diff \in Differences,
         NEW detail \in {"flat", "edge", "sharp"},
         NEW w \in Seq({0, 1}), DcBits(diff) \o AcBits(detail) = w, Found(s, a, w)
  PROVE  BlockRead(s, d, DecodeBlock(s.data, p, d, k), c, Level(d, c, diff), a + Len(w))
<1>1. /\ d.r \in Reader /\ d.go \in BOOLEAN /\ a \in Nat
      /\ d.pred \in [DOMAIN p.comps -> Int] /\ d.grid \in Grids(p)
      /\ c \in DOMAIN d.pred
  BY DEF Walk, Scannable, Reading
<1>2. PICK u \in Seq({0, 1}), v \in Seq({0, 1}), m \in Nat, n \in Nat :
        DcBits(diff) = u /\ AcBits(detail) = v /\ Len(u) = m /\ Len(v) = n
  <2>1. DcBits(diff) \in Seq({0, 1}) /\ AcBits(detail) \in Seq({0, 1})
    BY DcBitsType, AcBitsType
  <2> QED
    BY <2>1
<1>3. Found(s, a, u) /\ Found(s, a + m, v) /\ Len(w) = m + n
  <2>1. u \o v = w
    BY <1>2
  <2>2. Found(s, a, u \o v)
    BY <2>1
  <2>3. Found(s, a, u) /\ Found(s, a + Len(u), v) /\ Len(u \o v) = Len(u) + Len(v)
    BY <1>1, <2>2, FoundParts
  <2> QED
    BY <1>2, <2>1, <2>3
<1>4. DcRead(s, d.r, diff, a + m)
  <2>1. DcRead(s, d.r, diff, a + Len(DcBits(diff)))
    BY <1>2, <1>3, DcReads
  <2> QED
    BY <1>2, <2>1
<1>5. PICK h, g : /\ HuffDecode(s.data, d.r, TableOf(DcTable)) = h
                  /\ Get(s.data, h.r, h.sym) = g
  OBVIOUS
<1>6. h.ok /\ g.ok /\ Extend(g.val, h.sym) = diff /\ Reading(s, g.r, a + m)
  BY <1>4, <1>5 DEF DcRead
<1>7. PICK r : SkipAc(s.data, TableOf(AcTable), g.r) = r /\ Reading(s, r, (a + m) + n)
  <2>1. Found(s, a + m, AcBits(detail))
    BY <1>2, <1>3
  <2>2. Reading(s, SkipAc(s.data, TableOf(AcTable), g.r), (a + m) + Len(AcBits(detail)))
    BY <1>6, <2>1, AcReads
  <2> QED
    BY <1>2, <2>2
<1>8. DecodeBlock(s.data, p, d, k)
        = [d EXCEPT !.r = r, !.pred = [x \in DOMAIN d.pred |->
                                         d.pred[x] + (IF x = c THEN diff ELSE 0)]]
  <2>1. DecodeBlock(s.data, p, d, k) = DcSymbol(s.data, TableOf(AcTable), d, c, h)
    BY <1>5 DEF DecodeBlock
  <2>2. DcSymbol(s.data, TableOf(AcTable), d, c, h)
          = DcValue(s.data, TableOf(AcTable), d, c, h.sym, g)
    BY <1>5, <1>6 DEF DcSymbol
  <2>3. DcValue(s.data, TableOf(AcTable), d, c, h.sym, g)
          = [d EXCEPT !.r = r, !.pred = [x \in DOMAIN d.pred |->
                                           d.pred[x] + (IF x = c THEN diff ELSE 0)]]
    BY <1>6, <1>7 DEF DcValue
  <2> QED
    BY <2>1, <2>2, <2>3
<1>9. PICK pred : pred = [x \in DOMAIN d.pred |-> d.pred[x] + (IF x = c THEN diff ELSE 0)]
  OBVIOUS
<1>10. PICK e : e = DecodeBlock(s.data, p, d, k)
  OBVIOUS
<1>11. e.r = r /\ e.pred = pred /\ e.go /\ e.grid = d.grid
  BY <1>1, <1>8, <1>9, <1>10 DEF Walk
<1>12. DOMAIN e.pred = DOMAIN d.pred
  BY <1>9, <1>11
<1>13. ASSUME NEW x \in DOMAIN d.pred
       PROVE  e.pred[x] = IF x = c THEN Level(d, c, diff) ELSE d.pred[x]
  <2>1. d.pred[x] \in Int
    BY <1>1
  <2>2. CASE x = c
    BY <1>9, <1>11, <2>2 DEF Level
  <2>3. CASE x # c
    BY <1>9, <1>11, <2>1, <2>3
  <2> QED
    BY <2>2, <2>3
<1>14. (a + m) + n = a + Len(w)
  BY <1>1, <1>3
<1> HIDE DEF Level
<1>15. BlockRead(s, d, e, c, Level(d, c, diff), a + Len(w))
  BY <1>7, <1>11, <1>12, <1>13, <1>14 DEF BlockRead
<1> QED
  BY <1>10, <1>15

-----------------------------------------------------------------------------
(* What the camera codes *)

\* The encoder's predictions: of luminance and of the two of chrominance.
Planes == {0, -1, -2}

Levels == -1024 .. 1023

EncState == [bits : Seq({0, 1}), pred : [Planes -> Levels]]

PlaneOf(b) == IF b >= 0 THEN 0 ELSE b

LEMMA ConcatTwice ==
  ASSUME NEW x \in Seq({0, 1}), NEW y \in Seq({0, 1}), NEW z \in Seq({0, 1})
  PROVE  (x \o y) \o z = x \o (y \o z)
<1> DEFINE u == (x \o y) \o z
           v == x \o (y \o z)
<1>1. u \in Seq({0, 1}) /\ v \in Seq({0, 1}) /\ Len(u) = Len(v)
  OBVIOUS
<1>2. \A i \in 1 .. Len(u) : u[i] = v[i]
  OBVIOUS
<1> HIDE DEF u, v
<1>3. PICK n \in Nat : Len(u) = n /\ Len(v) = n
  BY <1>1
<1>4. u = [i \in 1 .. n |-> u[i]] /\ v = [i \in 1 .. n |-> v[i]]
  BY <1>1, <1>3
<1>5. u = v
  BY <1>2, <1>3, <1>4
<1> QED
  BY <1>5 DEF u, v

\* A block adds its bits.
Encodes(picture, detail, s, t, b, diff, w) ==
  /\ w \in Seq({0, 1}) /\ DcBits(diff) \o AcBits(detail) = w
  /\ LevelOf(picture, b) = s.pred[PlaneOf(b)] + diff
  /\ t.bits = s.bits \o w
  /\ t.pred = [x \in Planes |-> IF x = PlaneOf(b) THEN LevelOf(picture, b) ELSE s.pred[x]]

LEMMA BlockBitsIs ==
  ASSUME NEW picture, NEW detail \in {"flat", "edge", "sharp"}, NEW s \in EncState,
         NEW b, PlaneOf(b) \in Planes, LevelOf(picture, b) \in Levels
  PROVE  /\ BlockBits(picture, detail, s, b) \in EncState
         /\ \E diff \in Differences, w \in Seq({0, 1}) :
              Encodes(picture, detail, s, BlockBits(picture, detail, s, b), b, diff, w)
<1>1. PICK c \in Planes, level \in Levels : PlaneOf(b) = c /\ LevelOf(picture, b) = level
  OBVIOUS
<1>2. s.bits \in Seq({0, 1}) /\ s.pred \in [Planes -> Levels] /\ s.pred[c] \in Levels
  BY DEF EncState
<1>3. PICK diff \in Differences : level - s.pred[c] = diff /\ level = s.pred[c] + diff
  <2>1. PICK old \in Levels : s.pred[c] = old
    BY <1>2
  <2>2. level - old \in Differences /\ level = old + (level - old)
    BY DEF Levels, Differences
  <2> QED
    BY <2>1, <2>2
<1>4. PICK u \in Seq({0, 1}), v \in Seq({0, 1}) : DcBits(diff) = u /\ AcBits(detail) = v
  BY DcBitsType, AcBitsType
<1>5. PICK w \in Seq({0, 1}) : u \o v = w
  BY BitsConcat
<1>6. PICK bits \in Seq({0, 1}) : s.bits = bits
  BY <1>2
<1>7. PICK pred : pred = [x \in Planes |-> IF x = c THEN level ELSE s.pred[x]]
  OBVIOUS
<1>8. BlockBits(picture, detail, s, b) = [bits |-> bits \o w, pred |-> pred]
  <2>1. BlockBits(picture, detail, s, b)
          = [bits |-> s.bits \o DcBits(level - s.pred[c]) \o AcBits(detail),
             pred |-> [x \in DOMAIN s.pred |-> IF x = c THEN level ELSE s.pred[x]]]
    BY <1>1 DEF BlockBits, PlaneOf
  <2>2. DOMAIN s.pred = Planes
    BY <1>2
  <2>3. (bits \o u) \o v = bits \o w
    BY <1>5, ConcatTwice
  <2> QED
    BY <1>3, <1>4, <1>6, <1>7, <2>1, <2>2, <2>3
<1>9. pred \in [Planes -> Levels] /\ bits \o w \in Seq({0, 1})
  <2>1. bits \o w \in Seq({0, 1})
    BY BitsConcat
  <2> QED
    BY <1>2, <1>7, <2>1
<1>10. BlockBits(picture, detail, s, b) \in EncState
  BY <1>8, <1>9 DEF EncState
<1>11. PICK t : BlockBits(picture, detail, s, b) = t
  OBVIOUS
<1>12. t.bits = s.bits \o w /\ t.pred = pred
  BY <1>6, <1>8, <1>11
<1>13. Encodes(picture, detail, s, t, b, diff, w)
  BY <1>1, <1>3, <1>4, <1>5, <1>7, <1>12 DEF Encodes
<1> QED
  BY <1>10, <1>11, <1>13

\* What the blocks are coded to, as a run.
EncStart == [bits |-> <<>>, pred |-> [c \in {0, -1, -2} |-> 0]]

Encoded(picture, detail, blocks) ==
  Each(LAMBDA s, b : BlockBits(picture, detail, s, b), EncStart, blocks)

CanCode(picture, B) == \A b \in B : PlaneOf(b) \in Planes /\ LevelOf(picture, b) \in Levels

EncRun(E, picture, detail, blocks) ==
  /\ E[0] = EncStart
  /\ \A j \in 0 .. Len(blocks) : E[j] \in EncState
  /\ \A j \in 1 .. Len(blocks) : E[j] = BlockBits(picture, detail, E[j - 1], blocks[j])
  /\ Encoded(picture, detail, blocks) = E[Len(blocks)]

LEMMA EncoderRuns ==
  ASSUME NEW picture, NEW detail \in {"flat", "edge", "sharp"}, NEW B, CanCode(picture, B),
         NEW blocks \in Seq(B)
  PROVE  \E E : EncRun(E, picture, detail, blocks)
<1> DEFINE n == Len(blocks)
           T == EncState
           Def(a) == [k \in 0 .. n |-> IF k = 0 THEN EncStart
                                       ELSE BlockBits(picture, detail, a[k - 1], blocks[k])]
           F == [x \in T \X (1 .. n) |-> BlockBits(picture, detail, x[1], blocks[x[2]])]
           A == CHOOSE a : a = Def(a)
<1>1. n \in Nat /\ \A k \in 1 .. n : blocks[k] \in B
  BY ElementOf
<1>2. EncStart \in T
  <2>1. 0 \in Levels /\ Planes = {0, -1, -2}
    BY DEF Levels, Planes
  <2> QED
    BY <2>1 DEF EncState, EncStart
<1>3. \A x \in T, k \in 1 .. n : BlockBits(picture, detail, x, blocks[k]) \in T
  <2> TAKE x \in T, k \in 1 .. n
  <2>1. PlaneOf(blocks[k]) \in Planes /\ LevelOf(picture, blocks[k]) \in Levels
    BY <1>1 DEF CanCode
  <2> QED
    BY <2>1, BlockBitsIs
<1> HIDE DEF T
<1>4. \E a \in [0 .. n -> T] : a = Def(a)
  <2>1. F \in [T \X (1 .. n) -> T]
    BY <1>3
  <2>2. PICK a : IsRun(a, T, EncStart, n, F)
    BY <1>1, <1>2, <2>1, LoopRuns
  <2>3. ASSUME NEW k \in 1 .. n PROVE a[k] = BlockBits(picture, detail, a[k - 1], blocks[k])
    <3>1. k - 1 \in 0 .. n
      BY <1>1
    <3>2. <<a[k - 1], k>> \in T \X (1 .. n)
      BY <2>2, <3>1 DEF IsRun
    <3> QED
      BY <2>2, <3>2 DEF IsRun
  <2> QED
    BY <1>1, <2>2, <2>3 DEF IsRun
<1>5. A = Def(A)
  BY <1>4
<1>6. Encoded(picture, detail, blocks) = A[n]
  BY DEF Encoded, Each
<1> HIDE DEF A
<1>7. A[0] = EncStart /\ \A k \in 1 .. n : A[k] = BlockBits(picture, detail, A[k - 1], blocks[k])
  BY <1>1, <1>5
<1>8. \A k \in 0 .. n : A[k] \in T
  BY <1>1, <1>2, <1>3, <1>7, LoopStays
<1>9. EncRun(A, picture, detail, blocks)
  BY <1>6, <1>7, <1>8 DEF EncRun, T
<1> QED
  BY <1>9

\* The bits of an earlier block stay where they are.
Begins(x, y) == Len(x) <= Len(y) /\ \A i \in 1 .. Len(x) : y[i] = x[i]

LEMMA BeginsLonger ==
  ASSUME NEW x \in Seq({0, 1}), NEW y \in Seq({0, 1}), NEW z \in Seq({0, 1}), Begins(x, y)
  PROVE  Begins(x, y \o z)
<1>1. /\ Len(y \o z) = Len(y) + Len(z)
      /\ \A i \in 1 .. Len(y) : (y \o z)[i] = y[i]
  BY ConcatIs
<1>2. Len(x) \in Nat /\ Len(y) \in Nat /\ Len(z) \in Nat /\ Len(x) <= Len(y)
  BY DEF Begins
<1>3. \A i \in 1 .. Len(x) : i \in 1 .. Len(y) /\ y[i] = x[i]
  BY <1>2 DEF Begins
<1>4. Len(x) <= Len(y) + Len(z)
  BY <1>2
<1> QED
  BY <1>1, <1>3, <1>4 DEF Begins

LEMMA EncodedBegins ==
  ASSUME NEW picture, NEW detail \in {"flat", "edge", "sharp"}, NEW B, CanCode(picture, B),
         NEW blocks \in Seq(B), NEW E, EncRun(E, picture, detail, blocks),
         NEW j \in 0 .. Len(blocks)
  PROVE  Begins(E[j].bits, E[Len(blocks)].bits)
<1> DEFINE n == Len(blocks)
           S == {k \in Nat : j + k <= n => Begins(E[j].bits, E[j + k].bits)}
<1>1. n \in Nat /\ j \in Nat /\ \A k \in 0 .. n : E[k].bits \in Seq({0, 1}) /\ E[k] \in EncState
  BY DEF EncRun, EncState
<1>2. 0 \in S
  <2>1. j + 0 = j
    BY <1>1
  <2>2. Begins(E[j].bits, E[j].bits)
    BY <1>1 DEF Begins
  <2> QED
    BY <2>1, <2>2
<1>3. ASSUME NEW k \in Nat, k \in S PROVE k + 1 \in S
  <2> SUFFICES ASSUME j + (k + 1) <= n PROVE Begins(E[j].bits, E[j + (k + 1)].bits)
    OBVIOUS
  <2>1. PICK m \in 0 .. n - 1 : j + k = m /\ j + (k + 1) = m + 1
    BY <1>1
  <2>2. Begins(E[j].bits, E[m].bits) /\ E[m] \in EncState /\ E[m].bits \in Seq({0, 1})
    <3>1. m \in 0 .. n /\ m <= n
      BY <1>1
    <3>2. j + k <= n
      BY <2>1, <3>1
    <3>3. Begins(E[j].bits, E[j + k].bits)
      BY <1>3, <3>2
    <3> QED
      BY <1>1, <2>1, <3>1, <3>3
  <2>3. m + 1 \in 1 .. n /\ (m + 1) - 1 = m
    BY <1>1
  <2>4. E[m + 1] = BlockBits(picture, detail, E[m], blocks[m + 1])
    BY <2>3 DEF EncRun
  <2>5. PlaneOf(blocks[m + 1]) \in Planes /\ LevelOf(picture, blocks[m + 1]) \in Levels
    BY <2>3, ElementOf DEF CanCode
  <2>6. PICK diff, w : Encodes(picture, detail, E[m], E[m + 1], blocks[m + 1], diff, w)
    <3>1. \E diff \in Differences, w \in Seq({0, 1}) :
            Encodes(picture, detail, E[m], BlockBits(picture, detail, E[m], blocks[m + 1]),
                    blocks[m + 1], diff, w)
      BY <2>2, <2>5, BlockBitsIs
    <3> QED
      BY <2>4, <3>1
  <2>7. E[m + 1].bits = E[m].bits \o w /\ w \in Seq({0, 1})
    BY <2>6 DEF Encodes
  <2>8. Begins(E[j].bits, E[m].bits \o w)
    BY <1>1, <2>2, <2>7, BeginsLonger
  <2> QED
    BY <2>1, <2>7, <2>8
<1> HIDE DEF S
<1>4. n - j \in S /\ j + (n - j) = n /\ j + (n - j) <= n
  <2>1. n - j \in Nat /\ j + (n - j) = n /\ j + (n - j) <= n
    BY <1>1
  <2>2. \A k \in Nat : k \in S
    BY <1>2, <1>3, Induction
  <2> QED
    BY <2>1, <2>2
<1> QED
  BY <1>4 DEF S

-----------------------------------------------------------------------------
(* Stuffing *)

\* The padding fills the last byte.
LEMMA PaddedIs ==
  ASSUME NEW bits \in Seq({0, 1})
  PROVE  /\ Padded(bits) \in Seq({0, 1}) /\ Begins(bits, Padded(bits))
         /\ \E n \in Nat : Len(Padded(bits)) = 8 * n /\ 8 * n < Len(bits) + 8
<1> DEFINE m == (-Len(bits)) % 8
           ones == [k \in 1 .. m |-> 1]
<1>1. PICK l \in Nat : Len(bits) = l
  OBVIOUS
<1>2. m \in 0 .. 7 /\ \E n \in Nat : l + m = 8 * n
  <2>1. PICK x \in Int : -l = x
    OBVIOUS
  <2>2. m = x % 8
    BY <1>1, <2>1
  <2>3. PICK q \in Int, t \in 0 .. 7 : x \div 8 = q /\ x % 8 = t /\ x = 8 * q + t
    OBVIOUS
  <2>4. -q \in Nat /\ l + t = 8 * (-q)
    BY <2>1, <2>3
  <2> HIDE DEF m
  <2> QED
    BY <2>2, <2>3, <2>4
<1>3. ones \in Seq({0, 1}) /\ Len(ones) = m
  <2>1. m \in Nat
    BY <1>2
  <2> HIDE DEF m
  <2> QED
    BY <2>1
<1>4. Padded(bits) = bits \o ones
  BY DEF Padded
<1> HIDE DEF m, ones
<1>5. bits \o ones \in Seq({0, 1}) /\ Len(bits \o ones) = l + m
  BY <1>1, <1>3, ConcatIs
<1>6. Begins(bits, bits \o ones)
  <2>1. Begins(bits, bits)
    BY <1>1 DEF Begins
  <2> QED
    BY <1>3, <2>1, BeginsLonger
<1>7. PICK n \in Nat : l + m = 8 * n
  BY <1>2
<1>8. 8 * n < l + 8
  BY <1>2, <1>7
<1> QED
  BY <1>1, <1>4, <1>5, <1>6, <1>7, <1>8

\* The k-th byte has the k-th eight bits.
ByteOf(byte, bits, k) ==
  byte \in 0 .. 255 /\ \A i \in 1 .. 8 : BitsOf(byte)[i] = bits[8 * (k - 1) + i]

LEMMA BytesAre ==
  ASSUME NEW bits \in Seq({0, 1}), NEW n \in Nat, Len(bits) = 8 * n
  PROVE  /\ DOMAIN Bytes(bits) = 1 .. n /\ Bytes(bits) \in Seq(0 .. 255)
         /\ \A k \in 1 .. n : ByteOf(Bytes(bits)[k], bits, k)
<1>1. Len(bits) \div 8 = n
  OBVIOUS
<1>2. Bytes(bits) = [k \in 1 .. n |-> Value(SubSeq(bits, 8 * k - 7, 8 * k))]
  BY <1>1 DEF Bytes, Value, Each
<1>3. ASSUME NEW k \in 1 .. n
      PROVE  ByteOf(Value(SubSeq(bits, 8 * k - 7, 8 * k)), bits, k)
  <2>1. PICK a \in Nat, b \in Nat : 8 * (k - 1) = a /\ 8 * k = b
    OBVIOUS
  <2>2. 8 * k - 7 = a + 1 /\ b = a + 8 /\ b <= Len(bits)
    BY <2>1
  <2>3. PICK w : SubSeq(bits, a + 1, b) = w
    OBVIOUS
  <2>4. w \in Seq({0, 1}) /\ Len(w) = 8 /\ \A i \in 1 .. 8 : w[i] = bits[a + i]
    <3>1. w = [i \in 1 .. 8 |-> bits[a + i]]
      <4>1. w = [i \in 1 .. (b - (a + 1) + 1) |-> bits[(a + 1) + i - 1]]
        BY <2>3
      <4>2. b - (a + 1) + 1 = 8
        BY <2>2
      <4>3. \A i \in 1 .. 8 : (a + 1) + i - 1 = a + i
        OBVIOUS
      <4> QED
        BY <4>1, <4>2, <4>3
    <3>2. \A i \in 1 .. 8 : bits[a + i] \in {0, 1}
      <4> TAKE i \in 1 .. 8
      <4>1. a + i \in 1 .. Len(bits)
        BY <2>2
      <4> QED
        BY <4>1, ElementOf
    <3>3. w \in [1 .. 8 -> {0, 1}]
      BY <3>1, <3>2
    <3> QED
      BY <3>1, <3>3
  <2>5. Value(w) \in 0 .. 255 /\ \A i \in 1 .. 8 : BitsOf(Value(w))[i] = w[i]
    BY <2>4, BitsOfByte
  <2>6. ByteOf(Value(w), bits, k)
    BY <2>1, <2>4, <2>5 DEF ByteOf
  <2> QED
    BY <2>1, <2>2, <2>3, <2>6
<1>4. PICK v : v = Bytes(bits)
  OBVIOUS
<1>5. v \in [1 .. n -> 0 .. 255] /\ \A k \in 1 .. n : ByteOf(v[k], bits, k)
  <2>1. \A k \in 1 .. n : Value(SubSeq(bits, 8 * k - 7, 8 * k)) \in 0 .. 255
    BY <1>3 DEF ByteOf
  <2>2. \A k \in 1 .. n : v[k] = Value(SubSeq(bits, 8 * k - 7, 8 * k))
    BY <1>2, <1>4
  <2> QED
    BY <1>2, <1>3, <1>4, <2>1, <2>2
<1> QED
  BY <1>4, <1>5

\* Stuffing puts a zero behind each byte that could be taken for a marker.
StuffedByte(ib, off, bits, k) ==
  LET at == off[k - 1] + 1
  IN  /\ ByteOf(ib[at], bits, k)
      /\ \/ ib[at] # 255 /\ off[k] = off[k - 1] + 1
         \/ ib[at] = 255 /\ off[k] = off[k - 1] + 2 /\ ib[at + 1] = 0
      /\ off[k] <= Len(ib)

LEMMA StuffedIs ==
  ASSUME NEW bits \in Seq({0, 1}), NEW n \in Nat, Len(bits) = 8 * n
  PROVE  /\ Stuffed(Bytes(bits)) \in Seq(0 .. 255)
         /\ \E off \in [0 .. n -> Nat] :
              /\ off[0] = 0 /\ off[n] = Len(Stuffed(Bytes(bits)))
              /\ \A k \in 1 .. n : StuffedByte(Stuffed(Bytes(bits)), off, bits, k)
<1>1. PICK bytes \in Seq(0 .. 255) :
        /\ Bytes(bits) = bytes /\ DOMAIN bytes = 1 .. n
        /\ \A k \in 1 .. n : ByteOf(bytes[k], bits, k)
  BY BytesAre
<1> DEFINE seqs == [k \in DOMAIN bytes |-> IF bytes[k] = 255 THEN <<255, 0>> ELSE <<bytes[k]>>]
<1>2. /\ seqs \in Seq(Seq(0 .. 255)) /\ Len(seqs) = n
      /\ \A k \in 1 .. n : seqs[k] = IF bytes[k] = 255 THEN <<255, 0>> ELSE <<bytes[k]>>
  <2>1. \A k \in 1 .. n : bytes[k] \in 0 .. 255
    BY <1>1, ElementOf
  <2>2. seqs \in [1 .. n -> Seq(0 .. 255)]
    <3>1. \A k \in 1 .. n : <<bytes[k]>> \in Seq(0 .. 255)
      BY <2>1
    <3>2. <<255, 0>> \in Seq(0 .. 255)
      OBVIOUS
    <3> QED
      BY <1>1, <3>1, <3>2
  <2> QED
    BY <1>1, <2>2
<1>3. Stuffed(Bytes(bits)) = FlattenSeq(seqs)
  BY <1>1 DEF Stuffed
<1> HIDE DEF seqs
<1>4. PICK ib \in Seq(0 .. 255) : FlattenSeq(seqs) = ib
  BY <1>2, FlattenIs
<1>5. PICK off : /\ Offsets(off, seqs) /\ Len(ib) = off[Len(seqs)]
                 /\ \A k \in 1 .. Len(seqs) : \A i \in 1 .. Len(seqs[k]) :
                      off[k - 1] + i \in 1 .. off[Len(seqs)] /\ ib[off[k - 1] + i] = seqs[k][i]
  <2>1. \E off : /\ Offsets(off, seqs) /\ Len(FlattenSeq(seqs)) = off[Len(seqs)]
                 /\ \A k \in 1 .. Len(seqs) : \A i \in 1 .. Len(seqs[k]) :
                      /\ off[k - 1] + i \in 1 .. off[Len(seqs)]
                      /\ FlattenSeq(seqs)[off[k - 1] + i] = seqs[k][i]
    <3>1. PICK S : S = 0 .. 255
      OBVIOUS
    <3>2. seqs \in Seq(Seq(S))
      BY <1>2, <3>1
    <3> QED
      BY <3>2, FlattenIs
  <2> QED
    BY <1>4, <2>1
<1>6. /\ off \in [0 .. n -> Nat] /\ off[0] = 0 /\ off[n] = Len(ib)
      /\ \A k \in 1 .. n : off[k] = off[k - 1] + Len(seqs[k])
  BY <1>2, <1>5 DEF Offsets
<1>7. ASSUME NEW k \in 1 .. n PROVE StuffedByte(ib, off, bits, k)
  <2>1. k - 1 \in 0 .. n /\ k \in 0 .. n
    OBVIOUS
  <2>2. PICK o \in Nat, e \in Nat, z \in Nat : off[k - 1] = o /\ off[k] = e /\ off[n] = z
    BY <1>6, <2>1
  <2>3. PICK sq : seqs[k] = sq
    OBVIOUS
  <2>4. e = o + Len(sq) /\ \A i \in 1 .. Len(sq) : o + i \in 1 .. z /\ ib[o + i] = sq[i]
    <3>1. off[k] = off[k - 1] + Len(seqs[k])
      BY <1>6
    <3>2. \A i \in 1 .. Len(seqs[k]) :
            off[k - 1] + i \in 1 .. off[n] /\ ib[off[k - 1] + i] = seqs[k][i]
      BY <1>2, <1>5
    <3> QED
      BY <2>2, <2>3, <3>1, <3>2
  <2>5. CASE bytes[k] = 255
    <3>1. sq = <<255, 0>>
      BY <1>2, <2>3, <2>5
    <3>2. Len(sq) = 2 /\ sq[1] = 255 /\ sq[2] = 0
      BY <3>1
    <3>3. 1 \in 1 .. Len(sq) /\ 2 \in 1 .. Len(sq)
      BY <3>2
    <3>4. o + 1 \in 1 .. z /\ o + 2 \in 1 .. z /\ ib[o + 1] = 255 /\ ib[o + 2] = 0 /\ e = o + 2
      BY <2>4, <3>2, <3>3
    <3>5. (o + 1) + 1 = o + 2 /\ e <= z
      BY <3>4
    <3>6. ByteOf(ib[o + 1], bits, k)
      BY <1>1, <2>5, <3>4
    <3> QED
      BY <1>6, <2>2, <3>4, <3>5, <3>6 DEF StuffedByte
  <2>6. CASE bytes[k] # 255
    <3>1. sq = <<bytes[k]>>
      BY <1>2, <2>3, <2>6
    <3>2. Len(sq) = 1 /\ sq[1] = bytes[k]
      BY <3>1
    <3>3. 1 \in 1 .. Len(sq)
      BY <3>2
    <3>4. o + 1 \in 1 .. z /\ ib[o + 1] = bytes[k] /\ e = o + 1
      BY <2>4, <3>2, <3>3
    <3>5. e <= z
      BY <3>4
    <3>6. ByteOf(ib[o + 1], bits, k)
      BY <1>1, <3>4
    <3> QED
      BY <1>6, <2>2, <2>6, <3>4, <3>5, <3>6 DEF StuffedByte
  <2> QED
    BY <2>5, <2>6
<1> QED
  BY <1>3, <1>4, <1>6, <1>7

-----------------------------------------------------------------------------
(* The camera's header *)

\* The header the camera writes, segment by segment.
CompsOf(cam) ==
  <<[h |-> cam.h, v |-> cam.v, qt |-> 0]>>
    \o (IF cam.colour THEN <<[h |-> 1, v |-> 1, qt |-> 1], [h |-> 1, v |-> 1, qt |-> 1]>> ELSE <<>>)

ScanOf(cam) == [k \in DOMAIN CompsOf(cam) |-> [comp |-> k, dc |-> 0, ac |-> 0]]

Quantiser(id, q) == [kind |-> "dqt", id |-> id, q |-> q]

FrameOf(cam) ==
  [kind |-> "sof0", precision |-> 8, width |-> cam.cols * cam.h * 8,
   height |-> cam.rows * cam.v * 8, comps |-> CompsOf(cam)]

Coding(class, t) ==
  [kind |-> "dht", class |-> class, id |-> 0, counts |-> t.counts, symbols |-> t.symbols]

LEMMA HeaderIs ==
  ASSUME NEW cam
  PROVE  Header(cam) = <<Quantiser(0, cam.q), Quantiser(1, 17), FrameOf(cam),
                         Coding("dc", DcTable), Coding("ac", AcTable),
                         [kind |-> "dri", interval |-> cam.restart],
                         [kind |-> "sos", scan |-> ScanOf(cam)]>>
BY DEF Header, Quantiser, FrameOf, Coding, ScanOf, CompsOf

LEMMA ColourComps ==
  ASSUME NEW cam, cam.colour
  PROVE  /\ DOMAIN CompsOf(cam) = 1 .. 3 /\ Len(CompsOf(cam)) = 3
         /\ DOMAIN ScanOf(cam) = 1 .. 3 /\ Len(ScanOf(cam)) = 3
         /\ CompsOf(cam)[1] = [h |-> cam.h, v |-> cam.v, qt |-> 0]
         /\ CompsOf(cam)[2] = [h |-> 1, v |-> 1, qt |-> 1]
         /\ CompsOf(cam)[3] = [h |-> 1, v |-> 1, qt |-> 1]
         /\ \A k \in 1 .. 3 : ScanOf(cam)[k] = [comp |-> k, dc |-> 0, ac |-> 0]
BY DEF CompsOf, ScanOf

LEMMA GreyComps ==
  ASSUME NEW cam, ~cam.colour
  PROVE  /\ DOMAIN CompsOf(cam) = 1 .. 1 /\ Len(CompsOf(cam)) = 1
         /\ DOMAIN ScanOf(cam) = 1 .. 1 /\ Len(ScanOf(cam)) = 1
         /\ CompsOf(cam)[1] = [h |-> cam.h, v |-> cam.v, qt |-> 0]
         /\ \A k \in 1 .. 1 : ScanOf(cam)[k] = [comp |-> k, dc |-> 0, ac |-> 0]
BY DEF CompsOf, ScanOf

\* What the segments change.
WithQt(p, id, q)    == [p EXCEPT !.qt[id] = q]

WithDc(p, t)        == [p EXCEPT !.dc[0] = TableOf(t)]

WithAc(p, t)        == [p EXCEPT !.ac[0] = TableOf(t)]

WithRestart(p, m)   == [p EXCEPT !.restart = m]

WithScan(p, scan)   == [p EXCEPT !.sos = TRUE, !.scan = scan]

WithFrame(p, cam)   ==
  [p EXCEPT !.sof = TRUE, !.comps = CompsOf(cam), !.cols = cam.cols, !.rows = cam.rows]

Going(p) == p \in Parses /\ ~p.failed /\ ~p.sos

LEMMA ParsesQuantiser ==
  ASSUME NEW p, Going(p), NEW id \in 0 .. 3, NEW q
  PROVE  ParseSegment(p, Quantiser(id, q)) = WithQt(p, id, q)
BY DEF WithQt, Going, ParseSegment, Damaged, Quantiser

LEMMA ParsesCoding ==
  ASSUME NEW p, Going(p), NEW t, NEW n \in 0 .. 256, Len(t.symbols) = n
  PROVE  /\ ParseSegment(p, Coding("dc", t)) = WithDc(p, t)
         /\ ParseSegment(p, Coding("ac", t)) = WithAc(p, t)
<1>1. ASSUME NEW class \in {"dc", "ac"}, NEW seg, Coding(class, t) = seg
      PROVE  /\ ~Damaged(seg, p) /\ seg.kind = "dht" /\ seg.class = class /\ seg.id = 0
             /\ TableOf(t) = BuildHuff(seg.counts, seg.symbols)
  <2>1. /\ seg.kind = "dht" /\ seg.class = class /\ seg.id = 0
        /\ seg.counts = t.counts /\ seg.symbols = t.symbols
    BY <1>1 DEF Coding
  <2>2. ~(seg.id > 1)
    BY <2>1
  <2>3. ~(Len(seg.symbols) > 256)
    BY <2>1
  <2>4. /\ seg.kind # "sof0" /\ seg.kind # "dqt" /\ seg.kind # "sos" /\ seg.kind # "eoi"
    BY <2>1
  <2>5. ~Damaged(seg, p)
    BY <2>2, <2>3, <2>4, Zenon DEF Damaged
  <2> QED
    BY <2>1, <2>5 DEF TableOf
<1>2. ASSUME NEW seg, Coding("dc", t) = seg
      PROVE  ParseSegment(p, seg) = [p EXCEPT !.dc[0] = TableOf(t)]
  <2>1. /\ ~Damaged(seg, p) /\ seg.kind = "dht" /\ seg.class = "dc" /\ seg.id = 0
        /\ TableOf(t) = BuildHuff(seg.counts, seg.symbols)
    BY <1>1, <1>2
  <2> QED
    BY <2>1 DEF ParseSegment, Going
<1>3. ASSUME NEW seg, Coding("ac", t) = seg
      PROVE  ParseSegment(p, seg) = [p EXCEPT !.ac[0] = TableOf(t)]
  <2>1. /\ ~Damaged(seg, p) /\ seg.kind = "dht" /\ seg.class = "ac" /\ seg.id = 0
        /\ TableOf(t) = BuildHuff(seg.counts, seg.symbols)
    BY <1>1, <1>3
  <2> QED
    BY <2>1 DEF ParseSegment, Going
<1> QED
  BY <1>2, <1>3 DEF WithDc, WithAc

LEMMA ParsesRest ==
  ASSUME NEW p, Going(p)
  PROVE  /\ \A m : ParseSegment(p, [kind |-> "dri", interval |-> m]) = WithRestart(p, m)
         /\ \A scan : Len(scan) \in 0 .. 3 =>
              ParseSegment(p, [kind |-> "sos", scan |-> scan]) = WithScan(p, scan)
<1>1. ASSUME NEW m
      PROVE  ParseSegment(p, [kind |-> "dri", interval |-> m]) = [p EXCEPT !.restart = m]
  BY DEF Going, ParseSegment, Damaged
<1>2. ASSUME NEW scan, Len(scan) \in 0 .. 3
      PROVE  ParseSegment(p, [kind |-> "sos", scan |-> scan])
               = [p EXCEPT !.sos = TRUE, !.scan = scan]
  <2>1. PICK seg : seg = [kind |-> "sos", scan |-> scan]
    OBVIOUS
  <2>2. seg.kind = "sos" /\ seg.scan = scan
    BY <2>1
  <2>3. ~(Len(seg.scan) > 3)
    <3>1. PICK n \in 0 .. 3 : Len(scan) = n
      BY <1>2
    <3>2. Len(seg.scan) = n /\ ~(n > 3)
      BY <2>2, <3>1
    <3> QED
      BY <3>2, Zenon
  <2>4. seg.kind # "sof0" /\ seg.kind # "dqt" /\ seg.kind # "dht" /\ seg.kind # "eoi"
    BY <2>2
  <2>5. ~Damaged(seg, p)
    BY <2>3, <2>4, Zenon DEF Damaged
  <2>6. ParseSegment(p, seg) = [p EXCEPT !.sos = TRUE, !.scan = scan]
    BY <2>2, <2>5 DEF ParseSegment, Going
  <2> QED
    BY <2>1, <2>6
<1> QED
  BY <1>1, <1>2 DEF WithRestart, WithScan

\* As many MCUs as there are.
LEMMA McusOf ==
  ASSUME NEW n \in Nat \ {0}, NEW h \in 1 .. 2
  PROVE  CeilDiv(n * h * 8, 8 * h) = n
<1>1. CASE h = 1
  BY <1>1 DEF CeilDiv
<1>2. CASE h = 2
  BY <1>2 DEF CeilDiv
<1> QED
  BY <1>1, <1>2

LEMMA LargestIs ==
  ASSUME NEW S, NEW h \in 1 .. 2, h \in S, S \subseteq {1, h}
  PROVE  MaxOf({1} \cup S) = h
<1>1. h \in {1} \cup S /\ \A y \in {1} \cup S : h >= y
  OBVIOUS
<1>2. \A x \in {1} \cup S : (\A y \in {1} \cup S : x >= y) => x = h
  BY <1>1
<1> QED
  BY <1>1, <1>2 DEF MaxOf

LEMMA ParsesFrame ==
  ASSUME NEW p, Going(p), NEW cam \in CameraFormat
  PROVE  ParseSegment(p, FrameOf(cam)) = WithFrame(p, cam)
<1>1. /\ cam.cols \in Nat \ {0} /\ cam.rows \in Nat \ {0} /\ cam.h \in 1 .. 2 /\ cam.v \in 1 .. 2
      /\ cam.colour \in BOOLEAN
  BY DEF CameraFormat
<1> DEFINE comps == CompsOf(cam)
           hs == {c.h : c \in ToSet(comps)}
           vs == {c.v : c \in ToSet(comps)}
<1>2. /\ Len(comps) \in 0 .. 3 /\ cam.h \in hs /\ hs \subseteq {1, cam.h}
      /\ cam.v \in vs /\ vs \subseteq {1, cam.v}
  <2>1. ToSet(comps) = {comps[i] : i \in DOMAIN comps}
    BY DEF ToSet
  <2>2. CASE cam.colour
    <3>1. DOMAIN comps = 1 .. 3 /\ Len(comps) = 3
      BY <2>2, ColourComps
    <3>2. /\ comps[1] = [h |-> cam.h, v |-> cam.v, qt |-> 0]
          /\ comps[2] = [h |-> 1, v |-> 1, qt |-> 1] /\ comps[3] = [h |-> 1, v |-> 1, qt |-> 1]
      BY <2>2, ColourComps
    <3> HIDE DEF comps
    <3> QED
      BY <2>1, <3>1, <3>2
  <2>3. CASE ~cam.colour
    <3>1. DOMAIN comps = 1 .. 1 /\ Len(comps) = 1
          /\ comps[1] = [h |-> cam.h, v |-> cam.v, qt |-> 0]
      BY <2>3, GreyComps
    <3> HIDE DEF comps
    <3> QED
      BY <2>1, <3>1
  <2> QED
    BY <1>1, <2>2, <2>3
<1> HIDE DEF hs, vs, comps
<1>3. MaxOf({1} \cup hs) = cam.h /\ MaxOf({1} \cup vs) = cam.v
  BY <1>1, <1>2, LargestIs
<1>4. /\ CeilDiv(cam.cols * cam.h * 8, 8 * cam.h) = cam.cols
      /\ CeilDiv(cam.rows * cam.v * 8, 8 * cam.v) = cam.rows
  BY <1>1, McusOf
<1>5. PICK seg : seg = FrameOf(cam)
  OBVIOUS
<1>6. /\ seg.kind = "sof0" /\ seg.precision = 8 /\ seg.width = cam.cols * cam.h * 8
      /\ seg.height = cam.rows * cam.v * 8 /\ seg.comps = comps
  BY <1>5 DEF FrameOf, comps
<1>7. ~Damaged(seg, p)
  <2>1. ~(Len(seg.comps) > 3)
    <3>1. PICK n \in 0 .. 3 : Len(comps) = n
      BY <1>2
    <3>2. Len(seg.comps) = n /\ ~(n > 3)
      BY <1>6, <3>1
    <3> QED
      BY <3>2, Zenon
  <2>2. seg.kind # "sos" /\ seg.kind # "dqt" /\ seg.kind # "dht" /\ seg.kind # "eoi"
    BY <1>6
  <2> QED
    BY <1>6, <2>1, <2>2, Zenon DEF Damaged
<1>8. ParseSegment(p, seg) =
        [p EXCEPT !.sof = TRUE, !.comps = seg.comps,
                  !.cols = CeilDiv(seg.width, 8 * MaxOf({1} \cup hs)),
                  !.rows = CeilDiv(seg.height, 8 * MaxOf({1} \cup vs))]
  BY <1>6, <1>7 DEF ParseSegment, Going, hs, vs
<1> QED
  BY <1>3, <1>4, <1>5, <1>6, <1>8 DEF comps, WithFrame

\* What the header of a camera is to the parser.
Fitting(p, cam) ==
  /\ p \in Parses /\ Scannable(p) /\ ~Unusable(p)
  /\ p.cols = cam.cols /\ p.rows = cam.rows /\ p.restart = cam.restart /\ p.qt[0] = cam.q
  /\ p.comps = CompsOf(cam) /\ p.scan = ScanOf(cam)
  /\ p.dc[0] = TableOf(DcTable) /\ p.ac[0] = TableOf(AcTable)

SameFrame(p, cam) ==
  p.sof /\ p.comps = CompsOf(cam) /\ p.cols = cam.cols /\ p.rows = cam.rows

LEMMA DcTableOfIs == TableOf(DcTable) # NoTable
<1>1. TableOf(DcTable).symbols = DcTable.symbols
  BY DEF TableOf, BuildHuff
<1>2. Len(DcTable.symbols) = 12
  BY DEF DcTable
<1>3. NoTable.symbols = <<0>> /\ Len(<<0>>) = 1
  BY DEF NoTable
<1> QED
  BY <1>1, <1>2, <1>3

\* The header of a camera is read as it is meant: its tables, sampling, components and
\* restart interval, for any of them (jpeg_dc.c:216, 245, 322).
THEOREM HeaderParses ==
  ASSUME NEW cam \in CameraFormat, Header(cam) \in Seq(Segment)
  PROVE  Fitting(Parse(Header(cam)), cam)
<1>1. PICK segs \in Seq(Segment) : Header(cam) = segs
  OBVIOUS
<1>2. /\ Len(segs) = 7
      /\ segs[1] = Quantiser(0, cam.q) /\ segs[2] = Quantiser(1, 17) /\ segs[3] = FrameOf(cam)
      /\ segs[4] = Coding("dc", DcTable) /\ segs[5] = Coding("ac", AcTable)
      /\ segs[6] = [kind |-> "dri", interval |-> cam.restart]
      /\ segs[7] = [kind |-> "sos", scan |-> ScanOf(cam)]
  BY <1>1, HeaderIs
<1>3. PICK A : /\ A[0] = ParseStart /\ Parse(segs) = A[7]
               /\ \A k \in 0 .. 7 : A[k] \in Parses
               /\ \A k \in 1 .. 7 : A[k] = ParseSegment(A[k - 1], segs[k])
  <2>1. \E A : /\ A[0] = ParseStart /\ Parse(segs) = A[Len(segs)]
               /\ \A k \in 0 .. Len(segs) : A[k] \in Parses
               /\ \A k \in 1 .. Len(segs) : A[k] = ParseSegment(A[k - 1], segs[k])
    BY ParseRuns
  <2> QED
    BY <1>2, <2>1
<1>4. PICK p0 \in Parses, p1 \in Parses, p2 \in Parses, p3 \in Parses,
           p4 \in Parses, p5 \in Parses, p6 \in Parses, p7 \in Parses :
        /\ A[0] = p0 /\ A[1] = p1 /\ A[2] = p2 /\ A[3] = p3
        /\ A[4] = p4 /\ A[5] = p5 /\ A[6] = p6 /\ A[7] = p7
  <2>1. /\ A[0] \in Parses /\ A[1] \in Parses /\ A[2] \in Parses /\ A[3] \in Parses
        /\ A[4] \in Parses /\ A[5] \in Parses /\ A[6] \in Parses /\ A[7] \in Parses
    BY <1>3
  <2> QED
    BY <2>1
<1>5. /\ p1 = ParseSegment(p0, segs[1]) /\ p2 = ParseSegment(p1, segs[2])
      /\ p3 = ParseSegment(p2, segs[3]) /\ p4 = ParseSegment(p3, segs[4])
      /\ p5 = ParseSegment(p4, segs[5]) /\ p6 = ParseSegment(p5, segs[6])
      /\ p7 = ParseSegment(p6, segs[7])
  <2>1. /\ 1 - 1 = 0 /\ 2 - 1 = 1 /\ 3 - 1 = 2 /\ 4 - 1 = 3 /\ 5 - 1 = 4 /\ 6 - 1 = 5
        /\ 7 - 1 = 6
        /\ 1 \in 1 .. 7 /\ 2 \in 1 .. 7 /\ 3 \in 1 .. 7 /\ 4 \in 1 .. 7 /\ 5 \in 1 .. 7
        /\ 6 \in 1 .. 7 /\ 7 \in 1 .. 7
    OBVIOUS
  <2> QED
    BY <1>3, <1>4, <2>1
<1>6. Going(p0)
  BY <1>3, <1>4 DEF Going, ParseStart
<1>7. 0 \in 0 .. 3 /\ 1 \in 0 .. 3
  OBVIOUS
<1>8. Going(p1) /\ p1.qt[0] = cam.q
  <2>1. p1 = WithQt(p0, 0, cam.q)
    BY <1>2, <1>5, <1>6, <1>7, ParsesQuantiser
  <2> QED
    BY <1>6, <2>1 DEF WithQt, Going, Parses
<1>9. Going(p2) /\ p2.qt[0] = cam.q
  <2>1. p2 = WithQt(p1, 1, 17)
    BY <1>2, <1>5, <1>7, <1>8, ParsesQuantiser
  <2> QED
    BY <1>8, <2>1 DEF WithQt, Going, Parses
<1>10. Going(p3) /\ p3.qt[0] = cam.q /\ SameFrame(p3, cam)
  <2>1. p3 = WithFrame(p2, cam)
    BY <1>2, <1>5, <1>9, ParsesFrame
  <2> QED
    BY <1>9, <2>1 DEF WithFrame, Going, Parses, SameFrame
<1>11. Going(p4) /\ p4.qt[0] = cam.q /\ SameFrame(p4, cam) /\ p4.dc[0] = TableOf(DcTable)
  <2>1. 12 \in 0 .. 256 /\ Len(DcTable.symbols) = 12
    BY DEF DcTable
  <2>2. ParseSegment(p3, Coding("dc", DcTable)) = WithDc(p3, DcTable)
    BY <1>10, <2>1, ParsesCoding
  <2>3. p4 = WithDc(p3, DcTable)
    BY <1>2, <1>5, <2>2
  <2> QED
    BY <1>10, <2>3 DEF WithDc, Going, Parses, SameFrame
<1>12. /\ Going(p5) /\ p5.qt[0] = cam.q /\ SameFrame(p5, cam) /\ p5.dc[0] = TableOf(DcTable)
       /\ p5.ac[0] = TableOf(AcTable)
  <2>1. 4 \in 0 .. 256 /\ Len(AcTable.symbols) = 4
    BY DEF AcTable
  <2>2. ParseSegment(p4, Coding("ac", AcTable)) = WithAc(p4, AcTable)
    BY <1>11, <2>1, ParsesCoding
  <2>3. p5 = WithAc(p4, AcTable)
    BY <1>2, <1>5, <2>2
  <2> QED
    BY <1>11, <2>3 DEF WithAc, Going, Parses, SameFrame
<1>13. /\ Going(p6) /\ p6.qt[0] = cam.q /\ SameFrame(p6, cam) /\ p6.dc[0] = TableOf(DcTable)
       /\ p6.ac[0] = TableOf(AcTable) /\ p6.restart = cam.restart
  <2>1. p6 = WithRestart(p5, cam.restart)
    BY <1>2, <1>5, <1>12, ParsesRest
  <2> QED
    BY <1>12, <2>1 DEF WithRestart, Going, Parses, SameFrame
<1>14. Len(ScanOf(cam)) \in 0 .. 3 /\ ScanOf(cam) # <<>> /\ DOMAIN ScanOf(cam) = DOMAIN CompsOf(cam)
       /\ \A k \in DOMAIN ScanOf(cam) : ScanOf(cam)[k].comp = k
  <2>1. CASE cam.colour
    <3>1. /\ DOMAIN CompsOf(cam) = 1 .. 3 /\ DOMAIN ScanOf(cam) = 1 .. 3
          /\ Len(ScanOf(cam)) = 3
          /\ \A k \in 1 .. 3 : ScanOf(cam)[k] = [comp |-> k, dc |-> 0, ac |-> 0]
      BY <2>1, ColourComps
    <3>2. \A k \in 1 .. 3 : [comp |-> k, dc |-> 0, ac |-> 0].comp = k
      OBVIOUS
    <3>3. 3 \in 0 .. 3 /\ Len(<<>>) # 3
      OBVIOUS
    <3> QED
      BY <3>1, <3>2, <3>3
  <2>2. CASE ~cam.colour
    <3>1. /\ DOMAIN CompsOf(cam) = 1 .. 1 /\ DOMAIN ScanOf(cam) = 1 .. 1
          /\ Len(ScanOf(cam)) = 1
          /\ \A k \in 1 .. 1 : ScanOf(cam)[k] = [comp |-> k, dc |-> 0, ac |-> 0]
      BY <2>2, GreyComps
    <3>2. \A k \in 1 .. 1 : [comp |-> k, dc |-> 0, ac |-> 0].comp = k
      OBVIOUS
    <3>3. 1 \in 0 .. 3 /\ Len(<<>>) # 1
      OBVIOUS
    <3> QED
      BY <3>1, <3>2, <3>3
  <2> QED
    BY <2>1, <2>2
<1>15. /\ p7.qt[0] = cam.q /\ SameFrame(p7, cam) /\ p7.dc[0] = TableOf(DcTable)
       /\ p7.ac[0] = TableOf(AcTable) /\ p7.restart = cam.restart
       /\ p7.scan = ScanOf(cam) /\ ~p7.failed /\ p7.sos
  <2>1. p7 = WithScan(p6, ScanOf(cam))
    BY <1>2, <1>5, <1>13, <1>14, ParsesRest
  <2> QED
    BY <1>13, <2>1 DEF WithScan, Going, Parses, SameFrame
<1>16. Scannable(p7) /\ ~Unusable(p7)
  <2>1. Scannable(p7)
    BY <1>14, <1>15 DEF Scannable, SameFrame
  <2> QED
    BY <1>14, <1>15, <2>1, DcTableOfIs DEF Unusable, SameFrame
<1> QED
  BY <1>1, <1>3, <1>4, <1>15, <1>16 DEF Fitting, SameFrame

-----------------------------------------------------------------------------
(* The blocks of an MCU *)

\* The same for the flattened sequence as a whole.
Located(flat, off, seqs) ==
  /\ Offsets(off, seqs) /\ Len(flat) = off[Len(seqs)]
  /\ \A k \in 1 .. Len(seqs) : \A i \in 1 .. Len(seqs[k]) :
       off[k - 1] + i \in 1 .. off[Len(seqs)] /\ flat[off[k - 1] + i] = seqs[k][i]

LEMMA FlattenLocates ==
  ASSUME NEW S, NEW seqs \in Seq(Seq(S)), NEW flat, FlattenSeq(seqs) = flat
  PROVE  flat \in Seq(S) /\ \E off : Located(flat, off, seqs)
BY FlattenIs DEF Located

\* How many blocks an MCU has, and luminance blocks.
LumaBlocks(cam) == cam.h * cam.v

McuSize(cam) == LumaBlocks(cam) + (IF cam.colour THEN 2 ELSE 0)

LumaBlock(cam, t) == [scan |-> 1, bh |-> (t - 1) % cam.h, bv |-> (t - 1) \div cam.h]

LEMMA FormatType ==
  ASSUME NEW cam \in CameraFormat
  PROVE  /\ cam.cols \in Nat \ {0} /\ cam.rows \in Nat \ {0} /\ cam.h \in 1 .. 2 /\ cam.v \in 1 .. 2
         /\ cam.restart \in Nat /\ cam.q \in 1 .. 255
         /\ LumaBlocks(cam) \in 1 .. 4 /\ McuSize(cam) \in 1 .. 6
         /\ cam.colour => McuSize(cam) = LumaBlocks(cam) + 2
         /\ ~cam.colour => McuSize(cam) = LumaBlocks(cam)
<1>1. /\ cam.cols \in Nat \ {0} /\ cam.rows \in Nat \ {0} /\ cam.h \in 1 .. 2 /\ cam.v \in 1 .. 2
      /\ cam.restart \in Nat /\ cam.q \in 1 .. 255
  BY DEF CameraFormat
<1>2. PICK h \in 1 .. 2, v \in 1 .. 2 : cam.h = h /\ cam.v = v
  BY <1>1
<1>3. h * v \in 1 .. 4
  <2>1. (h = 1 \/ h = 2) /\ (v = 1 \/ v = 2)
    OBVIOUS
  <2> QED
    BY <2>1
<1>4. PICK n \in 1 .. 4 : LumaBlocks(cam) = n
  BY <1>2, <1>3 DEF LumaBlocks
<1>5. /\ cam.colour => McuSize(cam) = n + 2
      /\ ~cam.colour => McuSize(cam) = n
  BY <1>4 DEF McuSize
<1> QED
  BY <1>1, <1>4, <1>5

\* The blocks of one component.
BlocksIn(p, s) ==
  LET c == p.comps[p.scan[s].comp]
  IN  [k \in 1 .. c.h * c.v |-> [scan |-> s, bh |-> (k - 1) % c.h, bv |-> (k - 1) \div c.h]]

AnyBlock == [scan : 1 .. 3, bh : Int, bv : Int]

LEMMA LumaBlocksAre ==
  ASSUME NEW cam \in CameraFormat, NEW p, Fitting(p, cam), NEW b, BlocksIn(p, 1) = b
  PROVE  /\ b \in Seq(AnyBlock) /\ Len(b) = LumaBlocks(cam)
         /\ \A t \in 1 .. LumaBlocks(cam) : b[t] = LumaBlock(cam, t)
<1>1. PICK h \in 1 .. 2, v \in 1 .. 2 : cam.h = h /\ cam.v = v
  BY FormatType
<1>2. PICK n \in 1 .. 4 : LumaBlocks(cam) = n /\ h * v = n
  BY <1>1, FormatType DEF LumaBlocks
<1>3. PICK c : c = p.comps[p.scan[1].comp] /\ c.h = h /\ c.v = v
  <2>1. CompsOf(cam)[1] = [h |-> h, v |-> v, qt |-> 0]
        /\ ScanOf(cam)[1] = [comp |-> 1, dc |-> 0, ac |-> 0]
    <3>1. CASE cam.colour
      BY <1>1, <3>1, ColourComps
    <3>2. CASE ~cam.colour
      BY <1>1, <3>2, GreyComps
    <3> QED
      BY <3>1, <3>2
  <2>2. ScanOf(cam)[1].comp = 1
    BY <2>1
  <2>3. p.comps[p.scan[1].comp] = [h |-> h, v |-> v, qt |-> 0]
    BY <2>1, <2>2 DEF Fitting
  <2> QED
    BY <2>3
<1>4. b = [k \in 1 .. n |-> [scan |-> 1, bh |-> (k - 1) % h, bv |-> (k - 1) \div h]]
  BY <1>2, <1>3 DEF BlocksIn
<1>5. \A k \in 1 .. n : [scan |-> 1, bh |-> (k - 1) % h, bv |-> (k - 1) \div h] \in AnyBlock
  <2> TAKE k \in 1 .. n
  <2>1. (k - 1) % h \in Int /\ (k - 1) \div h \in Int /\ 1 \in 1 .. 3
    OBVIOUS
  <2> QED
    BY <2>1 DEF AnyBlock
<1>6. b \in [1 .. n -> AnyBlock] /\ n \in Nat
  BY <1>4, <1>5
<1> QED
  BY <1>1, <1>2, <1>4, <1>6 DEF LumaBlock

LEMMA ChromaBlocksAre ==
  ASSUME NEW cam \in CameraFormat, cam.colour, NEW p, Fitting(p, cam), NEW s \in 2 .. 3,
         NEW b, BlocksIn(p, s) = b
  PROVE  b \in Seq(AnyBlock) /\ Len(b) = 1 /\ b[1].scan = s
<1>1. PICK c : c = p.comps[p.scan[s].comp] /\ c.h = 1 /\ c.v = 1
  <2>1. CompsOf(cam)[s] = [h |-> 1, v |-> 1, qt |-> 1]
        /\ ScanOf(cam)[s] = [comp |-> s, dc |-> 0, ac |-> 0]
    <3>1. (s = 2 \/ s = 3) /\ 2 \in 1 .. 3 /\ 3 \in 1 .. 3
      OBVIOUS
    <3>2. /\ CompsOf(cam)[2] = [h |-> 1, v |-> 1, qt |-> 1]
          /\ CompsOf(cam)[3] = [h |-> 1, v |-> 1, qt |-> 1]
          /\ \A k \in 1 .. 3 : ScanOf(cam)[k] = [comp |-> k, dc |-> 0, ac |-> 0]
      BY ColourComps
    <3>3. CASE s = 2
      BY <3>1, <3>2, <3>3
    <3>4. CASE s = 3
      BY <3>1, <3>2, <3>4
    <3> QED
      BY <3>1, <3>3, <3>4
  <2>2. p.comps[p.scan[s].comp] = [h |-> 1, v |-> 1, qt |-> 1]
    BY <2>1 DEF Fitting
  <2> QED
    BY <2>2
<1>2. b = [k \in 1 .. 1 |-> [scan |-> s, bh |-> (k - 1) % 1, bv |-> (k - 1) \div 1]]
  BY <1>1 DEF BlocksIn
<1>3. \A k \in 1 .. 1 : [scan |-> s, bh |-> (k - 1) % 1, bv |-> (k - 1) \div 1] \in AnyBlock
  <2> TAKE k \in 1 .. 1
  <2>1. (k - 1) % 1 \in Int /\ (k - 1) \div 1 \in Int /\ s \in 1 .. 3
    OBVIOUS
  <2> QED
    BY <2>1 DEF AnyBlock
<1>4. b \in [1 .. 1 -> AnyBlock]
  BY <1>2, <1>3
<1> QED
  BY <1>2, <1>4

McuBlocksOf(cam, bs) ==
  /\ Len(bs) = McuSize(cam)
  /\ \A t \in 1 .. LumaBlocks(cam) : bs[t] = LumaBlock(cam, t)
  /\ cam.colour => bs[LumaBlocks(cam) + 1].scan = 2 /\ bs[LumaBlocks(cam) + 2].scan = 3

\* The decoder goes over the blocks of an MCU in the order they were coded.
LEMMA McuBlocksAre ==
  ASSUME NEW cam \in CameraFormat, NEW p, Fitting(p, cam)
  PROVE  McuBlocksOf(cam, McuBlocks(p))
<1> DEFINE seqs == [s \in DOMAIN p.scan |-> BlocksIn(p, s)]
<1>1. McuBlocks(p) = FlattenSeq(seqs)
  BY DEF McuBlocks, BlocksIn
<1>2. PICK n \in 1 .. 4 : LumaBlocks(cam) = n
  BY FormatType
<1>3. PICK x \in Seq(AnyBlock) :
        /\ BlocksIn(p, 1) = x /\ Len(x) = n
        /\ \A t \in 1 .. n : x[t] = LumaBlock(cam, t)
  BY <1>2, LumaBlocksAre
<1>4. CASE cam.colour
  <2>1. PICK y \in Seq(AnyBlock), z \in Seq(AnyBlock) :
          /\ BlocksIn(p, 2) = y /\ Len(y) = 1 /\ y[1].scan = 2
          /\ BlocksIn(p, 3) = z /\ Len(z) = 1 /\ z[1].scan = 3
    <3>1. 2 \in 2 .. 3 /\ 3 \in 2 .. 3
      OBVIOUS
    <3>2. BlocksIn(p, 2) \in Seq(AnyBlock) /\ Len(BlocksIn(p, 2)) = 1
          /\ BlocksIn(p, 2)[1].scan = 2
      BY <1>4, <3>1, ChromaBlocksAre
    <3>3. BlocksIn(p, 3) \in Seq(AnyBlock) /\ Len(BlocksIn(p, 3)) = 1
          /\ BlocksIn(p, 3)[1].scan = 3
      BY <1>4, <3>1, ChromaBlocksAre
    <3> QED
      BY <3>2, <3>3
  <2>2. DOMAIN p.scan = 1 .. 3
    BY <1>4, ColourComps DEF Fitting
  <2>3. /\ seqs \in Seq(Seq(AnyBlock)) /\ Len(seqs) = 3
        /\ seqs[1] = x /\ seqs[2] = y /\ seqs[3] = z
    <3>1. seqs = [s \in 1 .. 3 |-> BlocksIn(p, s)]
      BY <2>2
    <3>2. \A s \in 1 .. 3 : BlocksIn(p, s) \in Seq(AnyBlock)
      BY <1>3, <2>1
    <3> HIDE DEF seqs
    <3>3. seqs \in [1 .. 3 -> Seq(AnyBlock)]
      BY <3>1, <3>2
    <3> QED
      BY <1>3, <2>1, <3>1, <3>3
  <2> HIDE DEF seqs
  <2>4. PICK flat : FlattenSeq(seqs) = flat
    OBVIOUS
  <2>5. PICK off :
          /\ Offsets(off, seqs) /\ Len(flat) = off[Len(seqs)]
          /\ \A k \in 1 .. Len(seqs) :
               \A i \in 1 .. Len(seqs[k]) : flat[off[k - 1] + i] = seqs[k][i]
    <3>1. PICK off : Located(flat, off, seqs)
      BY <2>3, <2>4, FlattenLocates
    <3> QED
      BY <3>1 DEF Located
  <2>6. off[0] = 0 /\ off[1] = n /\ off[2] = n + 1 /\ off[3] = n + 2
    <3>1. /\ off \in [0 .. 3 -> Nat] /\ off[0] = 0
          /\ \A k \in 1 .. 3 : off[k] = off[k - 1] + Len(seqs[k])
      BY <2>3, <2>5 DEF Offsets
    <3>2. 1 - 1 = 0 /\ 2 - 1 = 1 /\ 3 - 1 = 2 /\ 1 \in 1 .. 3 /\ 2 \in 1 .. 3 /\ 3 \in 1 .. 3
      OBVIOUS
    <3>3. off[1] = 0 + n /\ off[2] = off[1] + 1 /\ off[3] = off[2] + 1
      BY <1>3, <2>1, <2>3, <3>1, <3>2
    <3> QED
      BY <3>1, <3>3
  <2>7. ASSUME NEW t \in 1 .. n PROVE flat[t] = LumaBlock(cam, t)
    <3>1. 1 \in 1 .. Len(seqs) /\ t \in 1 .. Len(seqs[1]) /\ 1 - 1 = 0 /\ 0 + t = t
      BY <1>3, <2>3
    <3>2. flat[off[0] + t] = x[t]
      BY <2>3, <2>5, <3>1
    <3> QED
      BY <1>3, <2>6, <3>1, <3>2
  <2>8. flat[n + 1].scan = 2 /\ flat[n + 2].scan = 3
    <3>1. 2 \in 1 .. Len(seqs) /\ 3 \in 1 .. Len(seqs) /\ 2 - 1 = 1 /\ 3 - 1 = 2
      BY <2>3
    <3>2. 1 \in 1 .. Len(seqs[2]) /\ 1 \in 1 .. Len(seqs[3])
      <4>1. Len(seqs[2]) = 1 /\ Len(seqs[3]) = 1
        BY <2>1, <2>3
      <4> QED
        BY <4>1
    <3>3. flat[off[1] + 1] = y[1] /\ flat[off[2] + 1] = z[1]
      BY <2>3, <2>5, <3>1, <3>2
    <3>4. (n + 1) + 1 = n + 2
      OBVIOUS
    <3> QED
      BY <2>1, <2>6, <3>3, <3>4
  <2>9. Len(flat) = McuSize(cam)
    BY <1>2, <1>4, <2>3, <2>5, <2>6, FormatType
  <2> QED
    BY <1>1, <1>2, <2>4, <2>7, <2>8, <2>9 DEF McuBlocksOf
<1>5. CASE ~cam.colour
  <2>2. DOMAIN p.scan = 1 .. 1
    BY <1>5, GreyComps DEF Fitting
  <2>3. seqs \in Seq(Seq(AnyBlock)) /\ Len(seqs) = 1 /\ seqs[1] = x
    <3>1. seqs = [s \in 1 .. 1 |-> BlocksIn(p, s)]
      BY <2>2
    <3>2. \A s \in 1 .. 1 : BlocksIn(p, s) \in Seq(AnyBlock)
      BY <1>3
    <3> HIDE DEF seqs
    <3>3. seqs \in [1 .. 1 -> Seq(AnyBlock)]
      BY <3>1, <3>2
    <3> QED
      BY <1>3, <3>1, <3>3
  <2> HIDE DEF seqs
  <2>4. PICK flat : FlattenSeq(seqs) = flat
    OBVIOUS
  <2>5. PICK off :
          /\ Offsets(off, seqs) /\ Len(flat) = off[Len(seqs)]
          /\ \A k \in 1 .. Len(seqs) :
               \A i \in 1 .. Len(seqs[k]) : flat[off[k - 1] + i] = seqs[k][i]
    <3>1. PICK off : Located(flat, off, seqs)
      BY <2>3, <2>4, FlattenLocates
    <3> QED
      BY <3>1 DEF Located
  <2>6. off[0] = 0 /\ off[1] = n
    <3>1. /\ off \in [0 .. 1 -> Nat] /\ off[0] = 0
          /\ \A k \in 1 .. 1 : off[k] = off[k - 1] + Len(seqs[k])
      BY <2>3, <2>5 DEF Offsets
    <3>2. 1 - 1 = 0 /\ 1 \in 1 .. 1
      OBVIOUS
    <3>3. off[1] = 0 + n
      BY <1>3, <2>3, <3>1, <3>2
    <3> QED
      BY <3>1, <3>3
  <2>7. ASSUME NEW t \in 1 .. n PROVE flat[t] = LumaBlock(cam, t)
    <3>1. 1 \in 1 .. Len(seqs) /\ t \in 1 .. Len(seqs[1]) /\ 1 - 1 = 0 /\ 0 + t = t
      BY <1>3, <2>3
    <3>2. flat[off[0] + t] = x[t]
      BY <2>3, <2>5, <3>1
    <3> QED
      BY <1>3, <2>6, <3>1, <3>2
  <2>9. Len(flat) = McuSize(cam)
    BY <1>2, <1>5, <2>3, <2>5, <2>6, FormatType
  <2> QED
    BY <1>1, <1>2, <1>5, <2>4, <2>7, <2>9 DEF McuBlocksOf
<1> QED
  BY <1>4, <1>5

CellsIn(cam) == 0 .. (cam.cols * cam.h) * (cam.rows * cam.v) - 1

CellAt(cam, mcu, b) ==
  ((mcu \div cam.cols) * cam.v + b.bv) * (cam.cols * cam.h) + (mcu % cam.cols) * cam.h + b.bh

\* The cell of a block is within the picture.
LEMMA CellInPicture ==
  ASSUME NEW cam \in CameraFormat, NEW mcu \in Nat, mcu < cam.cols * cam.rows,
         NEW t \in 1 .. LumaBlocks(cam)
  PROVE  CellAt(cam, mcu, LumaBlock(cam, t)) \in CellsIn(cam)
<1>1. PICK cols \in Nat \ {0}, rows \in Nat \ {0}, h \in 1 .. 2, v \in 1 .. 2 :
        cam.cols = cols /\ cam.rows = rows /\ cam.h = h /\ cam.v = v
  BY FormatType
<1>2. PICK n \in 1 .. 4 : LumaBlocks(cam) = n /\ h * v = n
  BY <1>1, FormatType DEF LumaBlocks
<1>3. PICK x \in 0 .. h - 1, y \in 0 .. v - 1 : (t - 1) % h = x /\ (t - 1) \div h = y
  <2>1. t - 1 \in Nat /\ t - 1 < v * h
    <3>1. t \in 1 .. n /\ v * h = n
      BY <1>2
    <3> QED
      BY <3>1
  <2>2. v \in Nat /\ h \in Nat
    OBVIOUS
  <2>3. (t - 1) \div h \in 0 .. v - 1 /\ (t - 1) % h \in 0 .. h - 1
    BY <2>1, <2>2, DivMod
  <2> QED
    BY <2>3
<1>4. PICK i \in 0 .. rows - 1, j \in 0 .. cols - 1 : mcu \div cols = i /\ mcu % cols = j
  <2>1. mcu < rows * cols /\ rows \in Nat /\ cols \in Nat
    BY <1>1
  <2>2. mcu \div cols \in 0 .. rows - 1 /\ mcu % cols \in 0 .. cols - 1
    BY <2>1, DivMod
  <2> QED
    BY <2>2
<1>5. PICK w \in Nat, l \in Nat : cols * h = w /\ rows * v = l
  BY <1>1
<1>6. PICK a \in 0 .. w - 1 : j * h + x = a
  <2>1. cols \in Nat /\ h \in Nat
    OBVIOUS
  <2>2. j * h + x \in 0 .. cols * h - 1
    BY <2>1, CellBound
  <2> QED
    BY <1>5, <2>2
<1>7. PICK b \in 0 .. l - 1 : i * v + y = b
  <2>1. rows \in Nat /\ v \in Nat
    OBVIOUS
  <2>2. i * v + y \in 0 .. rows * v - 1
    BY <2>1, CellBound
  <2> QED
    BY <1>5, <2>2
<1>8. b * w + a \in 0 .. l * w - 1
  BY CellBound
<1>9. CellAt(cam, mcu, LumaBlock(cam, t)) = b * w + a
  <2>1. CellAt(cam, mcu, LumaBlock(cam, t)) = (i * v + y) * (cols * h) + j * h + x
    BY <1>1, <1>3, <1>4 DEF CellAt, LumaBlock
  <2>2. PICK m \in Nat, o \in Nat : b * w = m /\ j * h = o
    BY <1>1, <1>4, <1>5, <1>7
  <2>3. CellAt(cam, mcu, LumaBlock(cam, t)) = m + o + x
    BY <1>5, <1>7, <2>1, <2>2
  <2>4. m + o + x = m + (o + x)
    BY <1>3
  <2> QED
    BY <1>6, <2>2, <2>3, <2>4
<1>10. l * w = w * l
  BY <1>5
<1> QED
  BY <1>1, <1>5, <1>8, <1>9, <1>10 DEF CellsIn

\* A block as it is decoded, and as it was coded.
Corresponds(cam, mcu, b, e) ==
  /\ b.scan \in 1 .. 3 /\ (~cam.colour => b.scan = 1)
  /\ PlaneOf(e) = 1 - b.scan /\ PlaneOf(e) \in Planes /\ (b.scan = 1 <=> e >= 0)
  /\ e >= 0 => e = CellAt(cam, mcu, b) /\ e \in CellsIn(cam)

LEMMA CodedBlocksAre ==
  ASSUME NEW cam \in CameraFormat, NEW mcu
  PROVE  /\ Len(BlocksOf(cam, mcu)) = McuSize(cam) /\ DOMAIN BlocksOf(cam, mcu) = 1 .. McuSize(cam)
         /\ \A t \in 1 .. LumaBlocks(cam) :
              BlocksOf(cam, mcu)[t] = CellAt(cam, mcu, LumaBlock(cam, t))
         /\ cam.colour => /\ BlocksOf(cam, mcu)[LumaBlocks(cam) + 1] = -1
                          /\ BlocksOf(cam, mcu)[LumaBlocks(cam) + 2] = -2
         /\ \E S : BlocksOf(cam, mcu) \in Seq(S)
<1>1. PICK n \in 1 .. 4 : LumaBlocks(cam) = n /\ cam.h * cam.v = n
  BY FormatType DEF LumaBlocks
<1> DEFINE x == [t \in 1 .. n |-> CellAt(cam, mcu, LumaBlock(cam, t))]
           y == IF cam.colour THEN <<-1, -2>> ELSE <<>>
<1>2. BlocksOf(cam, mcu) = x \o y
  BY <1>1 DEF BlocksOf, CellAt, LumaBlock
<1>3. PICK S : x \in [1 .. n -> S] /\ -1 \in S /\ -2 \in S
  <2>1. x \in [1 .. n -> {x[t] : t \in 1 .. n} \cup {-1, -2}]
    OBVIOUS
  <2> QED
    BY <2>1
<1>4. x \in Seq(S) /\ Len(x) = n /\ \A t \in 1 .. n : x[t] = CellAt(cam, mcu, LumaBlock(cam, t))
  BY <1>3
<1> HIDE DEF x
<1>5. CASE cam.colour
  <2>1. y = <<-1, -2>>
    BY <1>5
  <2>2. y \in Seq(S) /\ Len(y) = 2 /\ y[1] = -1 /\ y[2] = -2
    BY <1>3, <2>1
  <2> HIDE DEF y
  <2>3. PICK z : z = x \o y
    OBVIOUS
  <2>4. /\ z \in Seq(S) /\ Len(z) = n + 2 /\ \A t \in 1 .. n : z[t] = x[t]
        /\ z[n + 1] = -1 /\ z[n + 2] = -2
    <3>1. /\ z \in Seq(S) /\ Len(z) = Len(x) + Len(y) /\ \A t \in 1 .. Len(x) : z[t] = x[t]
          /\ \A t \in 1 .. Len(y) : z[Len(x) + t] = y[t]
      <4>1. x \in Seq(S) /\ y \in Seq(S)
        BY <1>4, <2>2
      <4>2. /\ x \o y \in Seq(S) /\ Len(x \o y) = Len(x) + Len(y)
            /\ \A t \in 1 .. Len(x) : (x \o y)[t] = x[t]
            /\ \A t \in 1 .. Len(y) : (x \o y)[Len(x) + t] = y[t]
        BY <4>1, ConcatIs
      <4> QED
        BY <2>3, <4>2
    <3>2. 1 \in 1 .. Len(y) /\ 2 \in 1 .. Len(y)
      BY <2>2
    <3>3. z[n + 1] = y[1] /\ z[n + 2] = y[2]
      BY <1>4, <3>1, <3>2
    <3> QED
      BY <1>4, <2>2, <3>1, <3>3
  <2> QED
    BY <1>1, <1>2, <1>4, <1>5, <2>3, <2>4, FormatType
<1>6. CASE ~cam.colour
  <2>1. y = <<>>
    BY <1>6
  <2>2. x \o y = x
    BY <1>4, <2>1
  <2> QED
    BY <1>1, <1>2, <1>4, <1>6, <2>2, FormatType
<1> QED
  BY <1>5, <1>6

LEMMA BlocksCorrespond ==
  ASSUME NEW cam \in CameraFormat, NEW p, Fitting(p, cam),
         NEW mcu \in Nat, mcu < cam.cols * cam.rows,
         NEW t \in 1 .. McuSize(cam)
  PROVE  Corresponds(cam, mcu, McuBlocks(p)[t], BlocksOf(cam, mcu)[t])
<1>1. PICK n \in 1 .. 4 : LumaBlocks(cam) = n
  BY FormatType
<1>2. PICK b, e : McuBlocks(p)[t] = b /\ BlocksOf(cam, mcu)[t] = e
  OBVIOUS
<1>3. CASE t \in 1 .. n
  <2>1. b = LumaBlock(cam, t)
    BY <1>1, <1>2, <1>3, McuBlocksAre DEF McuBlocksOf
  <2>2. e = CellAt(cam, mcu, b) /\ e \in CellsIn(cam)
    BY <1>1, <1>2, <1>3, <2>1, CodedBlocksAre, CellInPicture
  <2>3. b.scan = 1
    BY <2>1 DEF LumaBlock
  <2>4. e \in Nat
    BY <2>2 DEF CellsIn
  <2>5. PlaneOf(e) = 0 /\ 0 \in Planes /\ e >= 0
    BY <2>4 DEF PlaneOf, Planes
  <2> QED
    BY <1>2, <2>2, <2>3, <2>5 DEF Corresponds
<1>4. CASE ~(t \in 1 .. n)
  <2>1. cam.colour /\ (t = n + 1 \/ t = n + 2)
    <3>1. CASE cam.colour
      <4>1. t \in 1 .. n + 2
        BY <1>1, <3>1, FormatType
      <4> QED
        BY <1>4, <3>1, <4>1
    <3>2. CASE ~cam.colour
      <4>1. t \in 1 .. n
        BY <1>1, <3>2, FormatType
      <4> QED
        BY <1>4, <4>1
    <3> QED
      BY <3>1, <3>2
  <2>2. CASE t = n + 1
    <3>1. b.scan = 2
      BY <1>1, <1>2, <2>1, <2>2, McuBlocksAre DEF McuBlocksOf
    <3>2. e = -1
      BY <1>1, <1>2, <2>1, <2>2, CodedBlocksAre
    <3>3. PlaneOf(e) = -1 /\ -1 \in Planes /\ 1 - 2 = -1 /\ ~(e >= 0)
      BY <3>2 DEF PlaneOf, Planes
    <3> QED
      BY <1>2, <2>1, <3>1, <3>3 DEF Corresponds
  <2>3. CASE t = n + 2
    <3>1. b.scan = 3
      BY <1>1, <1>2, <2>1, <2>3, McuBlocksAre DEF McuBlocksOf
    <3>2. e = -2
      BY <1>1, <1>2, <2>1, <2>3, CodedBlocksAre
    <3>3. PlaneOf(e) = -2 /\ -2 \in Planes /\ 1 - 3 = -2 /\ ~(e >= 0)
      BY <3>2 DEF PlaneOf, Planes
    <3> QED
      BY <1>2, <2>1, <3>1, <3>3 DEF Corresponds
  <2> QED
    BY <2>1, <2>2, <2>3
<1> QED
  BY <1>3, <1>4

-----------------------------------------------------------------------------
(* Decoding what was coded *)

\* What the decoder has agrees with what the encoder had: the bits read are those
\* written, the predictions are the same, and no cell holds anything but its mean.
Agree(cam, d, e) == \A c \in DOMAIN d.pred : d.pred[c] = e.pred[1 - c]

Right(grid, meant) == \A i \in DOMAIN grid : grid[i] = meant[i]

Follows(s, cam, meant, d, e) ==
  d.go /\ Reading(s, d.r, Len(e.bits)) /\ Agree(cam, d, e) /\ Right(d.grid, meant)

Meaning(cam, picture, meant) ==
  \A i \in CellsIn(cam) : picture[i] \in Levels /\ meant[i] = Luma(picture[i], cam.q)

LEMMA FittingComp ==
  ASSUME NEW cam \in CameraFormat, NEW p, Fitting(p, cam), NEW k \in 1 .. 3,
         ~cam.colour => k = 1
  PROVE  /\ k \in DOMAIN p.scan /\ k \in DOMAIN p.comps /\ 1 \in DOMAIN p.comps
         /\ p.scan[k].comp = k /\ p.scan[1].comp = 1
         /\ p.dc[p.scan[k].dc] = TableOf(DcTable) /\ p.ac[p.scan[k].ac] = TableOf(AcTable)
         /\ p.comps[1].h = cam.h /\ p.comps[1].v = cam.v /\ p.qt[p.comps[1].qt] = cam.q
<1>1. PICK n \in {1, 3} :
        /\ DOMAIN CompsOf(cam) = 1 .. n /\ DOMAIN ScanOf(cam) = 1 .. n /\ k \in 1 .. n
        /\ CompsOf(cam)[1] = [h |-> cam.h, v |-> cam.v, qt |-> 0]
        /\ \A i \in 1 .. n : ScanOf(cam)[i] = [comp |-> i, dc |-> 0, ac |-> 0]
  <2>1. CASE cam.colour
    BY <2>1, ColourComps
  <2>2. CASE ~cam.colour
    BY <2>2, GreyComps
  <2> QED
    BY <2>1, <2>2
<1>2. 1 \in 1 .. n
  BY <1>1
<1>3. p.comps[1] = [h |-> cam.h, v |-> cam.v, qt |-> 0] /\ p.scan[k] = [comp |-> k, dc |-> 0, ac |-> 0]
      /\ p.scan[1] = [comp |-> 1, dc |-> 0, ac |-> 0]
  BY <1>1, <1>2 DEF Fitting
<1>4. /\ p.comps[1].h = cam.h /\ p.comps[1].v = cam.v /\ p.comps[1].qt = 0
      /\ p.scan[k].comp = k /\ p.scan[k].dc = 0 /\ p.scan[k].ac = 0 /\ p.scan[1].comp = 1
  BY <1>3
<1> QED
  BY <1>1, <1>2, <1>4 DEF Fitting

\* The luminance of a block is recorded where it belongs.
Recorded(n, g, i) ==
  [n EXCEPT !.grid = [x \in DOMAIN n.grid \cup {i} |-> IF x = i THEN g ELSE n.grid[x]]]

LEMMA RecordIs ==
  ASSUME NEW cam \in CameraFormat, NEW p, Fitting(p, cam), NEW mcu, NEW b, NEW n, n.go
  PROVE  /\ b.scan # 1 => Record(p, n, mcu, b) = n
         /\ b.scan = 1 =>
              Record(p, n, mcu, b) = Recorded(n, Luma(n.pred[1], cam.q), CellAt(cam, mcu, b))
<1>1. /\ p.scan[1].comp = 1 /\ p.comps[1].h = cam.h /\ p.comps[1].v = cam.v
      /\ p.qt[p.comps[1].qt] = cam.q
  <2>1. 1 \in 1 .. 3
    OBVIOUS
  <2> QED
    BY <2>1, FittingComp
<1>2. cam.q # 0 /\ p.cols = cam.cols
  BY FormatType DEF Fitting
<1>3. PICK q : p.qt[p.comps[1].qt] = q /\ cam.q = q /\ q # 0
  BY <1>1, <1>2
<1>4. CASE b.scan # 1
  BY <1>4 DEF Record
<1>5. CASE b.scan = 1
  <2> DEFINE cell == ((mcu \div p.cols) * p.comps[1].v + b.bv) * (p.cols * p.comps[1].h)
                       + (mcu % p.cols) * p.comps[1].h + b.bh
             value == Luma(n.pred[1], IF q = 0 THEN 1 ELSE q)
  <2>1. Record(p, n, mcu, b)
          = [n EXCEPT !.grid = [i \in DOMAIN n.grid \cup {cell} |->
                                  IF i = cell THEN value ELSE n.grid[i]]]
    BY <1>1, <1>3, <1>5 DEF Record
  <2>2. cell = CellAt(cam, mcu, b)
    BY <1>1, <1>2 DEF CellAt
  <2>3. value = Luma(n.pred[1], cam.q)
    BY <1>3
  <2> QED
    BY <1>5, <2>1, <2>2, <2>3 DEF Recorded
<1> QED
  BY <1>4, <1>5

CellOf(blk) == IF blk >= 0 THEN {blk} ELSE {}

Coded(s, picture, detail, e, f, blk) ==
  \E diff \in Differences, w \in Seq({0, 1}) :
    Encodes(picture, detail, e, f, blk, diff, w) /\ Found(s, Len(e.bits), w)

BlockWalked(s, cam, meant, d, n, blk, f) ==
  Follows(s, cam, meant, n, f) /\ DOMAIN n.grid = DOMAIN d.grid \cup CellOf(blk)

\* A block is decoded as it was coded.
LEMMA WalkBlockReads ==
  ASSUME NEW s, Carries(s), NEW cam \in CameraFormat, NEW p, Fitting(p, cam),
         NEW picture, NEW meant, Meaning(cam, picture, meant),
         NEW detail \in {"flat", "edge", "sharp"},
         NEW d \in Walk(p), NEW e \in EncState, Follows(s, cam, meant, d, e),
         NEW mcu, NEW b, NEW blk, Corresponds(cam, mcu, b, blk),
         NEW f, Coded(s, picture, detail, e, f, blk)
  PROVE  BlockWalked(s, cam, meant, d, WalkBlock(s.data, p, d, mcu, b), blk, f)
<1>0. PICK diff \in Differences, w \in Seq({0, 1}) :
        Encodes(picture, detail, e, f, blk, diff, w) /\ Found(s, Len(e.bits), w)
  BY DEF Coded
<1>1. /\ w \in Seq({0, 1}) /\ DcBits(diff) \o AcBits(detail) = w
      /\ LevelOf(picture, blk) = e.pred[PlaneOf(blk)] + diff /\ f.bits = e.bits \o w
      /\ f.pred = [x \in Planes |-> IF x = PlaneOf(blk) THEN LevelOf(picture, blk) ELSE e.pred[x]]
  BY <1>0 DEF Encodes
<1>2. /\ p \in Parses /\ Scannable(p) /\ d.go /\ Reading(s, d.r, Len(e.bits))
      /\ Agree(cam, d, e) /\ Right(d.grid, meant)
  BY DEF Fitting, Follows
<1>3. PICK k \in 1 .. 3 : b.scan = k /\ (~cam.colour => k = 1) /\ PlaneOf(blk) = 1 - k
                          /\ PlaneOf(blk) \in Planes /\ (k = 1 <=> blk >= 0)
  BY DEF Corresponds
<1>4. /\ k \in DOMAIN p.scan /\ k \in DOMAIN p.comps /\ 1 \in DOMAIN p.comps
      /\ p.scan[k].comp = k
      /\ p.dc[p.scan[k].dc] = TableOf(DcTable) /\ p.ac[p.scan[k].ac] = TableOf(AcTable)
  BY <1>3, FittingComp
<1>5. DOMAIN d.pred = DOMAIN p.comps /\ e.bits \in Seq({0, 1})
  BY DEF Walk, EncState
<1>6. Level(d, k, diff) = LevelOf(picture, blk)
  <2>1. d.pred[k] = e.pred[1 - k]
    BY <1>2, <1>4, <1>5 DEF Agree
  <2> QED
    BY <1>1, <1>3, <2>1 DEF Level
<1>7. PICK n : DecodeBlock(s.data, p, d, k) = n
  OBVIOUS
<1>8. BlockRead(s, d, n, k, LevelOf(picture, blk), Len(e.bits) + Len(w))
  <2>1. PICK a : Len(e.bits) = a
    OBVIOUS
  <2>2. Reading(s, d.r, a) /\ Found(s, a, w)
    BY <1>0, <1>2, <2>1
  <2>3. BlockRead(s, d, DecodeBlock(s.data, p, d, k), k, Level(d, k, diff), a + Len(w))
    BY <1>1, <1>2, <1>4, <2>2, BlockReads
  <2> QED
    BY <1>6, <1>7, <2>1, <2>3
<1>9. /\ n.go /\ n.grid = d.grid /\ DOMAIN n.pred = DOMAIN p.comps
      /\ Reading(s, n.r, Len(e.bits) + Len(w))
      /\ \A x \in DOMAIN p.comps : n.pred[x] = IF x = k THEN LevelOf(picture, blk) ELSE d.pred[x]
  BY <1>5, <1>8 DEF BlockRead
<1>10. Reading(s, n.r, Len(f.bits))
  <2>1. Len(e.bits \o w) = Len(e.bits) + Len(w)
    BY <1>1, <1>5
  <2> QED
    BY <1>1, <1>9, <2>1
<1>11. Agree(cam, n, f)
  <2> SUFFICES ASSUME NEW c \in DOMAIN n.pred PROVE n.pred[c] = f.pred[1 - c]
    BY DEF Agree
  <2>1. c \in DOMAIN p.comps
    BY <1>9
  <2>2. c \in 1 .. 3
    <3>1. DOMAIN CompsOf(cam) \subseteq 1 .. 3
      <4>1. CASE cam.colour
        BY <4>1, ColourComps
      <4>2. CASE ~cam.colour
        <5>1. DOMAIN CompsOf(cam) = 1 .. 1
          BY <4>2, GreyComps
        <5> QED
          BY <5>1
      <4> QED
        BY <4>1, <4>2
    <3> QED
      BY <2>1, <3>1 DEF Fitting
  <2>3. 1 - c \in Planes /\ (1 - c = 1 - k <=> c = k)
    BY <1>3, <2>2 DEF Planes
  <2>4. f.pred[1 - c] = IF c = k THEN LevelOf(picture, blk) ELSE e.pred[1 - c]
    BY <1>1, <1>3, <2>3
  <2>5. d.pred[c] = e.pred[1 - c]
    BY <1>2, <1>5, <2>1 DEF Agree
  <2> QED
    BY <1>9, <2>1, <2>4, <2>5
<1>12. WalkBlock(s.data, p, d, mcu, b) = Record(p, n, mcu, b)
  BY <1>2, <1>3, <1>7 DEF WalkBlock
<1>13. CASE k # 1
  <2>1. Record(p, n, mcu, b) = n
    BY <1>3, <1>9, <1>13, RecordIs
  <2>2. ~(blk >= 0)
    BY <1>3, <1>13
  <2>3. Follows(s, cam, meant, n, f)
    BY <1>2, <1>9, <1>10, <1>11 DEF Follows
  <2>4. DOMAIN n.grid = DOMAIN d.grid \cup CellOf(blk)
    BY <1>9, <2>2 DEF CellOf
  <2> QED
    BY <1>12, <2>1, <2>3, <2>4 DEF BlockWalked
<1>14. CASE k = 1
  <2>1. blk >= 0 /\ blk = CellAt(cam, mcu, b) /\ blk \in CellsIn(cam)
    BY <1>3, <1>14 DEF Corresponds
  <2>2. LevelOf(picture, blk) = picture[blk]
    BY <2>1 DEF LevelOf
  <2>3. n.pred[1] = picture[blk]
    BY <1>4, <1>9, <1>14, <2>2
  <2>4. PICK g : meant[blk] = g /\ Luma(n.pred[1], cam.q) = g
    BY <2>1, <2>3 DEF Meaning
  <2>5. Record(p, n, mcu, b) = Recorded(n, g, blk)
    BY <1>3, <1>9, <1>14, <2>1, <2>4, RecordIs
  <2>6. PICK m : Recorded(n, g, blk) = m
    OBVIOUS
  <2>7. n \in Walk(p)
    BY <1>2, <1>4, <1>7, DecodeBlockType DEF Carries
  <2>8. /\ m.go = n.go /\ m.r = n.r /\ m.pred = n.pred
        /\ m.grid = [x \in DOMAIN n.grid \cup {blk} |-> IF x = blk THEN g ELSE n.grid[x]]
    BY <2>6, <2>7 DEF Recorded, Walk
  <2>9. Right(m.grid, meant) /\ DOMAIN m.grid = DOMAIN d.grid \cup {blk}
    BY <1>2, <1>9, <2>4, <2>8 DEF Right
  <2>10. Agree(cam, m, f)
    BY <1>11, <2>8 DEF Agree
  <2>11. Follows(s, cam, meant, m, f)
    BY <1>9, <1>10, <2>8, <2>9, <2>10 DEF Follows
  <2> QED
    BY <1>12, <2>1, <2>5, <2>6, <2>9, <2>11 DEF BlockWalked, CellOf
<1> QED
  BY <1>13, <1>14

LEMMA BeginsTwice ==
  ASSUME NEW x \in Seq({0, 1}), NEW y \in Seq({0, 1}), NEW z \in Seq({0, 1}),
         Begins(x, y), Begins(y, z)
  PROVE  Begins(x, z)
<1>1. Len(x) \in Nat /\ Len(y) \in Nat /\ Len(z) \in Nat /\ Len(x) <= Len(y) /\ Len(y) <= Len(z)
  BY DEF Begins
<1>2. \A i \in 1 .. Len(x) : y[i] = x[i]
  BY DEF Begins
<1>3. \A i \in 1 .. Len(y) : z[i] = y[i]
  BY DEF Begins
<1>4. \A i \in 1 .. Len(x) : i \in 1 .. Len(y)
  BY <1>1
<1>5. Len(x) <= Len(z)
  BY <1>1
<1> QED
  BY <1>2, <1>3, <1>4, <1>5 DEF Begins

LEMMA FoundNext ==
  ASSUME NEW s, s.bits \in Seq({0, 1}), NEW x \in Seq({0, 1}), NEW w \in Seq({0, 1}),
         Begins(x \o w, s.bits)
  PROVE  Found(s, Len(x), w)
<1>1. PICK z \in Seq({0, 1}) : s.bits = z
  OBVIOUS
<1>2. PICK m \in Nat, n \in Nat : Len(x) = m /\ Len(w) = n
  OBVIOUS
<1>3. PICK y : x \o w = y
  OBVIOUS
<1>4. Len(y) = m + n /\ \A i \in 1 .. n : y[m + i] = w[i]
  <2>1. Len(x \o w) = Len(x) + Len(w) /\ \A i \in 1 .. Len(w) : (x \o w)[Len(x) + i] = w[i]
    BY ConcatIs
  <2> QED
    BY <1>2, <1>3, <2>1
<1>5. m + n <= Len(z) /\ \A i \in 1 .. m + n : z[i] = y[i]
  BY <1>1, <1>3, <1>4 DEF Begins
<1>6. \A i \in 1 .. n : m + i \in 1 .. m + n
  OBVIOUS
<1>7. \A i \in 1 .. n : z[m + i] = w[i]
  BY <1>4, <1>5, <1>6
<1> QED
  BY <1>1, <1>2, <1>5, <1>7 DEF Found

\* A stream carries what the blocks are coded to.
CarriesBlocks(s, E, picture, detail, B, blocks) ==
  /\ Carries(s) /\ CanCode(picture, B) /\ blocks \in Seq(B)
  /\ EncRun(E, picture, detail, blocks) /\ Begins(E[Len(blocks)].bits, s.bits)

LEMMA NextBlock ==
  ASSUME NEW s, NEW E, NEW picture, NEW detail \in {"flat", "edge", "sharp"}, NEW B,
         NEW blocks, CarriesBlocks(s, E, picture, detail, B, blocks),
         NEW j \in Nat, j < Len(blocks)
  PROVE  /\ E[j] \in EncState /\ E[j + 1] \in EncState
         /\ Coded(s, picture, detail, E[j], E[j + 1], blocks[j + 1])
<1>1. /\ blocks \in Seq(B) /\ s.bits \in Seq({0, 1}) /\ CanCode(picture, B)
      /\ EncRun(E, picture, detail, blocks)
  BY DEF CarriesBlocks, Carries
<1>2. PICK n \in Nat : Len(blocks) = n
  BY <1>1
<1>3. j + 1 \in 1 .. n /\ j \in 0 .. n /\ j + 1 \in 0 .. n /\ (j + 1) - 1 = j /\ n \in 0 .. n
  BY <1>2
<1>4. E[j] \in EncState /\ E[j + 1] \in EncState /\ E[n] \in EncState
      /\ E[j + 1] = BlockBits(picture, detail, E[j], blocks[j + 1])
  BY <1>1, <1>2, <1>3 DEF EncRun
<1>5. PlaneOf(blocks[j + 1]) \in Planes /\ LevelOf(picture, blocks[j + 1]) \in Levels
  BY <1>1, <1>2, <1>3, ElementOf DEF CanCode
<1>6. PICK diff \in Differences, w \in Seq({0, 1}) :
        Encodes(picture, detail, E[j], BlockBits(picture, detail, E[j], blocks[j + 1]),
                blocks[j + 1], diff, w)
  BY <1>4, <1>5, BlockBitsIs
<1>7. Encodes(picture, detail, E[j], E[j + 1], blocks[j + 1], diff, w)
  BY <1>4, <1>6
<1>8. w \in Seq({0, 1}) /\ E[j + 1].bits = E[j].bits \o w
  BY <1>7 DEF Encodes
<1>9. E[j].bits \in Seq({0, 1}) /\ E[j + 1].bits \in Seq({0, 1}) /\ E[n].bits \in Seq({0, 1})
  BY <1>4 DEF EncState
<1>10. Begins(E[j + 1].bits, s.bits)
  <2>1. Begins(E[j + 1].bits, E[Len(blocks)].bits)
    BY <1>1, <1>2, <1>3, EncodedBegins
  <2>2. Begins(E[Len(blocks)].bits, s.bits)
    BY DEF CarriesBlocks
  <2> QED
    BY <1>1, <1>2, <1>9, <2>1, <2>2, BeginsTwice
<1>11. Found(s, Len(E[j].bits), w)
  BY <1>1, <1>8, <1>9, <1>10, FoundNext
<1> QED
  BY <1>4, <1>7, <1>8, <1>11 DEF Coded

CellsOfMcu(cam, mcu) == {b \in ToSet(BlocksOf(cam, mcu)) : b >= 0}

CellsUpto(es, t) == {x \in {es[k] : k \in 1 .. t} : x >= 0}

LEMMA UptoNext ==
  ASSUME NEW es, NEW t \in Nat
  PROVE  CellsUpto(es, t + 1) = CellsUpto(es, t) \cup CellOf(es[t + 1])
<1>1. 1 .. t + 1 = (1 .. t) \cup {t + 1}
  OBVIOUS
<1>2. {es[k] : k \in 1 .. t + 1} = {es[k] : k \in 1 .. t} \cup {es[t + 1]}
  BY <1>1
<1>3. CASE es[t + 1] >= 0
  BY <1>2, <1>3 DEF CellsUpto, CellOf
<1>4. CASE ~(es[t + 1] >= 0)
  BY <1>2, <1>4 DEF CellsUpto, CellOf
<1> QED
  BY <1>3, <1>4

McuRead(s, cam, p, meant, d, mcu, e) ==
  \E x \in Walk(p) :
    /\ WalkMcu(s.data, p, d, mcu) = AfterMcu(s.data, p, x, mcu)
    /\ Follows(s, cam, meant, x, e) /\ DOMAIN x.grid = DOMAIN d.grid \cup CellsOfMcu(cam, mcu)

\* The blocks of an MCU are decoded as they were coded.
LEMMA McuReads ==
  ASSUME NEW s, NEW E, NEW picture, NEW detail \in {"flat", "edge", "sharp"}, NEW B,
         NEW blocks, CarriesBlocks(s, E, picture, detail, B, blocks),
         NEW cam \in CameraFormat, NEW p, Fitting(p, cam),
         NEW meant, Meaning(cam, picture, meant), NEW d \in Walk(p),
         NEW mcu \in Nat, mcu < cam.cols * cam.rows,
         NEW j \in Nat, j + McuSize(cam) <= Len(blocks),
         \A t \in 1 .. McuSize(cam) : blocks[j + t] = BlocksOf(cam, mcu)[t],
         Follows(s, cam, meant, d, E[j])
  PROVE  McuRead(s, cam, p, meant, d, mcu, E[j + McuSize(cam)])
<1>1. PICK n \in 1 .. 6 : McuSize(cam) = n
  BY FormatType
<1>2. p \in Parses /\ Scannable(p) /\ IsData(s.data) /\ Carries(s)
  BY DEF Fitting, CarriesBlocks, Carries
<1>3. mcu \in 0 .. p.cols * p.rows - 1
  <2>1. PICK m \in Nat : cam.cols * cam.rows = m
    BY FormatType
  <2> QED
    BY <2>1 DEF Fitting
<1>4. PICK D : McuRun(D, s.data, p, d, mcu)
  BY <1>2, <1>3, WalkMcuRuns
<1>5. Len(McuBlocks(p)) = n
  BY <1>1, McuBlocksAre DEF McuBlocksOf
<1>6. PICK bs, es : McuBlocks(p) = bs /\ BlocksOf(cam, mcu) = es
  OBVIOUS
<1>7. /\ D[0] = d /\ \A k \in 0 .. n : D[k] \in Walk(p)
      /\ \A k \in 1 .. n : D[k] = WalkBlock(s.data, p, D[k - 1], mcu, bs[k])
      /\ WalkMcu(s.data, p, d, mcu) = AfterMcu(s.data, p, D[n], mcu)
  BY <1>4, <1>5, <1>6 DEF McuRun
<1>8. PICK l \in Nat : Len(blocks) = l /\ j + n <= l
  BY <1>1 DEF CarriesBlocks
<1> DEFINE S == {t \in Nat : t <= n => /\ Follows(s, cam, meant, D[t], E[j + t])
                                       /\ DOMAIN D[t].grid = DOMAIN d.grid \cup CellsUpto(es, t)}
<1>9. 0 \in S
  <2>1. j + 0 = j /\ CellsUpto(es, 0) = {}
    BY DEF CellsUpto
  <2> QED
    BY <1>7, <2>1
<1>10. ASSUME NEW t \in Nat, t \in S PROVE t + 1 \in S
  <2> SUFFICES ASSUME t + 1 <= n
               PROVE  /\ Follows(s, cam, meant, D[t + 1], E[j + (t + 1)])
                      /\ DOMAIN D[t + 1].grid = DOMAIN d.grid \cup CellsUpto(es, t + 1)
    <3>1. t + 1 \in Nat
      OBVIOUS
    <3> QED
      BY <3>1, Zenon
  <2>1. t + 1 \in 1 .. n /\ (t + 1) - 1 = t /\ t <= n /\ t \in 0 .. n
    OBVIOUS
  <2>2. Follows(s, cam, meant, D[t], E[j + t]) /\ DOMAIN D[t].grid = DOMAIN d.grid \cup CellsUpto(es, t)
    BY <1>10, <2>1
  <2>3. PICK i \in Nat : j + t = i /\ j + (t + 1) = i + 1 /\ i < l
    BY <1>8
  <2>4. PICK blk : es[t + 1] = blk /\ blocks[i + 1] = blk
    <3>1. blocks[j + (t + 1)] = BlocksOf(cam, mcu)[t + 1]
      BY <1>1, <2>1
    <3> QED
      BY <1>6, <2>3, <3>1
  <2>5. Coded(s, picture, detail, E[i], E[i + 1], blk)
    <3>1. Coded(s, picture, detail, E[i], E[i + 1], blocks[i + 1])
      BY <1>8, <2>3, NextBlock
    <3> QED
      BY <2>4, <3>1
  <2>6. E[i] \in EncState
    BY <1>8, <2>3, NextBlock
  <2>7. Corresponds(cam, mcu, bs[t + 1], blk)
    <3>1. Corresponds(cam, mcu, McuBlocks(p)[t + 1], BlocksOf(cam, mcu)[t + 1])
      BY <1>1, <2>1, BlocksCorrespond
    <3> QED
      BY <1>6, <2>4, <3>1
  <2>8. PICK x \in Walk(p) : D[t] = x
    BY <1>7, <2>1
  <2>9. Follows(s, cam, meant, x, E[i])
    BY <2>2, <2>3, <2>8
  <2>10. BlockWalked(s, cam, meant, x, WalkBlock(s.data, p, x, mcu, bs[t + 1]), blk, E[i + 1])
    BY <1>2, <2>5, <2>6, <2>7, <2>9, WalkBlockReads
  <2>11. D[t + 1] = WalkBlock(s.data, p, x, mcu, bs[t + 1])
    BY <1>7, <2>1, <2>8
  <2>12. CellsUpto(es, t + 1) = CellsUpto(es, t) \cup CellOf(blk)
    BY <2>4, UptoNext
  <2>13. DOMAIN D[t + 1].grid = DOMAIN d.grid \cup CellsUpto(es, t + 1)
    BY <2>2, <2>8, <2>10, <2>11, <2>12 DEF BlockWalked
  <2> QED
    BY <2>3, <2>10, <2>11, <2>13 DEF BlockWalked
<1> HIDE DEF S
<1>11. n \in S /\ n <= n
  <2>1. n \in Nat
    OBVIOUS
  <2>2. \A k \in Nat : k \in S
    BY <1>9, <1>10, Induction
  <2> QED
    BY <2>1, <2>2
<1>12. Follows(s, cam, meant, D[n], E[j + n]) /\ DOMAIN D[n].grid = DOMAIN d.grid \cup CellsUpto(es, n)
  BY <1>11 DEF S
<1>13. CellsUpto(es, n) = CellsOfMcu(cam, mcu)
  <2>1. DOMAIN es = 1 .. n
    BY <1>1, <1>6, CodedBlocksAre
  <2> QED
    BY <1>6, <2>1 DEF CellsUpto, CellsOfMcu, ToSet
<1>14. n \in 0 .. n
  OBVIOUS
<1> QED
  BY <1>1, <1>7, <1>12, <1>13, <1>14 DEF McuRead

\* Whatever the data are, an MCU is recorded in its own cells only.
Keeps(d, n, cells) ==
  \A i \in DOMAIN d.grid : i \notin cells => i \in DOMAIN n.grid /\ n.grid[i] = d.grid[i]

LEMMA DecodeKeepsGrid ==
  ASSUME NEW data, NEW p \in Parses, NEW d \in Walk(p), NEW s
  PROVE  DecodeBlock(data, p, d, s).grid = d.grid
BY DEF DecodeBlock, DcSymbol, DcValue, Walk

LEMMA McuKeeps ==
  ASSUME NEW data, IsData(data), NEW cam \in CameraFormat, NEW p, Fitting(p, cam),
         NEW d \in Walk(p), NEW mcu \in Nat, mcu < cam.cols * cam.rows
  PROVE  Keeps(d, WalkMcu(data, p, d, mcu), CellsOfMcu(cam, mcu))
<1>1. PICK n \in 1 .. 6 : McuSize(cam) = n
  BY FormatType
<1>2. p \in Parses /\ Scannable(p)
  BY DEF Fitting
<1>3. mcu \in 0 .. p.cols * p.rows - 1
  <2>1. PICK m \in Nat : cam.cols * cam.rows = m
    BY FormatType
  <2> QED
    BY <2>1 DEF Fitting
<1>4. PICK D : McuRun(D, data, p, d, mcu)
  BY <1>2, <1>3, WalkMcuRuns
<1>5. Len(McuBlocks(p)) = n
  BY <1>1, McuBlocksAre DEF McuBlocksOf
<1>6. PICK bs : McuBlocks(p) = bs
  OBVIOUS
<1>7. /\ D[0] = d /\ \A k \in 0 .. n : D[k] \in Walk(p)
      /\ \A k \in 1 .. n : D[k] = WalkBlock(data, p, D[k - 1], mcu, bs[k])
      /\ \A k \in 1 .. n : bs[k] \in Block(p)
      /\ WalkMcu(data, p, d, mcu) = AfterMcu(data, p, D[n], mcu)
  BY <1>4, <1>5, <1>6 DEF McuRun
<1> DEFINE cells == CellsOfMcu(cam, mcu)
<1>8. ASSUME NEW t \in 1 .. n, NEW x \in Walk(p)
      PROVE  Keeps(x, WalkBlock(data, p, x, mcu, bs[t]), cells)
  <2>1. CASE ~x.go
    BY <2>1 DEF WalkBlock, Keeps
  <2>2. CASE x.go
    <3>1. PICK z : DecodeBlock(data, p, x, bs[t].scan) = z
      OBVIOUS
    <3>2. z \in Walk(p) /\ z.grid = x.grid
      <4>1. bs[t].scan \in DOMAIN p.scan
        BY <1>7 DEF Block
      <4> QED
        BY <1>2, <3>1, <4>1, DecodeBlockType, DecodeKeepsGrid
    <3>3. WalkBlock(data, p, x, mcu, bs[t]) = Record(p, z, mcu, bs[t])
      BY <2>2, <3>1 DEF WalkBlock
    <3>4. CASE ~z.go \/ bs[t].scan # 1
      <4>1. Record(p, z, mcu, bs[t]) = z
        BY <3>4 DEF Record
      <4> QED
        BY <3>2, <3>3, <4>1 DEF Keeps
    <3>5. CASE z.go /\ bs[t].scan = 1
      <4>1. PICK g, c : /\ CellAt(cam, mcu, bs[t]) = c
                        /\ Record(p, z, mcu, bs[t]) = Recorded(z, g, c)
        BY <3>5, RecordIs
      <4>2. PICK m : Recorded(z, g, c) = m
        OBVIOUS
      <4>3. m.grid = [i \in DOMAIN z.grid \cup {c} |-> IF i = c THEN g ELSE z.grid[i]]
        BY <3>2, <4>2 DEF Recorded, Walk
      <4>4. c \in cells
        <5>1. PICK e : BlocksOf(cam, mcu)[t] = e
          OBVIOUS
        <5>2. Corresponds(cam, mcu, bs[t], e)
          BY <1>1, <1>6, <5>1, BlocksCorrespond
        <5>3. e >= 0 /\ e = c
          BY <3>5, <4>1, <5>2 DEF Corresponds
        <5>4. t \in DOMAIN BlocksOf(cam, mcu)
          BY <1>1, CodedBlocksAre
        <5> QED
          BY <5>1, <5>3, <5>4 DEF CellsOfMcu, ToSet
      <4>5. Keeps(x, m, cells)
        BY <3>2, <4>3, <4>4 DEF Keeps
      <4> QED
        BY <3>3, <4>1, <4>2, <4>5
    <3> QED
      BY <3>4, <3>5
  <2> QED
    BY <2>1, <2>2
<1> HIDE DEF cells
<1> DEFINE S == {t \in Nat : t <= n => Keeps(d, D[t], cells)}
<1>9. 0 \in S
  BY <1>7 DEF Keeps
<1>10. ASSUME NEW t \in Nat, t \in S PROVE t + 1 \in S
  <2> SUFFICES ASSUME t + 1 <= n PROVE Keeps(d, D[t + 1], cells)
    OBVIOUS
  <2>1. t + 1 \in 1 .. n /\ (t + 1) - 1 = t /\ t <= n /\ t \in 0 .. n
    OBVIOUS
  <2>2. Keeps(d, D[t], cells)
    BY <1>10, <2>1
  <2>3. D[t + 1] = WalkBlock(data, p, D[t], mcu, bs[t + 1]) /\ D[t] \in Walk(p)
    BY <1>7, <2>1
  <2>4. Keeps(D[t], D[t + 1], cells)
    BY <1>8, <2>1, <2>3
  <2> QED
    BY <2>2, <2>4 DEF Keeps
<1> HIDE DEF S
<1>11. n \in S /\ n <= n
  <2>1. n \in Nat
    OBVIOUS
  <2>2. \A k \in Nat : k \in S
    BY <1>9, <1>10, Induction
  <2> QED
    BY <2>1, <2>2
<1>12. Keeps(d, D[n], cells) /\ D[n] \in Walk(p)
  <2>1. n \in 0 .. n
    OBVIOUS
  <2> QED
    BY <1>7, <1>11, <2>1 DEF S
<1>13. AfterMcu(data, p, D[n], mcu).grid = D[n].grid
  BY <1>12 DEF AfterMcu, Restart, Walk
<1> QED
  BY <1>7, <1>12, <1>13 DEF Keeps, cells

-----------------------------------------------------------------------------
(* The blocks of an interval *)

\* Everything that is coded: the cells of the picture, and chrominance.
AllBlocks(cam) == CellsIn(cam) \cup {-1, -2}

LEMMA BlocksOfType ==
  ASSUME NEW cam \in CameraFormat, NEW mcu \in Nat, mcu < cam.cols * cam.rows
  PROVE  BlocksOf(cam, mcu) \in Seq(AllBlocks(cam)) /\ Len(BlocksOf(cam, mcu)) = McuSize(cam)
<1>1. PICK n \in 1 .. 4, B \in 1 .. 6 :
        /\ LumaBlocks(cam) = n /\ McuSize(cam) = B
        /\ cam.colour => B = n + 2
        /\ ~cam.colour => B = n
  BY FormatType
<1>2. PICK s : BlocksOf(cam, mcu) = s
  OBVIOUS
<1>3. /\ Len(s) = B /\ DOMAIN s = 1 .. B /\ \E S : s \in Seq(S)
      /\ \A t \in 1 .. n : s[t] \in CellsIn(cam)
      /\ cam.colour => s[n + 1] = -1 /\ s[n + 2] = -2
  BY <1>1, <1>2, CodedBlocksAre, CellInPicture
<1>4. \A t \in 1 .. B : s[t] \in AllBlocks(cam)
  <2> TAKE t \in 1 .. B
  <2>1. CASE t \in 1 .. n
    BY <1>3, <2>1 DEF AllBlocks
  <2>2. CASE t \notin 1 .. n
    <3>1. CASE cam.colour
      <4>1. t = n + 1 \/ t = n + 2
        BY <1>1, <2>2, <3>1
      <4> QED
        BY <1>3, <3>1, <4>1 DEF AllBlocks
    <3>2. CASE ~cam.colour
      BY <1>1, <2>2, <3>2
    <3> QED
      BY <3>1, <3>2
  <2> QED
    BY <2>1, <2>2
<1>5. s = [t \in 1 .. B |-> s[t]]
  <2>1. PICK S : s \in Seq(S)
    BY <1>3
  <2> QED
    BY <1>3, <2>1
<1>6. s \in Seq(AllBlocks(cam))
  BY <1>4, <1>5
<1> QED
  BY <1>1, <1>2, <1>3, <1>6

\* The blocks of the MCUs of an interval, one after the other.
IntervalBlocks(cam, mcus) == FlattenSeq([k \in DOMAIN mcus |-> BlocksOf(cam, mcus[k])])

Laid(cam, mcus, blocks) ==
  /\ blocks \in Seq(AllBlocks(cam)) /\ Len(blocks) = Len(mcus) * McuSize(cam)
  /\ \A k \in 1 .. Len(mcus) : \A t \in 1 .. McuSize(cam) :
       blocks[(k - 1) * McuSize(cam) + t] = BlocksOf(cam, mcus[k])[t]

McusOfPicture(cam) == {mcu \in Nat : mcu < cam.cols * cam.rows}

LEMMA IntervalBlocksAre ==
  ASSUME NEW cam \in CameraFormat, NEW mcus \in Seq(McusOfPicture(cam))
  PROVE  Laid(cam, mcus, IntervalBlocks(cam, mcus))
<1>1. PICK B \in 1 .. 6 : McuSize(cam) = B
  BY FormatType
<1>2. PICK n \in Nat : Len(mcus) = n
  OBVIOUS
<1> DEFINE seqs == [k \in 1 .. n |-> BlocksOf(cam, mcus[k])]
<1>3. DOMAIN mcus = 1 .. n
  BY <1>2
<1>4. \A k \in 1 .. n : /\ BlocksOf(cam, mcus[k]) \in Seq(AllBlocks(cam))
                        /\ Len(BlocksOf(cam, mcus[k])) = B
  BY <1>1, <1>3, ElementOf, BlocksOfType DEF McusOfPicture
<1>5. /\ seqs \in Seq(Seq(AllBlocks(cam))) /\ Len(seqs) = n
      /\ \A k \in 1 .. n : seqs[k] = BlocksOf(cam, mcus[k]) /\ Len(seqs[k]) = B
  BY <1>4
<1>6. FlattenSeq(seqs) = IntervalBlocks(cam, mcus)
  BY <1>3 DEF IntervalBlocks
<1> HIDE DEF seqs
<1>7. PICK blocks : FlattenSeq(seqs) = blocks
  OBVIOUS
<1>8. blocks \in Seq(AllBlocks(cam)) /\ \E off : Located(blocks, off, seqs)
  BY <1>5, <1>7, FlattenLocates
<1>9. PICK off : Located(blocks, off, seqs)
  BY <1>8
<1>10. /\ off \in [0 .. n -> Nat] /\ off[0] = 0 /\ Len(blocks) = off[n]
       /\ \A k \in 1 .. n : off[k] = off[k - 1] + B
       /\ \A k \in 1 .. n : \A t \in 1 .. B :
            blocks[off[k - 1] + t] = BlocksOf(cam, mcus[k])[t]
  <2>1. /\ off \in [0 .. n -> Nat] /\ off[0] = 0 /\ Len(blocks) = off[n]
        /\ \A k \in 1 .. n : off[k] = off[k - 1] + Len(seqs[k])
    BY <1>5, <1>9 DEF Located, Offsets
  <2>2. \A k \in 1 .. n : \A t \in 1 .. Len(seqs[k]) :
          blocks[off[k - 1] + t] = seqs[k][t]
    BY <1>5, <1>9 DEF Located
  <2>3. \A k \in 1 .. n : off[k] = off[k - 1] + B
    BY <1>5, <2>1
  <2>4. \A k \in 1 .. n : \A t \in 1 .. B :
          blocks[off[k - 1] + t] = BlocksOf(cam, mcus[k])[t]
    BY <1>5, <2>2
  <2> QED
    BY <2>1, <2>3, <2>4
<1> DEFINE S == {k \in Nat : k <= n => off[k] = k * B}
<1>11. \A k \in Nat : k \in S
  <2>1. 0 \in S
    BY <1>10
  <2>2. ASSUME NEW k \in Nat, k \in S PROVE k + 1 \in S
    <3> SUFFICES ASSUME k + 1 <= n PROVE off[k + 1] = (k + 1) * B
      OBVIOUS
    <3>1. k + 1 \in 1 .. n /\ (k + 1) - 1 = k /\ off[k] = k * B
      BY <2>2
    <3>2. off[k + 1] = k * B + B
      BY <1>10, <3>1
    <3> QED
      BY <3>2
  <2> HIDE DEF S
  <2> QED
    BY <2>1, <2>2, Induction
<1>12. \A k \in 0 .. n : off[k] = k * B
  BY <1>11
<1>13. Len(blocks) = n * B
  <2>1. n \in 0 .. n
    OBVIOUS
  <2> QED
    BY <1>10, <1>12, <2>1
<1>14. ASSUME NEW k \in 1 .. n, NEW t \in 1 .. B
       PROVE  blocks[(k - 1) * B + t] = BlocksOf(cam, mcus[k])[t]
  <2>1. k - 1 \in 0 .. n
    OBVIOUS
  <2> QED
    BY <1>10, <1>12, <2>1
<1> QED
  BY <1>1, <1>2, <1>6, <1>7, <1>8, <1>13, <1>14 DEF Laid

\* Chrominance and the values of the picture can be coded.
LEMMA PictureCodes ==
  ASSUME NEW cam, NEW picture, \A i \in CellsIn(cam) : picture[i] \in Levels
  PROVE  CanCode(picture, AllBlocks(cam))
<1>1. ASSUME NEW b \in CellsIn(cam) PROVE PlaneOf(b) \in Planes /\ LevelOf(picture, b) \in Levels
  <2>1. b >= 0
    BY DEF CellsIn
  <2> QED
    BY <2>1 DEF PlaneOf, LevelOf, Planes
<1>2. ASSUME NEW b \in {-1, -2} PROVE PlaneOf(b) \in Planes /\ LevelOf(picture, b) \in Levels
  <2>1. b = -1 \/ b = -2
    OBVIOUS
  <2>2. CASE b = -1
    BY <2>2 DEF PlaneOf, LevelOf, Planes, Levels
  <2>3. CASE b = -2
    BY <2>3 DEF PlaneOf, LevelOf, Planes, Levels
  <2> QED
    BY <2>1, <2>2, <2>3
<1> QED
  BY <1>1, <1>2 DEF CanCode, AllBlocks

IntervalBits(cam, picture, detail, mcus) ==
  Padded(Encoded(picture, detail, IntervalBlocks(cam, mcus)).bits)

\* Bytes are in the data, and a marker or the end of the data is.
Holds(data, from, bytes) ==
  from + Len(bytes) <= Len(data) /\ \A k \in 1 .. Len(bytes) : data[from + k] = bytes[k]

MarkerAt(data, at) ==
  at > Len(data) \/ (data[at] = 255 /\ (at = Len(data) \/ data[at + 1] # 0))

InStream(s, E, cam, picture, detail, mcus, data, from) ==
  /\ s.data = data /\ s.from = from
  /\ EndOf(s) = from + Len(IntervalBytes(cam, picture, detail, mcus)) + 1
  /\ CarriesBlocks(s, E, picture, detail, AllBlocks(cam), IntervalBlocks(cam, mcus))
  /\ Len(s.bits) < Len(E[Len(IntervalBlocks(cam, mcus))].bits) + 8

LEMMA IntervalBytesAre ==
  ASSUME NEW cam, NEW picture, NEW detail, NEW mcus
  PROVE  IntervalBytes(cam, picture, detail, mcus)
           = Stuffed(Bytes(IntervalBits(cam, picture, detail, mcus)))
BY DEF IntervalBytes, IntervalBits, IntervalBlocks, Encoded, EncStart, Each

\* A byte of the interval is one of the data.
LEMMA StuffedInData ==
  ASSUME NEW data, IsData(data), NEW from \in Nat, NEW ib \in Seq(0 .. 255), Holds(data, from, ib),
         NEW n \in Nat, NEW off \in [0 .. n -> Nat], NEW bits \in Seq({0, 1}), NEW k \in 1 .. n,
         StuffedByte(ib, off, bits, k)
  PROVE  CarriesByte([data |-> data, from |-> from, bits |-> bits, n |-> n, off |-> off], k)
<1> DEFINE s == [data |-> data, from |-> from, bits |-> bits, n |-> n, off |-> off]
<1>1. s.data = data /\ s.from = from /\ s.bits = bits /\ s.off = off
  OBVIOUS
<1> HIDE DEF s
<1>2. PICK a \in Nat, b \in Nat : off[k - 1] = a /\ off[k] = b
  <2>1. k - 1 \in 0 .. n /\ k \in 0 .. n
    OBVIOUS
  <2> QED
    BY <2>1
<1>3. PICK l \in Nat : Len(ib) = l
  OBVIOUS
<1>4. /\ ByteOf(ib[a + 1], bits, k) /\ b <= l
      /\ \/ ib[a + 1] # 255 /\ b = a + 1
         \/ ib[a + 1] = 255 /\ b = a + 2 /\ ib[a + 2] = 0
  <2>1. (a + 1) + 1 = a + 2
    OBVIOUS
  <2> QED
    BY <1>2, <1>3, <2>1 DEF StuffedByte
<1>5. a + 1 \in 1 .. l /\ (b = a + 2 => a + 2 \in 1 .. l)
  BY <1>4
<1>6. PICK d \in Nat : Len(data) = d /\ from + l <= d
  BY <1>3 DEF Holds, IsData
<1>7. \A i \in 1 .. l : data[from + i] = ib[i]
  BY <1>3 DEF Holds
<1>8. ByteAt(s, k) = from + (a + 1)
  BY <1>1, <1>2 DEF ByteAt
<1>9. data[ByteAt(s, k)] = ib[a + 1]
  BY <1>5, <1>7, <1>8
<1>10. b = a + 2 => data[ByteAt(s, k) + 1] = ib[a + 2]
  <2>1. ByteAt(s, k) + 1 = from + (a + 2)
    BY <1>8
  <2> QED
    BY <1>5, <1>7, <2>1
<1>11. \A i \in 1 .. 8 : BitsOf(data[ByteAt(s, k)])[i] = bits[8 * (k - 1) + i]
  BY <1>4, <1>9 DEF ByteOf
<1>12. from + b <= d
  BY <1>4, <1>6
<1>13. \/ data[ByteAt(s, k)] # 255 /\ b = a + 1
       \/ data[ByteAt(s, k)] = 255 /\ b = a + 2 /\ data[ByteAt(s, k) + 1] = 0
  BY <1>4, <1>9, <1>10
<1>14. CarriesByte(s, k)
  BY <1>1, <1>2, <1>6, <1>11, <1>12, <1>13 DEF CarriesByte
<1> QED
  BY <1>14 DEF s

LEMMA IntervalCarried ==
  ASSUME NEW data, IsData(data), NEW from \in Nat,
         NEW cam \in CameraFormat, NEW picture, \A i \in CellsIn(cam) : picture[i] \in Levels,
         NEW detail \in {"flat", "edge", "sharp"}, NEW mcus \in Seq(McusOfPicture(cam)),
         Holds(data, from, IntervalBytes(cam, picture, detail, mcus)),
         MarkerAt(data, from + Len(IntervalBytes(cam, picture, detail, mcus)) + 1)
  PROVE  \E s, E : InStream(s, E, cam, picture, detail, mcus, data, from)
<1>1. PICK blocks : IntervalBlocks(cam, mcus) = blocks
  OBVIOUS
<1>2. blocks \in Seq(AllBlocks(cam)) /\ CanCode(picture, AllBlocks(cam))
  BY <1>1, IntervalBlocksAre, PictureCodes DEF Laid
<1>3. PICK E : EncRun(E, picture, detail, blocks)
  BY <1>2, EncoderRuns
<1>4. PICK code \in Seq({0, 1}) : E[Len(blocks)].bits = code
  <2>1. Len(blocks) \in 0 .. Len(blocks)
    BY <1>2
  <2>2. E[Len(blocks)] \in EncState
    BY <1>3, <2>1 DEF EncRun
  <2> QED
    BY <2>2 DEF EncState
<1>5. PICK bits : Padded(code) = bits
  OBVIOUS
<1>6. /\ bits \in Seq({0, 1}) /\ Begins(code, bits)
      /\ \E n \in Nat : Len(bits) = 8 * n /\ 8 * n < Len(code) + 8
  BY <1>5, PaddedIs
<1>7. PICK n \in Nat : Len(bits) = 8 * n /\ 8 * n < Len(code) + 8
  BY <1>6
<1>8. PICK ib : Stuffed(Bytes(bits)) = ib
  OBVIOUS
<1>9. IntervalBytes(cam, picture, detail, mcus) = ib
  <2>1. IntervalBits(cam, picture, detail, mcus) = bits
    BY <1>1, <1>3, <1>4, <1>5 DEF IntervalBits, EncRun
  <2> QED
    BY <1>8, <2>1, IntervalBytesAre
<1>10. ib \in Seq(0 .. 255)
  BY <1>6, <1>7, <1>8, StuffedIs
<1>11. PICK off \in [0 .. n -> Nat] : /\ off[0] = 0 /\ off[n] = Len(ib)
                                      /\ \A k \in 1 .. n : StuffedByte(ib, off, bits, k)
  BY <1>6, <1>7, <1>8, StuffedIs
<1>12. Holds(data, from, ib) /\ MarkerAt(data, from + Len(ib) + 1)
  BY <1>9
<1> DEFINE s == [data |-> data, from |-> from, bits |-> bits, n |-> n, off |-> off]
<1>13. \A k \in 1 .. n : CarriesByte(s, k)
  BY <1>6, <1>10, <1>11, <1>12, StuffedInData
<1>14. /\ s.data = data /\ s.from = from /\ s.bits = bits /\ s.off = off /\ s.n = n
  OBVIOUS
<1> HIDE DEF s
<1>15. EndOf(s) = from + Len(ib) + 1
  BY <1>11, <1>14 DEF EndOf
<1>16. Carries(s)
  <2>1. \/ EndOf(s) > Len(data)
        \/ data[EndOf(s)] = 255 /\ (EndOf(s) = Len(data) \/ data[EndOf(s) + 1] # 0)
    BY <1>12, <1>15 DEF MarkerAt
  <2> QED
    BY <1>6, <1>7, <1>11, <1>13, <1>14, <2>1 DEF Carries
<1>17. CarriesBlocks(s, E, picture, detail, AllBlocks(cam), blocks)
  BY <1>2, <1>3, <1>4, <1>6, <1>14, <1>16 DEF CarriesBlocks
<1>18. Len(s.bits) < Len(E[Len(blocks)].bits) + 8
  BY <1>4, <1>7, <1>14
<1>19. InStream(s, E, cam, picture, detail, mcus, data, from)
  BY <1>1, <1>9, <1>14, <1>15, <1>17, <1>18 DEF InStream
<1> QED
  BY <1>19

-----------------------------------------------------------------------------
(* The walk over an interval *)

\* As it is at the beginning, and behind a restart marker.
Starts(d, from) ==
  d.go /\ d.r = [pos |-> from + 1, buf |-> <<>>] /\ \A c \in DOMAIN d.pred : d.pred[c] = 0

LEMMA StartFollows ==
  ASSUME NEW s, NEW E, NEW cam \in CameraFormat, NEW picture, NEW detail, NEW mcus, NEW data,
         NEW from \in Nat, InStream(s, E, cam, picture, detail, mcus, data, from),
         NEW p, Fitting(p, cam), NEW d \in Walk(p), Starts(d, from),
         NEW meant, Right(d.grid, meant)
  PROVE  Follows(s, cam, meant, d, E[0])
<1>1. /\ s.from = from /\ s.off[0] = 0 /\ s.n \in Nat /\ E[0] = EncStart
  BY DEF InStream, CarriesBlocks, Carries, EncRun
<1>2. E[0].bits = <<>> /\ E[0].pred = [c \in {0, -1, -2} |-> 0]
  BY <1>1 DEF EncStart
<1>3. PICK r \in Reader : d.r = r
  BY DEF Walk
<1>4. r.pos = from + 1 /\ r.buf = <<>>
  BY <1>3 DEF Starts
<1>5. Ahead(s, r, 0, 0)
  BY <1>1, <1>4 DEF Ahead
<1>6. Len(E[0].bits) = 0
  BY <1>2
<1>7. 0 \in 0 .. s.n
  BY <1>1
<1>8. Reading(s, d.r, Len(E[0].bits))
  BY <1>3, <1>5, <1>6, <1>7 DEF Reading
<1>9. DOMAIN d.pred \subseteq 1 .. 3
  <2>1. DOMAIN d.pred = DOMAIN CompsOf(cam)
    BY DEF Walk, Fitting
  <2>2. CASE cam.colour
    BY <2>1, <2>2, ColourComps
  <2>3. CASE ~cam.colour
    <3>1. DOMAIN CompsOf(cam) = 1 .. 1
      BY <2>3, GreyComps
    <3> QED
      BY <2>1, <3>1
  <2> QED
    BY <2>2, <2>3
<1>10. Agree(cam, d, E[0])
  <2>1. ASSUME NEW c \in DOMAIN d.pred PROVE d.pred[c] = E[0].pred[1 - c]
    <3>1. c \in 1 .. 3
      BY <1>9
    <3>2. 1 - c \in {0, -1, -2}
      BY <3>1
    <3>3. E[0].pred[1 - c] = 0
      BY <1>2, <3>2
    <3> QED
      BY <3>3 DEF Starts
  <2> QED
    BY <2>1 DEF Agree
<1> QED
  BY <1>8, <1>10 DEF Follows, Starts

\* Nothing starts again within an interval of n MCUs, the first being f.
Whole(p, f, n) == \A t \in 1 .. n - 1 : ~(p.restart > 0 /\ (f + t) % p.restart = 0)

Covers(cam, d, x, f, t) ==
  DOMAIN d.grid \subseteq DOMAIN x.grid
    /\ \A k \in 0 .. t - 1 : CellsOfMcu(cam, f + k) \subseteq DOMAIN x.grid

ReachedAt(s, cam, meant, p, W, f, t, e) ==
  \E x \in Walk(p) :
    /\ Follows(s, cam, meant, x, e) /\ Covers(cam, W[f], x, f, t)
    /\ t = 0 => W[f] = x
    /\ t > 0 => W[f + t] = AfterMcu(s.data, p, x, f + t - 1)

LEMMA CoversNext ==
  ASSUME NEW cam, NEW d, NEW x, NEW y, NEW f \in Nat, NEW t \in Nat, Covers(cam, d, x, f, t),
         DOMAIN y.grid = DOMAIN x.grid \cup CellsOfMcu(cam, f + t)
  PROVE  Covers(cam, d, y, f, t + 1)
<1>1. 0 .. (t + 1) - 1 = (0 .. t - 1) \cup {t}
  OBVIOUS
<1> QED
  BY <1>1 DEF Covers

LEMMA IntervalReads ==
  ASSUME NEW s, NEW E, NEW cam \in CameraFormat, NEW picture,
         NEW detail \in {"flat", "edge", "sharp"}, NEW mcus \in Seq(McusOfPicture(cam)),
         NEW data, NEW from \in Nat, InStream(s, E, cam, picture, detail, mcus, data, from),
         NEW p, Fitting(p, cam), NEW meant, Meaning(cam, picture, meant),
         NEW W, PictureWalk(W, data, p), NEW f \in Nat,
         f + Len(mcus) <= cam.cols * cam.rows, Whole(p, f, Len(mcus)),
         \A k \in 1 .. Len(mcus) : mcus[k] = f + k - 1,
         Starts(W[f], from), Right(W[f].grid, meant)
  PROVE  ReachedAt(s, cam, meant, p, W, f, Len(mcus), E[Len(IntervalBlocks(cam, mcus))])
<1>1. PICK B \in 1 .. 6 : McuSize(cam) = B
  BY FormatType
<1>2. PICK n \in Nat : Len(mcus) = n
  OBVIOUS
<1>3. PICK N \in Nat : cam.cols * cam.rows = N /\ p.cols * p.rows = N
  BY FormatType DEF Fitting
<1>4. f + n <= N
  BY <1>2, <1>3
<1>5. PICK blocks : IntervalBlocks(cam, mcus) = blocks
  OBVIOUS
<1>6. Len(blocks) = n * B
      /\ \A k \in 1 .. n : \A t \in 1 .. B : blocks[(k - 1) * B + t] = BlocksOf(cam, mcus[k])[t]
  BY <1>1, <1>2, <1>5, IntervalBlocksAre DEF Laid
<1>7. /\ \A k \in 0 .. N : W[k] \in Walk(p)
      /\ \A k \in 1 .. N : W[k] = WalkMcu(data, p, W[k - 1], k - 1)
  BY <1>3 DEF PictureWalk
<1>8. CarriesBlocks(s, E, picture, detail, AllBlocks(cam), blocks) /\ s.data = data
  BY <1>5 DEF InStream
<1> DEFINE S == {t \in Nat : t <= n => ReachedAt(s, cam, meant, p, W, f, t, E[t * B])}
<1>9. 0 \in S
  <2>1. W[f] \in Walk(p)
    <3>1. f \in 0 .. N
      BY <1>4
    <3> QED
      BY <1>7, <3>1
  <2>2. Follows(s, cam, meant, W[f], E[0])
    BY <2>1, StartFollows
  <2>3. Covers(cam, W[f], W[f], f, 0)
    BY DEF Covers
  <2>4. 0 * B = 0
    OBVIOUS
  <2>5. ReachedAt(s, cam, meant, p, W, f, 0, E[0])
    BY <2>1, <2>2, <2>3 DEF ReachedAt
  <2> QED
    BY <2>4, <2>5
<1>10. ASSUME NEW t \in Nat, t \in S PROVE t + 1 \in S
  <2> SUFFICES ASSUME t + 1 <= n PROVE ReachedAt(s, cam, meant, p, W, f, t + 1, E[(t + 1) * B])
    <3>1. t + 1 \in Nat
      OBVIOUS
    <3> QED
      BY <3>1, Zenon
  <2>1. t <= n /\ f + t \in 0 .. N /\ f + t < N /\ t + 1 \in 1 .. n
    BY <1>4
  <2>2. ReachedAt(s, cam, meant, p, W, f, t, E[t * B])
    BY <1>10, <2>1
  <2>3. PICK x \in Walk(p) :
          /\ Follows(s, cam, meant, x, E[t * B]) /\ Covers(cam, W[f], x, f, t)
          /\ t = 0 => W[f] = x
          /\ t > 0 => W[f + t] = AfterMcu(s.data, p, x, f + t - 1)
    BY <2>2 DEF ReachedAt
  <2>4. W[f + t] = x
    <3>1. CASE t = 0
      BY <2>3, <3>1
    <3>2. CASE t > 0
      <4>1. t \in 1 .. n - 1 /\ (f + t - 1) + 1 = f + t
        BY <2>1, <3>2
      <4>2. ~(p.restart > 0 /\ (f + t) % p.restart = 0)
        BY <1>2, <4>1 DEF Whole
      <4>3. AfterMcu(s.data, p, x, f + t - 1) = x
        BY <4>1, <4>2 DEF AfterMcu
      <4> QED
        BY <2>3, <3>2, <4>3
    <3> QED
      BY <3>1, <3>2
  <2>5. PICK j \in Nat : t * B = j /\ (t + 1) * B = j + B
    OBVIOUS
  <2>6. j + B <= Len(blocks)
    <3>1. (t + 1) * B <= n * B
      BY <2>1
    <3> QED
      BY <1>6, <2>5, <3>1
  <2>7. PICK mcu \in Nat : f + t = mcu
    OBVIOUS
  <2>8. mcus[t + 1] = mcu /\ mcu < cam.cols * cam.rows
    <3>1. mcus[t + 1] = f + (t + 1) - 1
      BY <1>2, <2>1
    <3> QED
      BY <1>3, <2>1, <2>7, <3>1
  <2>9. \A i \in 1 .. B : blocks[j + i] = BlocksOf(cam, mcu)[i]
    <3>1. \A i \in 1 .. B : blocks[((t + 1) - 1) * B + i] = BlocksOf(cam, mcus[t + 1])[i]
      BY <1>6, <2>1
    <3>2. ((t + 1) - 1) * B = j
      BY <2>5
    <3> QED
      BY <2>8, <3>1, <3>2
  <2>10. Follows(s, cam, meant, x, E[j])
    BY <2>3, <2>5
  <2>11. McuRead(s, cam, p, meant, x, mcu, E[j + B])
    <3>1. PICK m : McuSize(cam) = m /\ m = B
      BY <1>1
    <3>2. /\ j + McuSize(cam) <= Len(blocks)
          /\ \A i \in 1 .. McuSize(cam) : blocks[j + i] = BlocksOf(cam, mcu)[i]
      BY <2>6, <2>9, <3>1
    <3>3. McuRead(s, cam, p, meant, x, mcu, E[j + McuSize(cam)])
      BY <1>8, <2>8, <2>10, <3>2, McuReads
    <3> QED
      BY <3>1, <3>3
  <2>12. PICK y \in Walk(p) :
           /\ WalkMcu(data, p, x, mcu) = AfterMcu(data, p, y, mcu)
           /\ Follows(s, cam, meant, y, E[j + B])
           /\ DOMAIN y.grid = DOMAIN x.grid \cup CellsOfMcu(cam, mcu)
    BY <1>8, <2>11 DEF McuRead
  <2>13. Covers(cam, W[f], y, f, t + 1)
    BY <2>3, <2>7, <2>12, CoversNext
  <2>14. W[f + (t + 1)] = AfterMcu(s.data, p, y, f + (t + 1) - 1)
    <3>1. mcu + 1 \in 1 .. N /\ (mcu + 1) - 1 = mcu /\ f + (t + 1) = mcu + 1
          /\ f + (t + 1) - 1 = mcu
      BY <2>1, <2>7
    <3>2. W[mcu + 1] = WalkMcu(data, p, W[mcu], mcu)
      BY <1>7, <3>1
    <3> QED
      BY <1>8, <2>4, <2>7, <2>12, <3>1, <3>2
  <2>15. t + 1 > 0 /\ ~(t + 1 = 0)
    OBVIOUS
  <2>16. Follows(s, cam, meant, y, E[(t + 1) * B])
    BY <2>5, <2>12
  <2> QED
    BY <2>13, <2>14, <2>15, <2>16 DEF ReachedAt
<1> HIDE DEF S
<1>11. n \in S /\ n <= n
  <2>1. n \in Nat
    OBVIOUS
  <2>2. \A k \in Nat : k \in S
    BY <1>9, <1>10, Induction
  <2> QED
    BY <2>1, <2>2
<1> QED
  BY <1>2, <1>5, <1>6, <1>11 DEF S

-----------------------------------------------------------------------------
(* Restarts *)

Marked(data, e) == e + 1 <= Len(data) /\ data[e] = 255 /\ data[e + 1] \in 208 .. 215

\* At the end of an interval only the padding is left, and the marker is skipped.
LEMMA RestartStarts ==
  ASSUME NEW s, NEW E, NEW cam, NEW picture, NEW detail, NEW mcus, NEW data, IsData(data),
         NEW from \in Nat, InStream(s, E, cam, picture, detail, mcus, data, from),
         NEW p, NEW x \in Walk(p), NEW meant,
         Follows(s, cam, meant, x, E[Len(IntervalBlocks(cam, mcus))]),
         NEW e \in Nat, EndOf(s) = e, Marked(data, e)
  PROVE  Starts(Restart(data, x), e + 1) /\ Restart(data, x).grid = x.grid
<1>0. e + 1 <= Len(data) /\ data[e] = 255 /\ data[e + 1] \in 208 .. 215
  BY DEF Marked
<1>1. PICK code : E[Len(IntervalBlocks(cam, mcus))].bits = code
  OBVIOUS
<1>2. /\ Len(s.bits) < Len(code) + 8 /\ Carries(s)
  BY <1>1 DEF InStream, CarriesBlocks
<1>3. PICK r \in Reader : x.r = r
  BY DEF Walk
<1>4. x.go /\ Reading(s, r, Len(code))
  BY <1>1, <1>3 DEF Follows
<1>5. PICK k \in 0 .. s.n : Ahead(s, r, Len(code), k)
  BY <1>4 DEF Reading
<1>6. PICK a \in Nat : Len(code) = a
  BY <1>4 DEF Reading
<1>7. PICK n \in Nat : s.n = n /\ 8 * n < a + 8
  BY <1>2, <1>6 DEF Carries
<1>8. k = n
  <2>1. PICK l \in Nat : Len(r.buf) = l
    BY DEF Reader
  <2>2. a + l = 8 * k
    BY <1>5, <1>6, <2>1 DEF Ahead
  <2> QED
    BY <1>5, <1>7, <2>2
<1>9. r.pos = e
  <2>1. EndOf(s) # Len(s.data)
    <3>1. s.data = data /\ Len(data) \in Nat
      BY DEF InStream, IsData
    <3> QED
      BY <1>0, <3>1
  <2>2. r.pos = s.from + s.off[k] + 1
    BY <1>5, <2>1 DEF Ahead
  <2> QED
    BY <1>7, <1>8, <2>2 DEF EndOf
<1>10. 255 = FF /\ data[e + 1] \in RstMarkers
  BY <1>0, JpegNumbers, BaselineAssumption DEF BaselineAssumption
<1>11. Restart(data, x) = [x EXCEPT !.r = [pos |-> e + 2, buf |-> <<>>],
                                    !.pred = [c \in DOMAIN @ |-> 0]]
  BY <1>0, <1>3, <1>9, <1>10 DEF Restart
<1>12. PICK y : Restart(data, x) = y
  OBVIOUS
<1>13. /\ y.go = x.go /\ y.r = [pos |-> e + 2, buf |-> <<>>] /\ y.grid = x.grid
       /\ \A c \in DOMAIN y.pred : y.pred[c] = 0
  <2>1. PICK q : [c \in DOMAIN x.pred |-> 0] = q
    OBVIOUS
  <2>2. PICK z : [pos |-> e + 2, buf |-> <<>>] = z
    OBVIOUS
  <2>3. y = [x EXCEPT !.r = z, !.pred = q]
    BY <1>11, <1>12, <2>1, <2>2
  <2>4. \A c \in DOMAIN q : q[c] = 0
    BY <2>1
  <2>5. y.go = x.go /\ y.r = z /\ y.grid = x.grid /\ y.pred = q
    BY <2>3 DEF Walk
  <2> QED
    BY <2>2, <2>4, <2>5
<1>14. (e + 1) + 1 = e + 2
  OBVIOUS
<1> QED
  BY <1>4, <1>12, <1>13, <1>14 DEF Starts

\* Division with remainder, taken apart.
LEMMA DivModOf ==
  ASSUME NEW a \in Nat, NEW k \in Nat \ {0}, NEW b \in 0 .. k - 1
  PROVE  (a * k + b) \div k = a /\ (a * k + b) % k = b
<1>1. PICK m \in Nat : a * k = m
  OBVIOUS
<1>2. PICK x \in Nat : m + b = x
  OBVIOUS
<1>3. k * a = m /\ k * a <= x /\ x < k * a + k
  BY <1>1, <1>2
<1>4. x \div k = a
  BY <1>3, DivIs
<1>5. x = k * (x \div k) + (x % k) /\ x % k \in 0 .. k - 1
  OBVIOUS
<1>6. x % k = b
  <2>1. PICK d \in 0 .. k - 1 : x % k = d
    BY <1>5
  <2>2. x = k * a + d
    BY <1>4, <1>5, <2>1
  <2> QED
    BY <1>2, <1>3, <2>1, <2>2
<1> QED
  BY <1>1, <1>2, <1>4, <1>6

\* n divided by m, rounded up.
LEMMA UpDiv ==
  ASSUME NEW n \in Nat \ {0}, NEW m \in Nat \ {0}
  PROVE  \E c \in Nat \ {0} : (n + m - 1) \div m = c /\ n <= c * m /\ (c - 1) * m < n
<1>1. PICK x \in Nat : n + m - 1 = x
  OBVIOUS
<1>2. PICK c \in Nat, d \in 0 .. m - 1 : x \div m = c /\ x % m = d /\ x = m * c + d
  <2>1. x \div m \in Nat /\ x % m \in 0 .. m - 1 /\ x = m * (x \div m) + (x % m)
    OBVIOUS
  <2> QED
    BY <2>1
<1>3. PICK y \in Nat : m * c = y /\ c * m = y /\ (c - 1) * m = y - m
  OBVIOUS
<1>4. n <= y /\ y - m < n /\ x = y + d
  BY <1>1, <1>2, <1>3
<1>5. c # 0
  <2> SUFFICES ASSUME c = 0 PROVE FALSE
    OBVIOUS
  <2>1. y = 0
    BY <1>3
  <2> QED
    BY <1>4, <2>1
<1> QED
  BY <1>1, <1>2, <1>3, <1>4, <1>5

-----------------------------------------------------------------------------
(* The intervals of a picture *)

\* The n MCUs of a picture are in c intervals of m, the last one of what is left.
LastOf(n, m, i) == IF i * m > n THEN n - (i - 1) * m ELSE m

Divided(cam, n, m, c) ==
  /\ cam.cols * cam.rows = n /\ m = (IF cam.restart = 0 THEN n ELSE cam.restart)
  /\ n <= c * m /\ (c - 1) * m < n /\ (cam.restart = 0 => c = 1)
  /\ DOMAIN Intervals(cam) = 1 .. c /\ Len(Intervals(cam)) = c
  /\ \A i \in 1 .. c :
       /\ Intervals(cam)[i] \in Seq(McusOfPicture(cam))
       /\ Len(Intervals(cam)[i]) = LastOf(n, m, i)
       /\ \A k \in 1 .. LastOf(n, m, i) : Intervals(cam)[i][k] = (i - 1) * m + k - 1

LEMMA LastIs ==
  ASSUME NEW n \in Nat \ {0}, NEW m \in Nat \ {0}, NEW c \in Nat \ {0}, (c - 1) * m < n,
         NEW i \in 1 .. c
  PROVE  /\ LastOf(n, m, i) \in 1 .. m /\ (i - 1) * m \in Nat
         /\ (i - 1) * m + LastOf(n, m, i) <= n
         /\ i < c => LastOf(n, m, i) = m /\ i * m < n
<1>1. PICK y \in Nat : (i - 1) * m = y /\ i * m = y + m
  OBVIOUS
<1>2. PICK z \in Nat : (c - 1) * m = z
  OBVIOUS
<1>3. y <= z
  BY <1>1, <1>2
<1>4. i < c => y + m <= z
  <2> SUFFICES ASSUME i < c PROVE y + m <= z
    OBVIOUS
  <2>1. i * m <= (c - 1) * m
    OBVIOUS
  <2> QED
    BY <1>1, <1>2, <2>1
<1>5. z < n
  BY <1>2
<1>6. LastOf(n, m, i) = IF y + m > n THEN n - y ELSE m
  BY <1>1 DEF LastOf
<1>7. LastOf(n, m, i) \in 1 .. m
  BY <1>3, <1>5, <1>6
<1>8. y + LastOf(n, m, i) <= n
  BY <1>3, <1>5, <1>6
<1>9. i < c => LastOf(n, m, i) = m
  BY <1>4, <1>5, <1>6
<1>10. i < c => y + m < n
  BY <1>4, <1>5
<1> QED
  BY <1>1, <1>7, <1>8, <1>9, <1>10

LEMMA IntervalsAre ==
  ASSUME NEW cam \in CameraFormat
  PROVE  \E n \in Nat \ {0}, m \in Nat \ {0}, c \in Nat \ {0} : Divided(cam, n, m, c)
<1>1. PICK n \in Nat \ {0} : cam.cols * cam.rows = n
  BY FormatType
<1>2. PICK m \in Nat \ {0} : (IF cam.restart = 0 THEN n ELSE cam.restart) = m
  BY FormatType
<1>3. PICK c \in Nat \ {0} : (n + m - 1) \div m = c /\ n <= c * m /\ (c - 1) * m < n
  BY UpDiv
<1>4. cam.restart = 0 => c = 1
  <2> SUFFICES ASSUME cam.restart = 0 PROVE c = 1
    OBVIOUS
  <2>1. m = n
    BY <1>2
  <2>2. (c - 1) * n < n
    BY <1>3, <2>1
  <2>3. ~(c - 1 >= 1)
    <3> SUFFICES ASSUME c - 1 >= 1 PROVE FALSE
      OBVIOUS
    <3>1. (c - 1) * n >= 1 * n
      OBVIOUS
    <3> QED
      BY <2>2, <3>1
  <2> QED
    BY <2>3
<1>5. Intervals(cam) =
        [i \in 1 .. c |-> [k \in 1 .. LastOf(n, m, i) |-> (i - 1) * m + k - 1]]
  BY <1>1, <1>2, <1>3 DEF Intervals, LastOf
<1>6. DOMAIN Intervals(cam) = 1 .. c /\ Len(Intervals(cam)) = c
  BY <1>5
<1>7. ASSUME NEW i \in 1 .. c
      PROVE  /\ Intervals(cam)[i] \in Seq(McusOfPicture(cam))
             /\ Len(Intervals(cam)[i]) = LastOf(n, m, i)
             /\ \A k \in 1 .. LastOf(n, m, i) : Intervals(cam)[i][k] = (i - 1) * m + k - 1
  <2>1. PICK l \in Nat : LastOf(n, m, i) = l /\ (i - 1) * m + l <= n
    <3>1. LastOf(n, m, i) \in 1 .. m /\ (i - 1) * m + LastOf(n, m, i) <= n
      BY <1>3, LastIs
    <3> QED
      BY <3>1
  <2>2. PICK y \in Nat : (i - 1) * m = y
    OBVIOUS
  <2>3. Intervals(cam)[i] = [k \in 1 .. l |-> y + k - 1]
    BY <1>5, <2>1, <2>2
  <2>4. \A k \in 1 .. l : y + k - 1 \in McusOfPicture(cam)
    BY <1>1, <2>1, <2>2 DEF McusOfPicture
  <2> QED
    BY <2>1, <2>2, <2>3, <2>4
<1>8. Divided(cam, n, m, c)
  <2>1. m = (IF cam.restart = 0 THEN n ELSE cam.restart)
    BY <1>2
  <2> QED
    BY <1>1, <1>3, <1>4, <1>6, <1>7, <2>1, Zenon DEF Divided
<1> QED
  BY <1>8

\* Within an interval nothing starts again.
LEMMA IntervalIsWhole ==
  ASSUME NEW cam \in CameraFormat, NEW p, Fitting(p, cam),
         NEW n \in Nat \ {0}, NEW m \in Nat \ {0}, NEW c \in Nat \ {0}, Divided(cam, n, m, c),
         NEW i \in 1 .. c
  PROVE  Whole(p, (i - 1) * m, LastOf(n, m, i))
<1>1. ASSUME NEW t \in 1 .. LastOf(n, m, i) - 1, p.restart > 0
      PROVE  ((i - 1) * m + t) % p.restart # 0
  <2>1. p.restart = m
    BY <1>1 DEF Fitting, Divided
  <2>2. t \in 1 .. m - 1
    <3>1. LastOf(n, m, i) \in 1 .. m
      BY LastIs DEF Divided
    <3> QED
      BY <3>1
  <2>3. i - 1 \in Nat /\ t \in 0 .. m - 1
    BY <2>2
  <2>4. ((i - 1) * m + t) % m = t
    BY <2>3, DivModOf
  <2> QED
    BY <2>1, <2>2, <2>4
<1> QED
  BY <1>1 DEF Whole

\* Where the intervals are in the scan; off[i] is behind the marker of the i-th.
BytesOf(cam, picture, detail, i) == IntervalBytes(cam, picture, detail, Intervals(cam)[i])

Marker(i, c) == IF i < c THEN <<255, 208 + ((i - 1) % 8)>> ELSE <<255, 217>>

PieceLaid(scan, ib, a, b, i, c) ==
  /\ ib \in Seq(0 .. 255) /\ b = (a + Len(ib)) + 2
  /\ \A k \in 1 .. Len(ib) : scan[a + k] = ib[k]
  /\ scan[(a + Len(ib)) + 1] = 255
  /\ i < c => scan[(a + Len(ib)) + 2] \in 208 .. 215
  /\ ~(i < c) => scan[(a + Len(ib)) + 2] = 217

ScanLaid(cam, picture, detail, scan, off, c) ==
  /\ off \in [0 .. c -> Nat] /\ off[0] = 0 /\ Len(scan) = off[c]
  /\ \A i \in 1 .. c :
       PieceLaid(scan, BytesOf(cam, picture, detail, i), off[i - 1], off[i], i, c)

LEMMA IntervalBytesType ==
  ASSUME NEW cam \in CameraFormat, NEW picture, \A i \in CellsIn(cam) : picture[i] \in Levels,
         NEW detail \in {"flat", "edge", "sharp"}, NEW mcus \in Seq(McusOfPicture(cam))
  PROVE  IntervalBytes(cam, picture, detail, mcus) \in Seq(0 .. 255)
<1>1. PICK blocks : IntervalBlocks(cam, mcus) = blocks
  OBVIOUS
<1>2. blocks \in Seq(AllBlocks(cam)) /\ CanCode(picture, AllBlocks(cam))
  BY <1>1, IntervalBlocksAre, PictureCodes DEF Laid
<1>3. PICK E : EncRun(E, picture, detail, blocks)
  BY <1>2, EncoderRuns
<1>4. Encoded(picture, detail, blocks).bits \in Seq({0, 1})
  <2>1. Len(blocks) \in 0 .. Len(blocks)
    BY <1>2
  <2>2. Encoded(picture, detail, blocks) \in EncState
    BY <1>3, <2>1 DEF EncRun
  <2> QED
    BY <2>2 DEF EncState
<1>5. PICK bits : IntervalBits(cam, picture, detail, mcus) = bits
  OBVIOUS
<1>6. bits \in Seq({0, 1}) /\ \E n \in Nat : Len(bits) = 8 * n
  BY <1>1, <1>4, <1>5, PaddedIs DEF IntervalBits
<1>7. Stuffed(Bytes(bits)) \in Seq(0 .. 255)
  BY <1>6, StuffedIs
<1> QED
  BY <1>5, <1>7, IntervalBytesAre

LEMMA MarkerIs ==
  ASSUME NEW i \in Nat \ {0}, NEW c
  PROVE  /\ Marker(i, c) \in Seq(0 .. 255) /\ Len(Marker(i, c)) = 2 /\ Marker(i, c)[1] = 255
         /\ i < c => Marker(i, c)[2] \in 208 .. 215
         /\ ~(i < c) => Marker(i, c)[2] = 217
<1>1. PICK k \in 208 .. 215 : 208 + ((i - 1) % 8) = k
  <2>1. (i - 1) % 8 \in 0 .. 7
    OBVIOUS
  <2> QED
    BY <2>1
<1>2. CASE i < c
  <2>1. Marker(i, c) = <<255, k>>
    BY <1>1, <1>2 DEF Marker
  <2> QED
    BY <1>2, <2>1
<1>3. CASE ~(i < c)
  <2>1. Marker(i, c) = <<255, 217>>
    BY <1>3 DEF Marker
  <2> QED
    BY <1>3, <2>1
<1> QED
  BY <1>2, <1>3

Piece(cam, picture, detail, i, c) == BytesOf(cam, picture, detail, i) \o Marker(i, c)

PieceHas(q, ib, i, c) ==
  /\ q \in Seq(0 .. 255) /\ Len(q) = Len(ib) + 2 /\ \A k \in 1 .. Len(ib) : q[k] = ib[k]
  /\ q[Len(ib) + 1] = 255
  /\ i < c => q[Len(ib) + 2] \in 208 .. 215
  /\ ~(i < c) => q[Len(ib) + 2] = 217

LEMMA PieceIs ==
  ASSUME NEW cam, NEW picture, NEW detail, NEW i \in Nat \ {0}, NEW c,
         NEW ib \in Seq(0 .. 255), BytesOf(cam, picture, detail, i) = ib
  PROVE  PieceHas(Piece(cam, picture, detail, i, c), ib, i, c)
<1>1. PICK S : S = 0 .. 255
  OBVIOUS
<1>2. PICK mk : Marker(i, c) = mk
  OBVIOUS
<1>3. /\ mk \in Seq(S) /\ Len(mk) = 2 /\ mk[1] = 255
      /\ i < c => mk[2] \in 208 .. 215
      /\ ~(i < c) => mk[2] = 217
  BY <1>1, <1>2, MarkerIs
<1>4. ib \in Seq(S) /\ mk \in Seq(S)
  BY <1>1, <1>3
<1>5. /\ ib \o mk \in Seq(S) /\ Len(ib \o mk) = Len(ib) + Len(mk)
      /\ \A k \in 1 .. Len(ib) : (ib \o mk)[k] = ib[k]
      /\ \A k \in 1 .. Len(mk) : (ib \o mk)[Len(ib) + k] = mk[k]
  BY <1>4, ConcatIs
<1>6. PICK z : ib \o mk = z
  OBVIOUS
<1>7. Piece(cam, picture, detail, i, c) = z
  BY <1>2, <1>6 DEF Piece
<1>8. 1 \in 1 .. Len(mk) /\ 2 \in 1 .. Len(mk)
  BY <1>3
<1>9. z[Len(ib) + 1] = mk[1] /\ z[Len(ib) + 2] = mk[2]
  BY <1>5, <1>6, <1>8
<1> QED
  BY <1>1, <1>3, <1>5, <1>6, <1>7, <1>9 DEF PieceHas

LEMMA ScanIsLaid ==
  ASSUME NEW cam \in CameraFormat, NEW picture, \A i \in CellsIn(cam) : picture[i] \in Levels,
         NEW detail \in {"flat", "edge", "sharp"},
         NEW n \in Nat \ {0}, NEW m \in Nat \ {0}, NEW c \in Nat \ {0}, Divided(cam, n, m, c)
  PROVE  \E off : ScanLaid(cam, picture, detail, ScanBytes(cam, picture, detail), off, c)
<1>1. PICK S : S = 0 .. 255
  OBVIOUS
<1>2. DOMAIN Intervals(cam) = 1 .. c /\ Len(Intervals(cam)) = c
  BY DEF Divided
<1> DEFINE seqs == [i \in 1 .. c |-> Piece(cam, picture, detail, i, c)]
<1>3. \A i \in 1 .. c : BytesOf(cam, picture, detail, i) \in Seq(S)
  <2> TAKE i \in 1 .. c
  <2>1. Intervals(cam)[i] \in Seq(McusOfPicture(cam))
    BY DEF Divided
  <2> QED
    BY <1>1, <2>1, IntervalBytesType DEF BytesOf
<1>4. ASSUME NEW i \in 1 .. c
      PROVE  PieceHas(seqs[i], BytesOf(cam, picture, detail, i), i, c)
  <2>1. PICK ib \in Seq(0 .. 255) : BytesOf(cam, picture, detail, i) = ib
    BY <1>1, <1>3
  <2>2. seqs[i] = Piece(cam, picture, detail, i, c) /\ i \in Nat \ {0}
    OBVIOUS
  <2> HIDE DEF seqs
  <2>3. PieceHas(Piece(cam, picture, detail, i, c), ib, i, c)
    BY <2>1, <2>2, PieceIs
  <2> QED
    BY <2>1, <2>2, <2>3
<1>5. FlattenSeq(seqs) = ScanBytes(cam, picture, detail)
  BY <1>2 DEF ScanBytes, Piece, BytesOf, Marker
<1>6. Len(seqs) = c
  OBVIOUS
<1>7. seqs \in Seq(Seq(S))
  <2>1. \A i \in 1 .. c : Piece(cam, picture, detail, i, c) \in Seq(S)
    BY <1>1, <1>4 DEF PieceHas
  <2> QED
    BY <2>1
<1> HIDE DEF seqs
<1>8. PICK scan : FlattenSeq(seqs) = scan
  OBVIOUS
<1>9. PICK off : Located(scan, off, seqs)
  BY <1>7, <1>8, FlattenLocates
<1>10. off \in [0 .. c -> Nat] /\ off[0] = 0 /\ Len(scan) = off[c]
  BY <1>6, <1>9 DEF Located, Offsets
<1>11. ASSUME NEW i \in 1 .. c
       PROVE  PieceLaid(scan, BytesOf(cam, picture, detail, i), off[i - 1], off[i], i, c)
  <2>1. PICK ib \in Seq(0 .. 255) : BytesOf(cam, picture, detail, i) = ib
    BY <1>1, <1>3
  <2>2. PICK l \in Nat : Len(ib) = l
    OBVIOUS
  <2>3. PICK q : seqs[i] = q
    OBVIOUS
  <2>4. /\ Len(q) = l + 2 /\ \A k \in 1 .. l : q[k] = ib[k]
        /\ q[l + 1] = 255
        /\ i < c => q[l + 2] \in 208 .. 215
        /\ ~(i < c) => q[l + 2] = 217
    <3>1. PieceHas(seqs[i], BytesOf(cam, picture, detail, i), i, c)
      BY <1>4
    <3>2. PieceHas(q, ib, i, c)
      BY <2>1, <2>3, <3>1
    <3> QED
      BY <2>2, <3>2 DEF PieceHas
  <2>5. PICK o \in Nat : off[i - 1] = o
    <3>1. i - 1 \in 0 .. c
      OBVIOUS
    <3> QED
      BY <1>10, <3>1
  <2>6. off[i] = o + l + 2 /\ \A k \in 1 .. l + 2 : scan[o + k] = q[k]
    <3>1. /\ off[i] = off[i - 1] + Len(seqs[i])
          /\ \A k \in 1 .. Len(seqs[i]) : scan[off[i - 1] + k] = seqs[i][k]
      BY <1>6, <1>9 DEF Located, Offsets
    <3> QED
      BY <2>3, <2>4, <2>5, <3>1
  <2>7. l + 1 \in 1 .. l + 2 /\ l + 2 \in 1 .. l + 2 /\ \A k \in 1 .. l : k \in 1 .. l + 2
    OBVIOUS
  <2>8. /\ scan[o + (l + 1)] = 255
        /\ i < c => scan[o + (l + 2)] \in 208 .. 215
        /\ ~(i < c) => scan[o + (l + 2)] = 217
    BY <2>4, <2>6, <2>7
  <2>9. \A k \in 1 .. l : scan[o + k] = ib[k]
    BY <2>4, <2>6, <2>7
  <2>10. o + (l + 1) = (o + l) + 1 /\ o + (l + 2) = (o + l) + 2
    OBVIOUS
  <2> QED
    <3>1. off[i] = (o + l) + 2
      BY <2>6
    <3>2. PieceLaid(scan, ib, o, off[i], i, c)
      BY <2>2, <2>8, <2>9, <2>10, <3>1 DEF PieceLaid
    <3> QED
      BY <2>1, <2>5, <3>2
<1>12. ScanLaid(cam, picture, detail, scan, off, c)
  BY <1>10, <1>11 DEF ScanLaid
<1> QED
  BY <1>5, <1>8, <1>12

-----------------------------------------------------------------------------
(* The walk over what has arrived *)

\* An interval that has arrived is in the data, with what follows it.
LEMMA IntervalHeld ==
  ASSUME NEW cam, NEW picture, NEW detail, NEW scan, NEW off, NEW c \in Nat \ {0},
         ScanLaid(cam, picture, detail, scan, off, c), NEW data, IsData(data), Begins(data, scan),
         NEW i \in 1 .. c, off[i] - 2 <= Len(data)
  PROVE  /\ off[i - 1] \in Nat
         /\ off[i] = off[i - 1] + Len(BytesOf(cam, picture, detail, i)) + 2
         /\ Holds(data, off[i - 1], BytesOf(cam, picture, detail, i))
         /\ MarkerAt(data, off[i - 1] + Len(BytesOf(cam, picture, detail, i)) + 1)
         /\ i < c /\ off[i] <= Len(data) =>
              data[off[i] - 1] = 255 /\ data[off[i]] \in 208 .. 215
<1>1. PICK ib \in Seq(0 .. 255) : BytesOf(cam, picture, detail, i) = ib
  BY DEF ScanLaid, PieceLaid
<1>2. PICK l \in Nat : Len(ib) = l
  OBVIOUS
<1>3. PICK o \in Nat : off[i - 1] = o
  <2>1. i - 1 \in 0 .. c
    OBVIOUS
  <2> QED
    BY <2>1 DEF ScanLaid
<1>4. PICK d \in Nat : Len(data) = d
  BY DEF IsData
<1>5. /\ off[i] = (o + l) + 2 /\ \A k \in 1 .. l : scan[o + k] = ib[k]
      /\ scan[(o + l) + 1] = 255
      /\ i < c => scan[(o + l) + 2] \in 208 .. 215
      /\ ~(i < c) => scan[(o + l) + 2] = 217
  <2>1. PieceLaid(scan, BytesOf(cam, picture, detail, i), off[i - 1], off[i], i, c)
    BY DEF ScanLaid
  <2>2. PieceLaid(scan, ib, o, off[i], i, c)
    BY <1>1, <1>3, <2>1
  <2> QED
    BY <1>2, <2>2 DEF PieceLaid
<1>6. \A k \in 1 .. d : data[k] = scan[k]
  BY <1>4 DEF Begins
<1>7. o + l <= d
  BY <1>4, <1>5
<1>8. \A k \in 1 .. l : data[o + k] = ib[k]
  <2> TAKE k \in 1 .. l
  <2>1. o + k \in 1 .. d
    BY <1>7
  <2> QED
    BY <1>5, <1>6, <2>1
<1>9. Holds(data, o, ib)
  BY <1>2, <1>4, <1>7, <1>8 DEF Holds
<1>10. (o + l) + 1 <= d => data[(o + l) + 1] = 255
  <2> SUFFICES ASSUME (o + l) + 1 <= d PROVE data[(o + l) + 1] = 255
    OBVIOUS
  <2>1. (o + l) + 1 \in 1 .. d
    OBVIOUS
  <2> QED
    BY <1>5, <1>6, <2>1
<1>11. (o + l) + 2 <= d => data[(o + l) + 2] = scan[(o + l) + 2]
  <2> SUFFICES ASSUME (o + l) + 2 <= d PROVE data[(o + l) + 2] = scan[(o + l) + 2]
    OBVIOUS
  <2>1. (o + l) + 2 \in 1 .. d
    OBVIOUS
  <2> QED
    BY <1>6, <2>1
<1>12. MarkerAt(data, (o + l) + 1)
  <2>1. CASE (o + l) + 1 > d
    BY <1>4, <2>1 DEF MarkerAt
  <2>2. CASE (o + l) + 1 = d
    BY <1>4, <1>10, <2>2 DEF MarkerAt
  <2>3. CASE (o + l) + 2 <= d
    <3>1. data[(o + l) + 1] = 255
      BY <1>10, <2>3
    <3>2. scan[(o + l) + 2] \in 208 .. 217
      BY <1>5
    <3>3. data[(o + l) + 2] # 0
      BY <1>11, <2>3, <3>2
    <3>4. ((o + l) + 1) + 1 = (o + l) + 2
      OBVIOUS
    <3> QED
      BY <1>4, <3>1, <3>3, <3>4 DEF MarkerAt
  <2> QED
    BY <2>1, <2>2, <2>3
<1>13. i < c /\ off[i] <= d => data[off[i] - 1] = 255 /\ data[off[i]] \in 208 .. 215
  <2> SUFFICES ASSUME i < c, off[i] <= d
               PROVE  data[off[i] - 1] = 255 /\ data[off[i]] \in 208 .. 215
    OBVIOUS
  <2>1. (o + l) + 2 <= d /\ (o + l) + 1 <= d /\ off[i] - 1 = (o + l) + 1
    BY <1>5
  <2> QED
    BY <1>5, <1>10, <1>11, <2>1
<1> QED
  BY <1>1, <1>2, <1>3, <1>4, <1>5, <1>9, <1>12, <1>13

\* The walk over what has arrived of a frame of a camera.
Arrives(cam, p, n, m, c, picture, meant, detail, off, data, W) ==
  /\ cam \in CameraFormat /\ Fitting(p, cam) /\ Meaning(cam, picture, meant)
  /\ n \in Nat \ {0} /\ m \in Nat \ {0} /\ c \in Nat \ {0} /\ Divided(cam, n, m, c)
  /\ detail \in {"flat", "edge", "sharp"}
  /\ \E scan : ScanLaid(cam, picture, detail, scan, off, c) /\ Begins(data, scan)
  /\ IsData(data) /\ PictureWalk(W, data, p)
  /\ Starts(W[0], 0) /\ DOMAIN W[0].grid = {}

IntervalDone(cam, meant, W, f, l) == Right(W[f + l].grid, meant) /\ Covers(cam, W[f], W[f + l], f, l)

LEMMA AfterKeepsGrid ==
  ASSUME NEW data, NEW p, NEW x \in Walk(p), NEW mcu
  PROVE  AfterMcu(data, p, x, mcu).grid = x.grid
BY DEF AfterMcu, Restart, Walk

LEMMA IntervalStep ==
  ASSUME NEW cam, NEW p, NEW n, NEW m, NEW c, NEW picture, NEW meant, NEW detail, NEW off,
         NEW data, NEW W, Arrives(cam, p, n, m, c, picture, meant, detail, off, data, W),
         NEW i \in 1 .. c, off[i] - 2 <= Len(data),
         NEW f, (i - 1) * m = f, NEW l, LastOf(n, m, i) = l,
         Starts(W[f], off[i - 1]), Right(W[f].grid, meant)
  PROVE  /\ IntervalDone(cam, meant, W, f, l)
         /\ i < c /\ off[i] <= Len(data) => Starts(W[f + l], off[i])
<1>1. /\ cam \in CameraFormat /\ Fitting(p, cam) /\ Meaning(cam, picture, meant)
      /\ n \in Nat \ {0} /\ m \in Nat \ {0} /\ c \in Nat \ {0} /\ Divided(cam, n, m, c)
      /\ detail \in {"flat", "edge", "sharp"} /\ IsData(data) /\ PictureWalk(W, data, p)
  BY DEF Arrives
<1>2. /\ l \in 1 .. m /\ f \in Nat /\ f + l <= n /\ (i < c => l = m)
  <2>1. (c - 1) * m < n
    BY <1>1 DEF Divided
  <2>2. /\ LastOf(n, m, i) \in 1 .. m /\ (i - 1) * m \in Nat
        /\ (i - 1) * m + LastOf(n, m, i) <= n
        /\ i < c => LastOf(n, m, i) = m
    BY <1>1, <2>1, LastIs
  <2> QED
    BY <2>2
<1>3. PICK ib : BytesOf(cam, picture, detail, i) = ib
  OBVIOUS
<1>4. PICK o \in Nat : off[i - 1] = o
  BY <1>1, IntervalHeld DEF Arrives
<1>5. /\ off[i] = o + Len(ib) + 2 /\ Holds(data, o, ib) /\ MarkerAt(data, o + Len(ib) + 1)
      /\ i < c /\ off[i] <= Len(data) =>
           data[off[i] - 1] = 255 /\ data[off[i]] \in 208 .. 215
  BY <1>1, <1>3, <1>4, IntervalHeld DEF Arrives
<1>6. PICK mcus : Intervals(cam)[i] = mcus
  OBVIOUS
<1>7. /\ mcus \in Seq(McusOfPicture(cam)) /\ Len(mcus) = l
      /\ \A k \in 1 .. l : mcus[k] = f + k - 1
  BY <1>1, <1>6 DEF Divided
<1>8. IntervalBytes(cam, picture, detail, mcus) = ib
  BY <1>3, <1>6 DEF BytesOf
<1>9. \A k \in CellsIn(cam) : picture[k] \in Levels
  BY <1>1 DEF Meaning
<1>10. PICK s, E : InStream(s, E, cam, picture, detail, mcus, data, o)
  BY <1>1, <1>5, <1>7, <1>8, <1>9, IntervalCarried
<1>11. PICK e : E[Len(IntervalBlocks(cam, mcus))] = e
  OBVIOUS
<1>12. Whole(p, f, l)
  BY <1>1, IntervalIsWhole
<1>13. f + Len(mcus) <= cam.cols * cam.rows
  BY <1>1, <1>2, <1>7 DEF Divided
<1>14. Starts(W[f], o)
  BY <1>4
<1>15. ReachedAt(s, cam, meant, p, W, f, l, e)
  BY <1>1, <1>2, <1>7, <1>10, <1>11, <1>12, <1>13, <1>14, IntervalReads
<1>16. PICK x \in Walk(p) :
         /\ Follows(s, cam, meant, x, e) /\ Covers(cam, W[f], x, f, l)
         /\ l > 0 => W[f + l] = AfterMcu(s.data, p, x, f + l - 1)
  BY <1>15 DEF ReachedAt
<1>17. W[f + l] = AfterMcu(data, p, x, f + l - 1)
  BY <1>2, <1>10, <1>16 DEF InStream
<1>18. W[f + l].grid = x.grid
  BY <1>17, AfterKeepsGrid
<1>19. IntervalDone(cam, meant, W, f, l)
  BY <1>16, <1>18 DEF IntervalDone, Follows, Covers
<1>20. ASSUME i < c, off[i] <= Len(data) PROVE Starts(W[f + l], off[i])
  <2>1. l = m /\ p.restart = m /\ cam.restart # 0
    BY <1>1, <1>2, <1>20 DEF Divided, Fitting
  <2>2. f + l = i * m
    BY <1>1, <2>1
  <2>3. (f + l) % p.restart = 0
    <3>1. (i * m + 0) % m = 0
      BY <1>1, DivModOf
    <3>2. PICK y \in Nat : i * m = y
      BY <1>1
    <3> QED
      BY <2>1, <2>2, <3>1, <3>2
  <2>4. x.go
    BY <1>16 DEF Follows
  <2>5. (f + l - 1) + 1 = f + l /\ p.restart > 0
    BY <1>1, <1>2, <2>1
  <2>6. W[f + l] = Restart(data, x)
    BY <1>17, <2>3, <2>4, <2>5 DEF AfterMcu
  <2>7. PICK a \in Nat : EndOf(s) = a /\ a + 1 = off[i] /\ a = off[i] - 1
    <3>1. PICK k \in Nat : Len(ib) = k
      BY <1>5 DEF Holds
    <3>2. EndOf(s) = o + k + 1
      BY <1>8, <1>10, <3>1 DEF InStream
    <3> QED
      BY <1>5, <3>1, <3>2
  <2>8. a + 1 <= Len(data) /\ data[a] = 255 /\ data[a + 1] \in 208 .. 215
    BY <1>5, <1>20, <2>7
  <2>9. Starts(Restart(data, x), a + 1)
    <3>1. Follows(s, cam, meant, x, E[Len(IntervalBlocks(cam, mcus))])
      BY <1>11, <1>16
    <3>2. IsData(data) /\ EndOf(s) = a /\ Marked(data, a)
      BY <1>1, <2>7, <2>8 DEF Marked
    <3> QED
      BY <1>10, <3>1, <3>2, RestartStarts
  <2> QED
    BY <2>6, <2>7, <2>9
<1> QED
  BY <1>19, <1>20

\* Of two intervals that have arrived, the marker of the first has too.
LEMMA OffsGrow ==
  ASSUME NEW cam, NEW picture, NEW detail, NEW scan, NEW off, NEW c \in Nat,
         ScanLaid(cam, picture, detail, scan, off, c), NEW i \in 0 .. c, NEW j \in 0 .. c, i < j
  PROVE  off[i] + 2 <= off[j]
<1>1. \A k \in 0 .. c : off[k] \in Nat
  BY DEF ScanLaid
<1>2. ASSUME NEW k \in 1 .. c PROVE off[k - 1] + 2 <= off[k]
  <2>1. PICK a \in Nat : off[k - 1] = a
    <3>1. k - 1 \in 0 .. c
      OBVIOUS
    <3> QED
      BY <1>1, <3>1
  <2>2. PICK ib \in Seq(0 .. 255) : PieceLaid(scan, ib, a, off[k], k, c)
    <3>1. PieceLaid(scan, BytesOf(cam, picture, detail, k), off[k - 1], off[k], k, c)
      BY DEF ScanLaid
    <3>2. BytesOf(cam, picture, detail, k) \in Seq(0 .. 255)
      BY <3>1 DEF PieceLaid
    <3> QED
      BY <2>1, <3>1, <3>2
  <2>3. off[k] = (a + Len(ib)) + 2
    BY <2>2 DEF PieceLaid
  <2> QED
    BY <2>1, <2>3
<1> DEFINE S == {k \in Nat : i + 1 + k <= c => off[i] + 2 <= off[i + 1 + k]}
<1>3. 0 \in S
  <2> SUFFICES ASSUME i + 1 <= c PROVE off[i] + 2 <= off[i + 1]
    <3>1. i + 1 + 0 = i + 1
      OBVIOUS
    <3> QED
      BY <3>1
  <2>1. i + 1 \in 1 .. c /\ (i + 1) - 1 = i
    OBVIOUS
  <2> QED
    BY <1>2, <2>1
<1>4. ASSUME NEW k \in Nat, k \in S PROVE k + 1 \in S
  <2> SUFFICES ASSUME i + 1 + (k + 1) <= c PROVE off[i] + 2 <= off[i + 1 + (k + 1)]
    OBVIOUS
  <2>1. PICK x \in 1 .. c : i + 1 + (k + 1) = x /\ x - 1 = i + 1 + k /\ x - 1 \in 0 .. c
    OBVIOUS
  <2>2. off[i] + 2 <= off[x - 1]
    BY <1>4, <2>1
  <2>3. off[x - 1] + 2 <= off[x]
    BY <1>2
  <2>4. off[i] \in Nat /\ off[x - 1] \in Nat /\ off[x] \in Nat
    BY <1>1, <2>1
  <2> QED
    BY <2>1, <2>2, <2>3, <2>4
<1> HIDE DEF S
<1>5. \A k \in Nat : k \in S
  BY <1>3, <1>4, Induction
<1>6. j - (i + 1) \in S
  <2>1. j - (i + 1) \in Nat
    OBVIOUS
  <2> QED
    BY <1>5, <2>1
<1>7. i + 1 + (j - (i + 1)) = j
  OBVIOUS
<1> QED
  BY <1>6, <1>7 DEF S

\* All of the first mcus MCUs are in the grid, as they were meant.
AllRight(cam, meant, d, mcus) ==
  Right(d.grid, meant) /\ \A mcu \in 0 .. mcus - 1 : CellsOfMcu(cam, mcu) \subseteq DOMAIN d.grid

LEMMA AllRightOn ==
  ASSUME NEW cam, NEW meant, NEW W, NEW f \in Nat, NEW l \in Nat,
         AllRight(cam, meant, W[f], f), IntervalDone(cam, meant, W, f, l)
  PROVE  AllRight(cam, meant, W[f + l], f + l)
<1>1. Right(W[f + l].grid, meant) /\ Covers(cam, W[f], W[f + l], f, l)
  BY DEF IntervalDone
<1>2. ASSUME NEW mcu \in 0 .. (f + l) - 1
      PROVE  CellsOfMcu(cam, mcu) \subseteq DOMAIN W[f + l].grid
  <2>1. CASE mcu < f
    <3>1. mcu \in 0 .. f - 1
      BY <2>1
    <3> QED
      BY <1>1, <3>1 DEF AllRight, Covers
  <2>2. CASE mcu >= f
    <3>1. mcu - f \in 0 .. l - 1 /\ f + (mcu - f) = mcu
      BY <2>2
    <3>2. CellsOfMcu(cam, f + (mcu - f)) \subseteq DOMAIN W[f + l].grid
      BY <1>1, <3>1 DEF Covers
    <3> QED
      BY <3>1, <3>2
  <2> QED
    BY <2>1, <2>2
<1> QED
  BY <1>1, <1>2 DEF AllRight

LEMMA ReceivedRight ==
  ASSUME NEW cam, NEW p, NEW n, NEW m, NEW c, NEW picture, NEW meant, NEW detail, NEW off,
         NEW data, NEW W, Arrives(cam, p, n, m, c, picture, meant, detail, off, data, W),
         NEW i \in 1 .. c, off[i] - 2 <= Len(data),
         NEW e, (i - 1) * m + LastOf(n, m, i) = e
  PROVE  e \in 1 .. n /\ i * m >= e /\ AllRight(cam, meant, W[e], e)
<1>1. /\ n \in Nat \ {0} /\ m \in Nat \ {0} /\ c \in Nat \ {0} /\ Divided(cam, n, m, c)
      /\ Starts(W[0], 0) /\ DOMAIN W[0].grid = {} /\ (c - 1) * m < n
  BY DEF Arrives, Divided
<1>2. PICK scan : ScanLaid(cam, picture, detail, scan, off, c)
  BY DEF Arrives
<1>3. off[0] = 0 /\ \A k \in 0 .. c : off[k] \in Nat
  BY <1>2 DEF ScanLaid
<1>4. PICK d \in Nat : Len(data) = d
  BY DEF Arrives, IsData
<1>5. \A k \in 1 .. i - 1 : off[k] <= d /\ off[k] - 2 <= d
  <2> TAKE k \in 1 .. i - 1
  <2>1. k \in 0 .. c /\ i \in 0 .. c /\ k < i
    BY <1>1
  <2>2. off[k] + 2 <= off[i]
    BY <1>1, <1>2, <2>1, OffsGrow
  <2>3. off[k] \in Nat /\ off[i] \in Nat
    BY <1>3, <2>1
  <2> QED
    BY <1>4, <2>2, <2>3
<1> DEFINE Good(k, f) == Starts(W[f], off[k]) /\ AllRight(cam, meant, W[f], f)
           S == {k \in Nat : k <= i - 1 => Good(k, k * m)}
<1>6. 0 \in S
  <2>1. 0 * m = 0
    BY <1>1
  <2>2. AllRight(cam, meant, W[0], 0)
    <3>1. 0 .. 0 - 1 = {}
      OBVIOUS
    <3> QED
      BY <1>1, <3>1 DEF AllRight, Right
  <2> QED
    BY <1>1, <1>3, <2>1, <2>2
<1>7. ASSUME NEW k \in Nat, k \in S PROVE k + 1 \in S
  <2> SUFFICES ASSUME k + 1 <= i - 1 PROVE Good(k + 1, (k + 1) * m)
    <3>1. k + 1 \in Nat
      OBVIOUS
    <3> QED
      BY <3>1, Zenon
  <2>1. k <= i - 1 /\ k + 1 \in 1 .. i - 1 /\ k + 1 \in 1 .. c /\ k + 1 < c
        /\ (k + 1) - 1 = k
    BY <1>1
  <2>2. PICK f \in Nat : k * m = f /\ ((k + 1) - 1) * m = f /\ (k + 1) * m = f + m
    BY <1>1
  <2>3. Good(k, f)
    BY <1>7, <2>1, <2>2
  <2>4. LastOf(n, m, k + 1) = m
    BY <1>1, <2>1, LastIs
  <2>5. off[k + 1] <= Len(data) /\ off[k + 1] - 2 <= Len(data)
    BY <1>4, <1>5, <2>1
  <2>6. Starts(W[f], off[(k + 1) - 1]) /\ Right(W[f].grid, meant)
    BY <2>1, <2>3 DEF AllRight
  <2>7. IntervalDone(cam, meant, W, f, m) /\ Starts(W[f + m], off[k + 1])
    BY <2>1, <2>2, <2>4, <2>5, <2>6, IntervalStep
  <2>8. AllRight(cam, meant, W[f + m], f + m)
    BY <1>1, <2>3, <2>7, AllRightOn
  <2> QED
    BY <2>2, <2>7, <2>8
<1> HIDE DEF S
<1>8. i - 1 \in S /\ i - 1 <= i - 1
  <2>1. i - 1 \in Nat
    OBVIOUS
  <2>2. \A k \in Nat : k \in S
    BY <1>6, <1>7, Induction
  <2> QED
    BY <2>1, <2>2
<1>9. PICK f \in Nat : (i - 1) * m = f /\ i * m = f + m
  BY <1>1
<1>10. Good(i - 1, f)
  BY <1>8, <1>9 DEF S
<1>11. PICK l \in 1 .. m : LastOf(n, m, i) = l
  <2>1. LastOf(n, m, i) \in 1 .. m
    BY <1>1, LastIs
  <2> QED
    BY <2>1
<1>12. f + l <= n
  <2>1. (i - 1) * m + LastOf(n, m, i) <= n
    BY <1>1, LastIs
  <2> QED
    BY <1>9, <1>11, <2>1
<1>13. IntervalDone(cam, meant, W, f, l)
  <2>1. Starts(W[f], off[i - 1]) /\ Right(W[f].grid, meant)
    BY <1>10 DEF AllRight
  <2> QED
    BY <1>9, <1>11, <2>1, IntervalStep
<1>14. AllRight(cam, meant, W[f + l], f + l)
  BY <1>10, <1>11, <1>13, AllRightOn
<1>15. e = f + l
  BY <1>9, <1>11
<1>16. e \in 1 .. n /\ i * m >= e
  BY <1>1, <1>9, <1>12, <1>15
<1> QED
  BY <1>14, <1>15, <1>16

\* A cell tells which MCU it is in.
LEMMA McuOfCell ==
  ASSUME NEW cam \in CameraFormat, NEW mcu \in Nat, NEW x \in CellsOfMcu(cam, mcu)
  PROVE  cam.cols * ((x \div (cam.cols * cam.h)) \div cam.v)
           + ((x % (cam.cols * cam.h)) \div cam.h) = mcu
<1>1. PICK cols \in Nat \ {0}, h \in 1 .. 2, v \in 1 .. 2 :
        cam.cols = cols /\ cam.h = h /\ cam.v = v
  BY FormatType
<1>2. PICK n \in 1 .. 4, B \in 1 .. 6 :
        /\ LumaBlocks(cam) = n /\ h * v = n /\ McuSize(cam) = B
        /\ cam.colour => B = n + 2
        /\ ~cam.colour => B = n
  BY <1>1, FormatType DEF LumaBlocks
<1>3. PICK s : BlocksOf(cam, mcu) = s
  OBVIOUS
<1>4. /\ DOMAIN s = 1 .. B /\ \A t \in 1 .. n : s[t] = CellAt(cam, mcu, LumaBlock(cam, t))
      /\ cam.colour => s[n + 1] = -1 /\ s[n + 2] = -2
  BY <1>2, <1>3, CodedBlocksAre
<1>5. PICK t \in 1 .. B : s[t] = x /\ x >= 0
  BY <1>3, <1>4 DEF CellsOfMcu, ToSet
<1>6. t \in 1 .. n
  <2> SUFFICES ASSUME t \notin 1 .. n PROVE FALSE
    OBVIOUS
  <2>1. CASE cam.colour
    <3>1. t = n + 1 \/ t = n + 2
      BY <1>2, <2>1
    <3>2. x = -1 \/ x = -2
      BY <1>4, <1>5, <2>1, <3>1
    <3> QED
      BY <1>5, <3>2
  <2>2. CASE ~cam.colour
    BY <1>2, <2>2
  <2> QED
    BY <2>1, <2>2
<1>7. PICK bh \in 0 .. h - 1, bv \in 0 .. v - 1 : (t - 1) % h = bh /\ (t - 1) \div h = bv
  <2>1. PICK i \in Nat : t - 1 = i /\ i < h * v
    BY <1>2, <1>6
  <2>2. i < v * h
    BY <2>1
  <2>3. i \div h \in 0 .. v - 1 /\ i % h \in 0 .. h - 1
    BY <2>1, <2>2, DivMod
  <2> QED
    BY <2>1, <2>3
<1>8. PICK a \in Nat, b \in 0 .. cols - 1 : mcu \div cols = a /\ mcu % cols = b /\ mcu = cols * a + b
  <2>1. mcu \div cols \in Nat /\ mcu % cols \in 0 .. cols - 1
        /\ mcu = cols * (mcu \div cols) + (mcu % cols)
    OBVIOUS
  <2> QED
    BY <2>1
<1>9. PICK y \in Nat : a * v + bv = y
  OBVIOUS
<1>10. PICK w \in Nat \ {0} : cols * h = w
  <2>1. cols * h \in Nat /\ cols * h >= cols
    BY <1>1
  <2> QED
    BY <2>1
<1>11. PICK z \in 0 .. w - 1 : b * h + bh = z
  <2>1. b * h + bh \in 0 .. cols * h - 1
    BY CellBound
  <2> QED
    BY <1>10, <2>1
<1>12. x = y * w + z
  <2>1. x = (a * v + bv) * (cols * h) + b * h + bh
    BY <1>1, <1>4, <1>5, <1>6, <1>7, <1>8 DEF CellAt, LumaBlock
  <2>2. x = y * w + b * h + bh
    BY <1>9, <1>10, <2>1
  <2>3. PICK q \in Nat, r \in Nat : y * w = q /\ b * h = r
    OBVIOUS
  <2> QED
    BY <1>11, <2>2, <2>3
<1>13. x \div w = y /\ x % w = z
  BY <1>12, DivModOf
<1>14. y \div v = a /\ z \div h = b
  BY <1>9, <1>11, DivModOf
<1> QED
  BY <1>1, <1>8, <1>10, <1>13, <1>14

\* What is recorded later leaves the cells of earlier MCUs alone.
LEMMA LaterKeeps ==
  ASSUME NEW cam \in CameraFormat, NEW data, IsData(data), NEW p, Fitting(p, cam),
         NEW W, PictureWalk(W, data, p), NEW n \in Nat, cam.cols * cam.rows = n,
         NEW e \in 0 .. n, NEW mcu \in 0 .. e - 1, NEW i \in CellsOfMcu(cam, mcu),
         i \in DOMAIN W[e].grid
  PROVE  i \in DOMAIN W[n].grid /\ W[n].grid[i] = W[e].grid[i]
<1>1. p.cols * p.rows = n
  BY DEF Fitting
<1>2. /\ \A k \in 0 .. n : W[k] \in Walk(p)
      /\ \A k \in 1 .. n : W[k] = WalkMcu(data, p, W[k - 1], k - 1)
  BY <1>1 DEF PictureWalk
<1> DEFINE S == {k \in Nat : e + k <= n => /\ i \in DOMAIN W[e + k].grid
                                           /\ W[e + k].grid[i] = W[e].grid[i]}
<1>3. 0 \in S
  <2>1. e + 0 = e
    OBVIOUS
  <2> QED
    BY <2>1
<1>4. ASSUME NEW k \in Nat, k \in S PROVE k + 1 \in S
  <2> SUFFICES ASSUME e + (k + 1) <= n
               PROVE  i \in DOMAIN W[e + (k + 1)].grid /\ W[e + (k + 1)].grid[i] = W[e].grid[i]
    OBVIOUS
  <2>1. PICK j \in Nat : e + k = j /\ e + (k + 1) = j + 1 /\ j < n /\ j # mcu
    OBVIOUS
  <2>2. i \in DOMAIN W[j].grid /\ W[j].grid[i] = W[e].grid[i]
    BY <1>4, <2>1
  <2>3. W[j] \in Walk(p) /\ W[j + 1] = WalkMcu(data, p, W[j], j)
    <3>1. j \in 0 .. n /\ j + 1 \in 1 .. n /\ (j + 1) - 1 = j
      BY <2>1
    <3> QED
      BY <1>2, <3>1
  <2>4. Keeps(W[j], W[j + 1], CellsOfMcu(cam, j))
    BY <2>1, <2>3, McuKeeps
  <2>5. i \notin CellsOfMcu(cam, j)
    <3> SUFFICES ASSUME i \in CellsOfMcu(cam, j) PROVE FALSE
      OBVIOUS
    <3>1. PICK y : cam.cols * ((i \div (cam.cols * cam.h)) \div cam.v)
                     + ((i % (cam.cols * cam.h)) \div cam.h) = y
      OBVIOUS
    <3>2. y = j
      BY <3>1, McuOfCell
    <3>3. y = mcu
      BY <3>1, McuOfCell
    <3> QED
      BY <2>1, <3>2, <3>3
  <2> QED
    BY <2>1, <2>2, <2>4, <2>5 DEF Keeps
<1> HIDE DEF S
<1>5. n - e \in S
  <2>1. n - e \in Nat
    OBVIOUS
  <2>2. \A k \in Nat : k \in S
    BY <1>3, <1>4, Induction
  <2> QED
    BY <2>1, <2>2
<1>6. e + (n - e) = n
  OBVIOUS
<1> QED
  BY <1>5, <1>6 DEF S

\* Whatever is missing behind them, the MCUs of the intervals that have arrived have
\* the luminance that was meant.
LEMMA WalkIsExact ==
  ASSUME NEW cam, NEW p, NEW n, NEW m, NEW c, NEW picture, NEW meant, NEW detail, NEW off,
         NEW data, NEW W, Arrives(cam, p, n, m, c, picture, meant, detail, off, data, W),
         NEW i \in 1 .. c, off[i] - 2 <= Len(data),
         NEW mcu \in ToSet(Intervals(cam)[i]), NEW x \in CellsOfMcu(cam, mcu)
  PROVE  x \in DOMAIN W[n].grid /\ W[n].grid[x] = meant[x]
<1>1. /\ cam \in CameraFormat /\ Fitting(p, cam) /\ n \in Nat \ {0} /\ m \in Nat \ {0}
      /\ c \in Nat \ {0} /\ IsData(data) /\ PictureWalk(W, data, p)
      /\ cam.cols * cam.rows = n /\ (c - 1) * m < n
  BY DEF Arrives, Divided
<1>2. PICK f \in Nat, l \in Nat : (i - 1) * m = f /\ LastOf(n, m, i) = l
  <2>1. (i - 1) * m \in Nat /\ LastOf(n, m, i) \in 1 .. m
    BY <1>1, LastIs
  <2> QED
    BY <2>1
<1>3. PICK e : (i - 1) * m + LastOf(n, m, i) = e
  OBVIOUS
<1>4. e \in 1 .. n /\ AllRight(cam, meant, W[e], e)
  BY <1>3, ReceivedRight
<1>5. mcu \in 0 .. e - 1
  <2>1. PICK mcus : Intervals(cam)[i] = mcus
    OBVIOUS
  <2>2. /\ mcus \in Seq(McusOfPicture(cam)) /\ Len(mcus) = l
        /\ \A k \in 1 .. l : mcus[k] = f + k - 1
    BY <1>2, <2>1 DEF Arrives, Divided
  <2>3. PICK k \in 1 .. l : mcus[k] = mcu
    BY <2>1, <2>2 DEF ToSet
  <2>4. e = f + l
    BY <1>2, <1>3
  <2> QED
    BY <2>2, <2>3, <2>4
<1>6. Right(W[e].grid, meant) /\ x \in DOMAIN W[e].grid
  BY <1>4, <1>5 DEF AllRight
<1>7. W[e].grid[x] = meant[x]
  BY <1>6 DEF Right
<1>8. x \in DOMAIN W[n].grid /\ W[n].grid[x] = W[e].grid[x]
  <2>1. e \in 0 .. n
    BY <1>4
  <2> QED
    BY <1>1, <1>5, <1>6, <2>1, LaterKeeps
<1> QED
  BY <1>7, <1>8

-----------------------------------------------------------------------------
(* What is extracted *)

=============================================================================
