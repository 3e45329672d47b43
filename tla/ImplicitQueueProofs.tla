------------------------ MODULE ImplicitQueueProofs -------------------------
(***************************************************************************)
(* Theorems of ImplicitQueue, for every number of consumers and of blocks  *)
(* and every size of a block, of an index_t and of the block indexes.      *)
(***************************************************************************)
EXTENDS ImplicitQueue, FiniteSetTheorems, WellFoundedInduction, TLAPS

-----------------------------------------------------------------------------
(* Division. These operators stay folded in the proofs: a lemma is matched
   by them. *)

Mod(a, n) == a % n
Div(a, n) == a \div n
Divided(a, n, q, r) == a = (q * n) + r
Added(x, a, b) == x = a + b

LEMMA Division ==
    ASSUME NEW a \in Int, NEW n \in Nat \ {0}
    PROVE  /\ Mod(a, n) \in 0 .. (n - 1) /\ Div(a, n) \in Int
           /\ a = Div(a, n) * n + Mod(a, n)
BY SMT DEF Mod, Div

LEMMA OnlyZero ==
    ASSUME NEW n \in Nat \ {0}, NEW d \in Int, d * n < n, -n < d * n
    PROVE  d = 0
<1>1. d >= 1 => d * n >= n
    OBVIOUS
<1>2. d <= -1 => d * n <= -n
    OBVIOUS
<1> QED
    BY <1>1, <1>2

LEMMA DivisionIs ==
    ASSUME NEW n \in Nat \ {0}, NEW a \in Int, NEW q \in Int, NEW r \in 0 .. (n - 1),
           Divided(a, n, q, r)
    PROVE  Mod(a, n) = r /\ Div(a, n) = q
<1> DEFINE p == Div(a, n)
           s == Mod(a, n)
<1>1. s \in 0 .. (n - 1) /\ p \in Int /\ a = p * n + s
    BY Division
<1> HIDE DEF p, s
<1>2. (q - p) * n = s - r
    BY <1>1 DEF Divided
<1>3. q - p \in Int /\ (q - p) * n < n /\ -n < (q - p) * n
    BY <1>1, <1>2
<1>4. q - p = 0
    BY <1>3, OnlyZero
<1>5. q = p /\ s = r
    BY <1>1, <1>2, <1>4
<1> QED
    BY <1>5 DEF p, s

(* Two numbers have the same remainder when a multiple is between them. *)
LEMMA Apart ==
    ASSUME NEW n \in Nat \ {0}, NEW a \in Int, NEW b \in Int, Mod(a, n) = Mod(b, n)
    PROVE  \E q \in Int : Divided(a, n, q, b)
<1> DEFINE s == Div(a, n)
           t == Div(b, n)
<1>1. /\ s \in Int /\ t \in Int /\ Mod(a, n) \in 0 .. (n - 1)
      /\ a = s * n + Mod(a, n) /\ b = t * n + Mod(b, n)
    BY Division
<1> HIDE DEF s, t
<1>2. s - t \in Int /\ a = ((s - t) * n) + b
    BY <1>1
<1> QED
    BY <1>2 DEF Divided

LEMMA SameRemainder ==
    ASSUME NEW n \in Nat \ {0}, NEW a \in Int, NEW b \in Int, NEW q \in Int,
           Divided(a, n, q, b)
    PROVE  Mod(a, n) = Mod(b, n)
<1> DEFINE t == Div(b, n)
           r == Mod(b, n)
<1>1. t \in Int /\ r \in 0 .. (n - 1) /\ b = t * n + r
    BY Division
<1> HIDE DEF t, r
<1>2. t + q \in Int /\ Divided(a, n, t + q, r)
    BY <1>1 DEF Divided
<1>3. Mod(a, n) = r
    BY <1>1, <1>2, DivisionIs
<1> QED
    BY <1>3 DEF r

LEMMA RemainderPlus ==
    ASSUME NEW n \in Nat \ {0}, NEW a \in Int, NEW b \in Int,
           NEW c \in Int, NEW d \in Int, NEW x \in Int, NEW y \in Int,
           Mod(a, n) = Mod(b, n), Mod(c, n) = Mod(d, n),
           Added(x, a, c), Added(y, b, d)
    PROVE  Mod(x, n) = Mod(y, n)
<1>1. PICK p \in Int : Divided(a, n, p, b)
    BY Apart
<1>2. PICK q \in Int : Divided(c, n, q, d)
    BY Apart
<1>3. p + q \in Int /\ Divided(x, n, p + q, y)
    BY <1>1, <1>2 DEF Divided, Added
<1> QED
    BY <1>3, SameRemainder

LEMMA RemainderMinus ==
    ASSUME NEW n \in Nat \ {0}, NEW a \in Int, NEW b \in Int,
           NEW c \in Int, NEW d \in Int, NEW x \in Int, NEW y \in Int,
           Mod(a, n) = Mod(b, n), Mod(c, n) = Mod(d, n),
           Added(a, x, c), Added(b, y, d)
    PROVE  Mod(x, n) = Mod(y, n)
<1>1. PICK p \in Int : Divided(a, n, p, b)
    BY Apart
<1>2. PICK q \in Int : Divided(c, n, q, d)
    BY Apart
<1>3. p - q \in Int /\ Divided(x, n, p - q, y)
    BY <1>1, <1>2 DEF Divided, Added
<1> QED
    BY <1>3, SameRemainder

LEMMA SmallRemainder ==
    ASSUME NEW n \in Nat \ {0}, NEW r \in 0 .. (n - 1)
    PROVE  Mod(r, n) = r
<1>1. Divided(r, n, 0, r) /\ r \in Int /\ 0 \in Int
    BY DEF Divided
<1> QED
    BY <1>1, DivisionIs

LEMMA RemainderTwice ==
    ASSUME NEW n \in Nat \ {0}, NEW a \in Int
    PROVE  Mod(Mod(a, n), n) = Mod(a, n)
BY Division, SmallRemainder

LEMMA NearRemainders ==
    ASSUME NEW n \in Nat \ {0}, NEW a \in Int, NEW b \in Int,
           Mod(a, n) = Mod(b, n), a - b < n, b - a < n
    PROVE  a = b
<1>1. PICK q \in Int : Divided(a, n, q, b)
    BY Apart
<1>2. q * n < n /\ -n < q * n
    BY <1>1 DEF Divided
<1>3. q = 0
    BY <1>2, OnlyZero
<1> QED
    BY <1>1, <1>3 DEF Divided

LEMMA RemainderOfFactor ==
    ASSUME NEW n \in Nat \ {0}, NEW p \in Nat \ {0}, NEW a \in Int, NEW b \in Int,
           Mod(a, p * n) = Mod(b, p * n)
    PROVE  Mod(a, n) = Mod(b, n)
<1> DEFINE w == p * n
<1>1. w \in Nat \ {0} /\ Mod(a, w) = Mod(b, w)
    OBVIOUS
<1>2. PICK q \in Int : Divided(a, w, q, b)
    <2> HIDE DEF w
    <2> QED
        BY <1>1, Apart
<1>3. q * p \in Int /\ Divided(a, n, q * p, b)
    BY <1>2 DEF Divided
<1> QED
    BY <1>3, SameRemainder

-----------------------------------------------------------------------------
(* Sizes *)

LEMMA LeastNatural ==
    ASSUME NEW T \in SUBSET Nat, T # {}
    PROVE  \E m \in T : \A k \in T : m <= k
<1> DEFINE R == {s \in Nat \X Nat : s[1] < s[2]}
<1>1. IsWellFoundedOn(R, Nat)
    <2>1. R = OpToRel(<, Nat)
        BY DEF OpToRel
    <2> QED
        BY <2>1, NatLessThanWellFounded
<1>2. PICK m \in T : \A y \in T : <<y, m>> \notin R
    BY <1>1, WFMin
<1>3. ASSUME NEW y \in T PROVE m <= y
    <2>1. <<y, m>> \in Nat \X Nat
        BY <1>2, <1>3
    <2>2. <<y, m>>[1] = y /\ <<y, m>>[2] = m
        OBVIOUS
    <2>3. ~(y < m)
        BY <1>2, <1>3, <2>1, <2>2
    <2> QED
        BY <1>2, <1>3, <2>3
<1> QED
    BY <1>2, <1>3

(* A set with one more member has twice as many subsets. *)
LEMMA TwicePower ==
    ASSUME NEW k \in Nat
    PROVE  2^k \in Nat \ {0} /\ 2^(k + 1) = 2 * 2^k
<1> DEFINE S == 1 .. k
           A == SUBSET S
           with(T) == T \union {k + 1}
           f == [T \in A |-> with(T)]
           C == {with(T) : T \in A}
<1>1. /\ IsFiniteSet(A) /\ Cardinality(A) \in Nat /\ 2^k = Cardinality(A)
      /\ IsFiniteSet(SUBSET (1 .. (k + 1)))
      /\ 2^(k + 1) = Cardinality(SUBSET (1 .. (k + 1)))
    <2>1. /\ IsFiniteSet(1 .. k) /\ Cardinality(1 .. k) = k
          /\ IsFiniteSet(1 .. (k + 1)) /\ Cardinality(1 .. (k + 1)) = k + 1
        BY FS_Interval
    <2> QED
        BY <2>1, FS_SUBSET, FS_CardinalityType
<1>2. k + 1 \notin S /\ 1 .. (k + 1) = S \union {k + 1}
    OBVIOUS
<1> HIDE DEF S
<1>3. f \in Bijection(A, C)
    <2>1. f \in [A -> C]
        OBVIOUS
    <2>2. ASSUME NEW T \in A, NEW U \in A, with(T) = with(U) PROVE T = U
        BY <1>2, <2>2
    <2>3. \A T, U \in A : f[T] = f[U] => T = U
        BY <2>2
    <2>4. \A y \in C : \E T \in A : f[T] = y
        OBVIOUS
    <2> QED
        BY <2>1, <2>3, <2>4 DEF Bijection, Injection, Surjection, IsInjective
<1>4. IsFiniteSet(C) /\ Cardinality(C) = Cardinality(A)
    BY <1>1, <1>3, FS_Bijection DEF ExistsBijection
<1>5. A \intersect C = {}
    BY <1>2
<1>6. SUBSET (S \union {k + 1}) = A \union C
    <2>1. ASSUME NEW U \in SUBSET (S \union {k + 1}), k + 1 \in U PROVE U \in C
        <3>1. U \ {k + 1} \in A /\ with(U \ {k + 1}) = U
            BY <2>1
        <3> QED
            BY <3>1
    <2>2. ASSUME NEW U \in SUBSET (S \union {k + 1}), k + 1 \notin U PROVE U \in A
        BY <2>2
    <2>3. A \subseteq SUBSET (S \union {k + 1})
        OBVIOUS
    <2>4. \A T \in A : with(T) \in SUBSET (S \union {k + 1})
        OBVIOUS
    <2> QED
        BY <2>1, <2>2, <2>3, <2>4
<1>7. Cardinality(A \union C) = Cardinality(A) + Cardinality(C) - 0
    <2> HIDE DEF A, C
    <2>1. Cardinality(A \union C)
            = Cardinality(A) + Cardinality(C) - Cardinality(A \intersect C)
        BY <1>1, <1>4, FS_Union
    <2> QED
        BY <1>5, <2>1, FS_EmptySet
<1>8. 2^k # 0
    <2>1. {} \in A
        OBVIOUS
    <2> HIDE DEF A
    <2>2. Cardinality(A) # 0
        BY <1>1, <2>1, FS_EmptySet
    <2> QED
        BY <1>1, <2>2
<1>9. 2^(k + 1) = Cardinality(A \union C)
    BY <1>1, <1>2, <1>6
<1>10. 2^(k + 1) = 2 * Cardinality(A)
    <2> HIDE DEF A, C
    <2> QED
        BY <1>1, <1>4, <1>7, <1>9
<1> QED
    <2> HIDE DEF A, C
    <2> QED
        BY <1>1, <1>8, <1>10

Cap(h) == InitialCapacity * 2^(h - 1)
Bases == IndexValues \div BlockSize        \* blocks that their bases tell apart

LEMMA CapTwice ==
    ASSUME NEW h \in Nat \ {0}
    PROVE  Cap(h) \in Nat \ {0} /\ Cap(h + 1) = 2 * Cap(h)
<1> DEFINE k == h - 1
<1>1. k \in Nat /\ k = h - 1 /\ k + 1 = (h + 1) - 1
    OBVIOUS
<1>2. 2^k \in Nat \ {0} /\ 2^(k + 1) = 2 * 2^k
    BY <1>1, TwicePower
<1>3. Cap(h) = InitialCapacity * 2^k /\ Cap(h + 1) = InitialCapacity * (2 * 2^k)
    BY <1>1, <1>2 DEF Cap
<1>4. PICK t \in Nat \ {0} : t = 2^k
    BY <1>2
<1>5. InitialCapacity \in Nat \ {0}
    BY SizesAssumption
<1> QED
    BY <1>3, <1>4, <1>5

LEMMA CapDivides ==
    ASSUME NEW h \in Nat \ {0}, NEW k \in Nat
    PROVE  \E p \in Nat \ {0} : Cap(h + k) = p * Cap(h)
<1> DEFINE P(i) == \E p \in Nat \ {0} : Cap(h + i) = p * Cap(h)
           T == {i \in Nat : ~P(i)}
<1>1. SUFFICES ASSUME T # {} PROVE FALSE
    OBVIOUS
<1>2. PICK m \in T : \A i \in T : m <= i
    BY <1>1, LeastNatural
<1>3. m # 0
    <2>1. Cap(h + 0) = 1 * Cap(h)
        BY CapTwice
    <2>2. P(0)
        BY <2>1
    <2> QED
        BY <1>2, <2>2
<1>4. P(m - 1)
    BY <1>2, <1>3
<1>5. PICK p \in Nat \ {0} : Cap(h + (m - 1)) = p * Cap(h)
    BY <1>4
<1>6. h + (m - 1) \in Nat \ {0} /\ h + m = (h + (m - 1)) + 1
    BY <1>2, <1>3
<1>7. Cap(h + m) = 2 * Cap(h + (m - 1))
    BY <1>6, CapTwice
<1>8. 2 * p \in Nat \ {0} /\ Cap(h + m) = (2 * p) * Cap(h)
    BY <1>5, <1>7, CapTwice
<1>9. P(m)
    BY <1>8
<1> QED
    BY <1>2, <1>9

LEMMA Sizes ==
    /\ BlockSize \in Nat \ {0, 1} /\ IndexValues \in Nat \ {0, 1}
    /\ MaxIndexes \in Nat \ {0} /\ InitialCapacity \in Nat \ {0}
    /\ 2 * BlockSize <= IndexValues
    /\ Bases \in Nat \ {0} /\ IndexValues = Bases * BlockSize
    /\ NumEntries = Cap(MaxIndexes)
    /\ \A h \in 1 .. MaxIndexes :
        /\ Cap(h) \in Nat \ {0} /\ Cap(h) <= NumEntries
        /\ \E p \in Nat \ {0} : Bases = p * Cap(h)
    /\ \A h, g \in 1 .. MaxIndexes : h <= g => Cap(h) <= Cap(g)
    /\ \A h \in 1 .. MaxIndexes : h > 1 => Cap(h) = 2 * Cap(h - 1)
<1>1. /\ BlockSize \in Nat \ {0, 1} /\ IndexValues \in Nat \ {0, 1}
      /\ MaxIndexes \in Nat \ {0} /\ InitialCapacity \in Nat \ {0}
      /\ 2 * BlockSize <= IndexValues
    BY SizesAssumption
<1>2. \A h \in 1 .. MaxIndexes : Cap(h) \in Nat \ {0}
    BY <1>1, CapTwice
<1>3. NumEntries = Cap(MaxIndexes)
    BY DEF NumEntries, Cap
<1>4. PICK p \in Nat \ {0} : IndexValues = p * (BlockSize * NumEntries)
    <2> DEFINE w == BlockSize * NumEntries
    <2>1. w \in Nat \ {0}
        BY <1>1, <1>2, <1>3
    <2>2. IndexValues % w = 0
        <3>1. PICK t \in Nat \ {0} : t = 2^(MaxIndexes - 1)
            BY <1>1, TwicePower
        <3>2. w = BlockSize * InitialCapacity * t
            BY <1>1, <3>1 DEF NumEntries
        <3> QED
            BY <3>1, <3>2, SizesAssumption
    <2>3. Mod(IndexValues, w) = 0
        BY <2>2 DEF Mod
    <2>4. PICK q \in Int : IndexValues = q * w
        <3> HIDE DEF w
        <3>1. /\ Div(IndexValues, w) \in Int
              /\ IndexValues = Div(IndexValues, w) * w + Mod(IndexValues, w)
            BY <1>1, <2>1, Division
        <3>2. IndexValues = Div(IndexValues, w) * w
            BY <2>1, <2>3, <3>1
        <3> QED
            BY <3>1, <3>2
    <2>5. q > 0
        <3>1. q <= 0 => q * w <= 0
            BY <2>1
        <3> QED
            BY <1>1, <2>4, <3>1
    <2> QED
        BY <2>4, <2>5
<1>5. Bases = p * NumEntries /\ Bases \in Nat \ {0} /\ IndexValues = Bases * BlockSize
    <2> DEFINE r == p * NumEntries
    <2>1. /\ r \in Nat \ {0} /\ IndexValues = r * BlockSize
          /\ Divided(IndexValues, BlockSize, r, 0)
        BY <1>1, <1>2, <1>3, <1>4 DEF Divided
    <2>2. /\ 0 \in 0 .. (BlockSize - 1) /\ BlockSize \in Nat \ {0}
          /\ IndexValues \in Int /\ r \in Int
        BY <1>1, <2>1
    <2>3. Bases = r
        <3> HIDE DEF r
        <3>1. Div(IndexValues, BlockSize) = r
            BY <2>1, <2>2, DivisionIs
        <3> QED
            BY <3>1 DEF Bases, Div
    <2> QED
        BY <1>1, <2>1, <2>3
<1>6. ASSUME NEW h \in 1 .. MaxIndexes, NEW g \in 1 .. MaxIndexes, h <= g
      PROVE  \E q \in Nat \ {0} : Cap(g) = q * Cap(h)
    <2>1. h \in Nat \ {0} /\ g - h \in Nat /\ h + (g - h) = g
        BY <1>6
    <2> QED
        BY <2>1, CapDivides
<1>7. ASSUME NEW h \in 1 .. MaxIndexes, NEW g \in 1 .. MaxIndexes, h <= g
      PROVE  Cap(h) <= Cap(g)
    <2>1. PICK q \in Nat \ {0} : Cap(g) = q * Cap(h)
        BY <1>6, <1>7
    <2>2. \A x \in Nat : q * x >= x
        OBVIOUS
    <2> QED
        BY <1>2, <2>1, <2>2
<1>8. ASSUME NEW h \in 1 .. MaxIndexes
      PROVE  /\ Cap(h) <= NumEntries
             /\ \E q \in Nat \ {0} : Bases = q * Cap(h)
    <2>1. MaxIndexes \in 1 .. MaxIndexes /\ h <= MaxIndexes
        BY <1>1
    <2>2. PICK q \in Nat \ {0} : NumEntries = q * Cap(h)
        BY <1>3, <1>6, <2>1
    <2>3. p * q \in Nat \ {0} /\ Bases = (p * q) * Cap(h)
        BY <1>2, <1>5, <2>2
    <2> QED
        BY <1>3, <1>7, <2>1, <2>3
<1>9. ASSUME NEW h \in 1 .. MaxIndexes, h > 1 PROVE Cap(h) = 2 * Cap(h - 1)
    <2>1. h - 1 \in Nat \ {0} /\ (h - 1) + 1 = h
        BY <1>1, <1>9
    <2> QED
        BY <2>1, CapTwice
<1> QED
    BY <1>1, <1>2, <1>3, <1>5, <1>7, <1>8, <1>9

-----------------------------------------------------------------------------
(* Indices *)

Block(n) == n \div BlockSize              \* number of the block of element n

LEMMA WrapIsMod == \A a : Wrap(a) = Mod(a, IndexValues)
BY DEF Wrap, Mod

LEMMA WrapFacts ==
    ASSUME NEW a \in Int
    PROVE  /\ Wrap(a) \in 0 .. (IndexValues - 1)
           /\ Wrap(Wrap(a)) = Wrap(a)
           /\ a \in 0 .. (IndexValues - 1) => Wrap(a) = a
<1>1. IndexValues \in Nat \ {0}
    BY Sizes
<1> QED
    BY <1>1, Division, SmallRemainder, RemainderTwice, WrapIsMod

LEMMA WrapPlus ==
    ASSUME NEW a \in Int, NEW b \in Int, NEW c \in Int, NEW d \in Int,
           NEW x \in Int, NEW y \in Int,
           Wrap(a) = Wrap(b), Wrap(c) = Wrap(d), Added(x, a, c), Added(y, b, d)
    PROVE  Wrap(x) = Wrap(y)
<1>1. IndexValues \in Nat \ {0}
    BY Sizes
<1> QED
    BY <1>1, RemainderPlus, WrapIsMod

LEMMA WrapMinus ==
    ASSUME NEW a \in Int, NEW b \in Int, NEW c \in Int, NEW d \in Int,
           NEW x \in Int, NEW y \in Int,
           Wrap(a) = Wrap(b), Wrap(c) = Wrap(d), Added(a, x, c), Added(b, y, d)
    PROVE  Wrap(x) = Wrap(y)
<1>1. IndexValues \in Nat \ {0}
    BY Sizes
<1> QED
    BY <1>1, RemainderMinus, WrapIsMod

LEMMA WrapOfWraps ==
    ASSUME NEW a \in Int, NEW b \in Int
    PROVE  /\ Wrap(Wrap(a) + b) = Wrap(a + b) /\ Wrap(Wrap(a) - b) = Wrap(a - b)
           /\ Wrap(Wrap(a) - Wrap(b)) = Wrap(a - b)
<1> DEFINE v == Wrap(a)
           w == Wrap(b)
<1>1. v \in Int /\ w \in Int /\ Wrap(v) = Wrap(a) /\ Wrap(w) = Wrap(b)
    BY WrapFacts
<1> HIDE DEF v, w
<1> DEFINE x == v + b
           y == a + b
           s == v - b
           t == a - b
           u == v - w
<1>2. /\ {x, y, s, t, u} \subseteq Int /\ Added(x, v, b) /\ Added(y, a, b)
      /\ Added(v, s, b) /\ Added(a, t, b) /\ Added(v, u, w)
    BY <1>1 DEF Added
<1>3. Wrap(x) = Wrap(y) /\ Wrap(s) = Wrap(t) /\ Wrap(u) = Wrap(t)
    <2> HIDE DEF x, y, s, t, u
    <2> QED
        BY <1>1, <1>2, WrapPlus, WrapMinus
<1> QED
    BY <1>3 DEF v, w

LEMMA BlockFacts ==
    ASSUME NEW n \in Int
    PROVE  /\ Block(n) \in Int /\ n % BlockSize \in 0 .. (BlockSize - 1)
           /\ n = Block(n) * BlockSize + (n % BlockSize)
<1>1. BlockSize \in Nat \ {0}
    BY Sizes
<1> QED
    BY <1>1, Division DEF Block, Mod, Div

LEMMA BlockIs ==
    ASSUME NEW n \in Int, NEW k \in Int, k * BlockSize <= n,
           n < k * BlockSize + BlockSize
    PROVE  Block(n) = k
<1> DEFINE r == n - (k * BlockSize)
<1>1. BlockSize \in Nat \ {0}
    BY Sizes
<1>2. r \in 0 .. (BlockSize - 1) /\ Divided(n, BlockSize, k, r)
    BY <1>1 DEF Divided
<1> HIDE DEF r
<1>3. Div(n, BlockSize) = k
    BY <1>1, <1>2, DivisionIs
<1> QED
    BY <1>3 DEF Block, Div

LEMMA WrapOfMultiple ==
    ASSUME NEW k \in Int
    PROVE  /\ Wrap(k * BlockSize) = Mod(k, Bases) * BlockSize
           /\ Mod(k, Bases) \in 0 .. (Bases - 1)
           /\ Wrap(k * BlockSize) # InvalidBase
<1> DEFINE r == Mod(k, Bases)
           q == Div(k, Bases)
           a == k * BlockSize
           e == r * BlockSize
<1>1. /\ Bases \in Nat \ {0} /\ IndexValues = Bases * BlockSize
      /\ BlockSize \in Nat \ {0, 1} /\ IndexValues \in Nat \ {0}
    BY Sizes
<1>2. r \in 0 .. (Bases - 1) /\ q \in Int /\ k = q * Bases + r
    BY <1>1, Division
<1> HIDE DEF r, q
<1>3. r + 1 <= Bases
    BY <1>1, <1>2
<1>4. (r + 1) * BlockSize <= Bases * BlockSize
    BY <1>1, <1>2, <1>3
<1>5. e \in 0 .. (IndexValues - 1)
    BY <1>1, <1>2, <1>4
<1>6. a \in Int /\ Divided(a, IndexValues, q, e)
    BY <1>1, <1>2 DEF Divided
<1>7. Wrap(a) = e
    <2> HIDE DEF a, e
    <2> QED
        BY <1>1, <1>2, <1>5, <1>6, DivisionIs, WrapIsMod
<1>8. e # 1
    <2>1. r >= 1 => e >= BlockSize
        BY <1>1, <1>2
    <2>2. r = 0 => e = 0
        BY <1>1
    <2> QED
        BY <1>1, <1>2, <2>1, <2>2
<1> QED
    BY <1>2, <1>7, <1>8 DEF InvalidBase, r

LEMMA WrapOfIndex ==
    ASSUME NEW n \in Int
    PROVE  /\ Wrap(n) % BlockSize = n % BlockSize
           /\ Base(Wrap(n)) = Wrap(Block(n) * BlockSize)
<1> DEFINE w == Wrap(n)
           q == Div(n, IndexValues)
           t == -(q * Bases)
           b == Block(n) * BlockSize
           r == n % BlockSize
<1>1. /\ Bases \in Nat \ {0} /\ IndexValues = Bases * BlockSize
      /\ BlockSize \in Nat \ {0} /\ IndexValues \in Nat \ {0}
    BY Sizes
<1>2. w \in 0 .. (IndexValues - 1) /\ q \in Int /\ n = q * IndexValues + w
    BY <1>1, Division, WrapIsMod
<1> HIDE DEF w, q
<1>3. t \in Int /\ w \in Int /\ Divided(w, BlockSize, t, n)
    BY <1>1, <1>2 DEF Divided
<1>4. w % BlockSize = r
    <2>1. Mod(w, BlockSize) = Mod(n, BlockSize)
        <3> HIDE DEF t
        <3> QED
            BY <1>1, <1>3, SameRemainder
    <2> QED
        BY <2>1 DEF Mod
<1>5. /\ Block(n) \in Int /\ r \in 0 .. (BlockSize - 1) /\ n = b + r /\ b \in Int
    BY <1>1, BlockFacts
<1>6. w - r \in 0 .. (IndexValues - 1)
    <2> DEFINE f == Div(w, BlockSize)
    <2>1. f \in Int /\ w = f * BlockSize + r
        <3>1. Mod(w, BlockSize) = r
            BY <1>4 DEF Mod
        <3> HIDE DEF r
        <3> QED
            BY <1>1, <1>3, <3>1, Division
    <2> HIDE DEF f, r
    <2>2. f >= 0
        <3>1. f <= -1 => f * BlockSize <= -BlockSize
            BY <1>1, <2>1
        <3> QED
            BY <1>1, <1>2, <1>5, <2>1, <3>1
    <2>3. f * BlockSize >= 0
        BY <1>1, <2>1, <2>2
    <2> QED
        BY <1>1, <1>2, <1>5, <2>1, <2>3
<1>7. Divided(b, IndexValues, q, w - r)
    <2> HIDE DEF b, r
    <2> QED
        BY <1>1, <1>2, <1>5 DEF Divided
<1>8. Wrap(b) = w - r
    <2> HIDE DEF b, r
    <2> QED
        BY <1>1, <1>2, <1>5, <1>6, <1>7, DivisionIs, WrapIsMod
<1> QED
    BY <1>4, <1>8 DEF Base, w

(* circular_less_than, for numbers that are not further apart than half of
   the range of an index *)
LEMMA LessThanZero ==
    ASSUME NEW d \in Int, -(IndexValues \div 2) <= d, LessThan(0, Wrap(d))
    PROVE  0 < d /\ Wrap(d) <= d /\ Wrap(d) \in Nat \ {0}
<1> DEFINE w == Wrap(d)
           q == Div(d, IndexValues)
<1>1. IndexValues \in Nat \ {0}
    BY Sizes
<1>2. w \in 0 .. (IndexValues - 1) /\ q \in Int /\ d = q * IndexValues + w
    BY <1>1, Division, WrapIsMod
<1> HIDE DEF q
<1>3. IndexValues \div 2 \in Nat
    BY <1>1
<1>4. w # 0
    <2>1. w = 0 => Wrap(0 - w) = 0
        BY <1>1, WrapFacts
    <2> QED
        BY <1>3, <2>1 DEF LessThan
<1>5. Wrap(0 - w) = IndexValues - w
    <2>1. IndexValues - w \in 0 .. (IndexValues - 1)
        BY <1>1, <1>2, <1>4
    <2>2. Divided(0 - w, IndexValues, -1, IndexValues - w) /\ 0 - w \in Int /\ -1 \in Int
        BY <1>1, <1>2 DEF Divided
    <2> HIDE DEF w
    <2> QED
        BY <1>1, <1>2, <2>1, <2>2, DivisionIs, WrapIsMod
<1>6. w < IndexValues - (IndexValues \div 2)
    BY <1>1, <1>2, <1>3, <1>5 DEF LessThan
<1>7. q >= 0
    <2>1. q <= -1 => q * IndexValues <= -IndexValues
        BY <1>1, <1>2
    <2> QED
        BY <1>1, <1>2, <1>3, <1>6, <2>1
<1>8. q * IndexValues >= 0
    BY <1>1, <1>2, <1>7
<1> QED
    BY <1>1, <1>2, <1>4, <1>8

LEMMA LessThanLimit ==
    ASSUME NEW h \in Int, NEW e \in Int, h < e, e - h <= IndexValues,
           LessThan(Wrap(h), Wrap(e))
    PROVE  e - h < IndexValues - (IndexValues \div 2)
<1> DEFINE d == e - h
<1>1. IndexValues \in Nat \ {0} /\ IndexValues \div 2 \in Nat
    BY Sizes
<1>2. Wrap(Wrap(h) - Wrap(e)) = Wrap(h - e)
    BY WrapOfWraps
<1>3. d # IndexValues
    <2>1. ASSUME d = IndexValues PROVE Wrap(h - e) = 0
        <3>1. Divided(h - e, IndexValues, -1, 0) /\ h - e \in Int /\ -1 \in Int
            BY <1>1, <2>1 DEF Divided
        <3>2. 0 \in 0 .. (IndexValues - 1)
            BY <1>1
        <3> QED
            BY <1>1, <3>1, <3>2, DivisionIs, WrapIsMod
    <2> QED
        BY <1>1, <1>2, <2>1 DEF LessThan
<1>4. Wrap(h - e) = IndexValues - d
    <2>1. IndexValues - d \in 0 .. (IndexValues - 1)
        BY <1>1, <1>3
    <2>2. /\ Divided(h - e, IndexValues, -1, IndexValues - d)
          /\ h - e \in Int /\ -1 \in Int
        BY <1>1 DEF Divided
    <2> HIDE DEF d
    <2> QED
        BY <1>1, <2>1, <2>2, DivisionIs, WrapIsMod
<1> QED
    BY <1>1, <1>2, <1>4 DEF LessThan

-----------------------------------------------------------------------------
(* Slots: o[h] is where the block index h has block 0 *)

Slot(o, h, k) == (k + o[h]) % Cap(h)

LEMMA SlotIsMod == \A o, h, k : Slot(o, h, k) = Mod(k + o[h], Cap(h))
BY DEF Slot, Mod

LEMMA SlotFacts ==
    ASSUME NEW o \in [1 .. MaxIndexes -> Int], NEW h \in 1 .. MaxIndexes,
           NEW k \in Int
    PROVE  /\ Slot(o, h, k) \in 0 .. (Cap(h) - 1)
           /\ \A d \in Int : (Slot(o, h, k) + d) % Cap(h) = Slot(o, h, k + d)
           /\ (Slot(o, h, k) + 1) % Cap(h) = Slot(o, h, k + 1)
           /\ (Slot(o, h, k) - 1) % Cap(h) = Slot(o, h, k - 1)
<1> DEFINE x == k + o[h]
           s == Slot(o, h, k)
<1>1. Cap(h) \in Nat \ {0} /\ o[h] \in Int /\ x \in Int
    BY Sizes
<1>2. s = Mod(x, Cap(h))
    BY SlotIsMod
<1>3. s \in 0 .. (Cap(h) - 1)
    <2> HIDE DEF s, x
    <2> QED
        BY <1>1, <1>2, Division
<1>4. Mod(s, Cap(h)) = Mod(x, Cap(h)) /\ s \in Int
    <2> HIDE DEF s, x
    <2> QED
        BY <1>1, <1>2, <1>3, RemainderTwice
<1>5. ASSUME NEW d \in Int PROVE (s + d) % Cap(h) = Slot(o, h, k + d)
    <2> DEFINE v == s + d
               w == x + d
    <2>1. v \in Int /\ w \in Int /\ Added(v, s, d) /\ Added(w, x, d)
        <3> HIDE DEF s, x
        <3> QED
            BY <1>1, <1>4 DEF Added
    <2>2. Mod(v, Cap(h)) = Mod(w, Cap(h))
        <3> HIDE DEF s, x, v, w
        <3> QED
            BY <1>1, <1>4, <2>1, RemainderPlus
    <2>3. w = (k + d) + o[h]
        BY <1>1
    <2> QED
        BY <2>2, <2>3, SlotIsMod DEF Mod
<1>6. (s - 1) % Cap(h) = Slot(o, h, k - 1)
    <2>1. (s + (-1)) % Cap(h) = Slot(o, h, k + (-1))
        BY <1>5
    <2>2. s - 1 = s + (-1) /\ k - 1 = k + (-1)
        <3> HIDE DEF s
        <3> QED
            BY <1>4
    <2> QED
        BY <2>1, <2>2
<1>7. (s + 1) % Cap(h) = Slot(o, h, k + 1)
    BY <1>5
<1> QED
    BY <1>3, <1>5, <1>6, <1>7

LEMMA SameSlot ==
    ASSUME NEW o \in [1 .. MaxIndexes -> Int], NEW h \in 1 .. MaxIndexes,
           NEW j \in Int, NEW k \in Int
    PROVE  Mod(j, Cap(h)) = Mod(k, Cap(h)) <=> Slot(o, h, j) = Slot(o, h, k)
<1> DEFINE x == j + o[h]
           y == k + o[h]
           n == Cap(h)
           d == o[h]
<1>1. n \in Nat \ {0} /\ d \in Int
    BY Sizes
<1>2. x \in Int /\ y \in Int /\ Added(x, j, d) /\ Added(y, k, d)
    BY <1>1 DEF Added
<1>3. Slot(o, h, j) = Mod(x, n) /\ Slot(o, h, k) = Mod(y, n)
    BY SlotIsMod
<1> HIDE DEF x, y, n, d
<1>4. Mod(j, n) = Mod(k, n) => Mod(x, n) = Mod(y, n)
    BY <1>1, <1>2, RemainderPlus
<1>5. Mod(x, n) = Mod(y, n) => Mod(j, n) = Mod(k, n)
    BY <1>1, <1>2, RemainderMinus
<1>6. Mod(j, n) = Mod(k, n) <=> Slot(o, h, j) = Slot(o, h, k)
    BY <1>2, <1>3, <1>4, <1>5
<1> QED
    BY <1>6 DEF n

LEMMA SlotNear ==
    ASSUME NEW o \in [1 .. MaxIndexes -> Int], NEW h \in 1 .. MaxIndexes,
           NEW j \in Int, NEW k \in Int, j - k < Cap(h), k - j < Cap(h),
           Slot(o, h, j) = Slot(o, h, k)
    PROVE  j = k
<1>1. Cap(h) \in Nat \ {0} /\ Mod(j, Cap(h)) = Mod(k, Cap(h))
    BY Sizes, SameSlot
<1> QED
    BY <1>1, NearRemainders

LEMMA SlotAround ==
    ASSUME NEW o \in [1 .. MaxIndexes -> Int], NEW h \in 1 .. MaxIndexes,
           NEW k \in Int
    PROVE  Slot(o, h, k - Cap(h)) = Slot(o, h, k)
<1> DEFINE n == Cap(h)
<1>1. n \in Nat \ {0} /\ k - n \in Int /\ -1 \in Int
    BY Sizes
<1>2. Divided(k - n, n, -1, k)
    BY <1>1 DEF Divided
<1>3. Mod(k - n, n) = Mod(k, n)
    <2> HIDE DEF n
    <2> QED
        BY <1>1, <1>2, SameRemainder
<1> QED
    BY <1>1, <1>3, SameSlot

LEMMA SlotOfBase ==
    ASSUME NEW o \in [1 .. MaxIndexes -> Int], NEW h \in 1 .. MaxIndexes,
           NEW j \in Int, NEW k \in Int, Wrap(j * BlockSize) = Wrap(k * BlockSize)
    PROVE  Slot(o, h, j) = Slot(o, h, k)
<1> DEFINE x == Mod(j, Bases)
           y == Mod(k, Bases)
<1>1. BlockSize \in Nat \ {0} /\ Bases \in Nat \ {0} /\ Cap(h) \in Nat \ {0}
    BY Sizes
<1>2. x * BlockSize = y * BlockSize /\ x \in Int /\ y \in Int
    <2>1. Wrap(j * BlockSize) = x * BlockSize /\ x \in 0 .. (Bases - 1)
        BY WrapOfMultiple
    <2>2. Wrap(k * BlockSize) = y * BlockSize /\ y \in 0 .. (Bases - 1)
        BY WrapOfMultiple
    <2> QED
        BY <1>1, <2>1, <2>2
<1>3. x = y
    <2>1. (x - y) * BlockSize = 0
        <3> HIDE DEF x, y
        <3> QED
            BY <1>1, <1>2
    <2>2. x - y = 0
        <3> HIDE DEF x, y
        <3> QED
            BY <1>1, <1>2, <2>1, OnlyZero
    <2> HIDE DEF x, y
    <2> QED
        BY <1>2, <2>2
<1>4. PICK p \in Nat \ {0} : Bases = p * Cap(h)
    BY Sizes
<1>5. Mod(j, Cap(h)) = Mod(k, Cap(h))
    <2>1. Mod(j, p * Cap(h)) = Mod(k, p * Cap(h))
        BY <1>3, <1>4
    <2> QED
        BY <1>1, <2>1, RemainderOfFactor
<1> QED
    BY <1>5, SameSlot

(* get_block_index_index_for_index: from any slot whose key is that of its
   place, the slot of the block. *)
LEMMA SlotIsFound ==
    ASSUME NEW o \in [1 .. MaxIndexes -> Int], NEW h \in 1 .. MaxIndexes,
           NEW j \in Int, NEW n \in Int
    PROVE  (Slot(o, h, j) + Wrap(Base(Wrap(n)) - Wrap(j * BlockSize)) \div BlockSize)
                % Cap(h) = Slot(o, h, Block(n))
<1> DEFINE k == Block(n)
           m == Mod(k - j, Bases)
           x == k * BlockSize
           y == j * BlockSize
           z == m * BlockSize
<1>1. BlockSize \in Nat \ {0} /\ Bases \in Nat \ {0} /\ Cap(h) \in Nat \ {0}
    BY Sizes
<1>2. k \in Int
    BY BlockFacts
<1> HIDE DEF k
<1>3. x \in Int /\ y \in Int /\ k - j \in Int /\ x - y = (k - j) * BlockSize
    BY <1>1, <1>2
<1>4. Base(Wrap(n)) = Wrap(x)
    BY WrapOfIndex DEF k
<1>5. Wrap(Base(Wrap(n)) - Wrap(y)) = Wrap(x - y)
    <2> HIDE DEF x, y
    <2> QED
        BY <1>3, <1>4, WrapOfWraps
<1>6. Wrap((k - j) * BlockSize) = z /\ m \in 0 .. (Bases - 1)
    BY <1>3, WrapOfMultiple
<1> HIDE DEF m
<1>7. z \div BlockSize = m
    <2>1. /\ Divided(z, BlockSize, m, 0) /\ 0 \in 0 .. (BlockSize - 1)
          /\ z \in Int /\ m \in Int
        BY <1>1, <1>6 DEF Divided
    <2>2. Div(z, BlockSize) = m
        <3> HIDE DEF z
        <3> QED
            BY <1>1, <2>1, DivisionIs
    <2> QED
        BY <2>2 DEF Div
<1>8. (Slot(o, h, j) + m) % Cap(h) = Slot(o, h, j + m)
    BY <1>6, SlotFacts
<1>9. Mod(j + m, Bases) = Mod(k, Bases)
    <2>1. Mod(m, Bases) = Mod(k - j, Bases)
        BY <1>1, <1>3, RemainderTwice DEF m
    <2> DEFINE d == k - j
               v == j + m
    <2>2. /\ v \in Int /\ d \in Int /\ m \in Int
          /\ Added(v, j, m) /\ Added(k, j, d)
        BY <1>2, <1>6 DEF Added
    <2> HIDE DEF d, v
    <2>3. Mod(v, Bases) = Mod(k, Bases)
        BY <1>1, <1>2, <2>1, <2>2, RemainderPlus DEF d
    <2> QED
        BY <2>3 DEF v
<1>10. PICK p \in Nat \ {0} : Bases = p * Cap(h)
    BY Sizes
<1>11. Mod(j + m, Cap(h)) = Mod(k, Cap(h)) /\ j + m \in Int
    <2>1. j + m \in Int
        BY <1>6
    <2>2. Mod(j + m, p * Cap(h)) = Mod(k, p * Cap(h))
        BY <1>9, <1>10
    <2> QED
        BY <1>1, <1>2, <2>1, <2>2, RemainderOfFactor
<1>12. Slot(o, h, j + m) = Slot(o, h, k)
    BY <1>2, <1>11, SameSlot
<1>13. Wrap(Base(Wrap(n)) - Wrap(j * BlockSize)) \div BlockSize = m
    BY <1>3, <1>5, <1>6, <1>7
<1> QED
    BY <1>8, <1>12, <1>13 DEF k

-----------------------------------------------------------------------------
(* Local variables *)

Locals ==
    /\ DOMAIN cpc = Consumers
    /\ DOMAIN want = Consumers /\ DOMAIN over = Consumers
    /\ DOMAIN mine = Consumers /\ DOMAIN left = Consumers
    /\ DOMAIN at = Consumers /\ DOMAIN header = Consumers
    /\ DOMAIN slot = Consumers /\ DOMAIN block = Consumers
    /\ DOMAIN part = Consumers /\ DOMAIN expect = Consumers
    /\ call.count \in Nat

LEMMA LocalsInit == Init => Locals
BY DEF Init, Locals, NoCall

LEMMA LocalsConsume ==
    ASSUME Locals, NEW c \in Consumers, Consume(c)
    PROVE  Locals'
<1> USE DEF Locals, producer, Goto
<1>1. CASE Claim(c)
    BY <1>1 DEF Claim
<1>2. CASE LoadOvercommit(c) \/ LoadCount(c) \/ Decide(c) \/ GiveBack(c)
    BY <1>2 DEF LoadOvercommit, LoadCount, Decide, GiveBack, Leave
<1>3. CASE Take(c)
    BY <1>3 DEF Take
<1>4. CASE LoadIndex(c) \/ LoadTail(c) \/ LoadKey(c)
    BY <1>4 DEF LoadIndex, LoadTail, LoadKey
<1>5. CASE Move(c)
    BY <1>5 DEF Move
<1>6. CASE SetEmpty(c)
    BY <1>6 DEF SetEmpty, Emptied, NextBlock, Leave
<1>7. CASE NullEntry(c)
    BY <1>7 DEF NullEntry
<1>8. CASE Free(c)
    BY <1>8 DEF Free, NextBlock, Leave
<1>9. ASSUME NEW n \in DequeueCounts, DequeueCall(c, n) PROVE Locals'
    BY <1>9 DEF DequeueCall
<1> QED
    BY <1>1, <1>2, <1>3, <1>4, <1>5, <1>6, <1>7, <1>8, <1>9 DEF Consume

(* The variables of the consumers, and what the producer does with call. *)
LEMMA ProduceFrame ==
    ASSUME Produce
    PROVE  /\ UNCHANGED consumer /\ UNCHANGED claimed
           /\ UNCHANGED <<headIndex, dequeueOptimisticCount, dequeueOvercommit>>
           /\ Publish \/ UNCHANGED <<tailIndex, enqueued>>
           /\ \/ call' = call \/ call' = NoCall
              \/ \E n \in EnqueueCounts, isSingle \in BOOLEAN :
                    call' = [single |-> isSingle, count |-> n]
<1> USE DEF others, indices
<1>1. CASE Room \/ Insert \/ InsertFails \/ NewIndex \/ Reinsert \/ InsertTail
    BY <1>1 DEF Room, Insert, InsertFails, NewIndex, Reinsert, InsertTail, Fail
<1>2. CASE GetBlock \/ GetBlockFails \/ Link \/ ConstructThrows \/ UndoBlock
    BY <1>2 DEF GetBlock, GetBlockFails, Link, ConstructThrows, UndoBlock, Fail
<1>3. CASE Construct \/ ConstructFails
    BY <1>3 DEF Construct, ConstructFails, Fail
<1>4. CASE Publish
    BY <1>4 DEF Publish
<1>5. ASSUME NEW n \in EnqueueCounts, NEW isSingle \in BOOLEAN,
             EnqueueCall(n, isSingle)
      PROVE  /\ UNCHANGED others /\ UNCHANGED indices
             /\ call' = [single |-> isSingle, count |-> n]
    BY <1>5 DEF EnqueueCall
<1> QED
    BY <1>1, <1>2, <1>3, <1>4, <1>5 DEF Produce

LEMMA LocalsProduce ==
    ASSUME Locals, Produce
    PROVE  Locals'
<1>1. UNCHANGED consumer
    BY ProduceFrame
<1>2. call'.count \in Nat
    <2>1. CASE call' = call
        BY <2>1 DEF Locals
    <2>2. CASE call' = NoCall
        BY <2>2 DEF NoCall
    <2>3. ASSUME NEW n \in EnqueueCounts, NEW isSingle \in BOOLEAN,
                 call' = [single |-> isSingle, count |-> n]
          PROVE  call'.count \in Nat
        BY <2>3, CountsAssumption
    <2> QED
        BY <2>1, <2>2, <2>3, ProduceFrame
<1> QED
    BY <1>1, <1>2 DEF Locals, consumer

LEMMA LocalsAlways == Spec => []Locals
<1>1. ASSUME Locals, [Next]_vars PROVE Locals'
    <2>1. CASE UNCHANGED vars
        BY <1>1, <2>1 DEF Locals, vars, others, consumer, producer
    <2> QED
        BY <1>1, <2>1, LocalsProduce, LocalsConsume DEF Next
<1> QED
    BY <1>1, LocalsInit, PTL DEF Spec

-----------------------------------------------------------------------------
(* Claims. What is claimed lies on a line of elements: x[c] is where the     *)
(* claim of c starts when every claim before it is granted in full, X where  *)
(* the last one ends, b[c] where c saw the line end, and m the most that a   *)
(* call claims. What a call reads of tailIndex before its claim bounds only  *)
(* what it asks for: nothing here rests on it.                               *)

Size(c) == IF cpc[c] = "take" THEN left[c] ELSE want[c]
OnLine == {c \in Consumers : cpc[c] \in {"take", "decide", "give"}}

Counters ==
    /\ enqueued \in Nat /\ claimed \in Nat /\ claimed <= enqueued
    /\ tailIndex = Wrap(enqueued) /\ headIndex = Wrap(claimed)
    /\ dequeueOptimisticCount \in 0 .. (IndexValues - 1)
    /\ dequeueOvercommit \in 0 .. (IndexValues - 1)

Wanted(m) ==
    /\ m \in Nat /\ m \in DequeueCounts \union {0}
    /\ \A c \in Consumers :
        /\ cpc[c] \in {"over", "count", "claim", "decide", "give"} =>
            want[c] \in 1 .. m
        /\ cpc[c] \in {"over", "count"} => mine[c] \in Int
        /\ cpc[c] \in {"count", "claim", "decide"} => over[c] \in Int
        /\ cpc[c] \in {"count", "claim"} =>
            Wrap(dequeueOvercommit - over[c]) <= MaxLate

Line(X, x) ==
    /\ X \in Int /\ x \in [Consumers -> Int]
    /\ claimed <= X
    /\ Wrap(dequeueOptimisticCount - dequeueOvercommit) = Wrap(X)
    /\ \A c \in OnLine :
        Size(c) \in Nat \ {0} /\ claimed <= x[c] /\ x[c] + Size(c) <= X
    /\ \A c, d \in OnLine :
        c # d => x[c] + Size(c) <= x[d] \/ x[d] + Size(d) <= x[c]
    /\ \A c \in OnLine : cpc[c] = "take" => x[c] + Size(c) <= enqueued
    /\ \A c \in OnLine : cpc[c] = "give" =>
        left[c] \in 0 .. want[c] /\ (left[c] # 0 => x[c] + left[c] <= enqueued)

(* The line is longer than what is enqueued only by claims under way. *)
Under == {c \in OnLine : cpc[c] \in {"decide", "give"}}

Covered(X, x) ==
    \A p \in Int : enqueued <= p /\ p < X =>
        \E c \in Under : x[c] <= p /\ p < x[c] + Size(c)

(* A claim under way is all there, or starts no later than it seemed to. *)
Seen(x, b) ==
    /\ b \in [Consumers -> Int]
    /\ \A c \in OnLine : cpc[c] = "decide" =>
        /\ mine[c] \in Int
        /\ Wrap(mine[c] - over[c]) = Wrap(b[c])
        /\ b[c] - enqueued <= IndexValues \div 2
        /\ x[c] + Size(c) <= enqueued \/ x[c] <= b[c]

Claims(X, x, b, m) ==
    Counters /\ Wanted(m) /\ Line(X, x) /\ Covered(X, x) /\ Seen(x, b)

ClaimsInv == \E X \in Int, x, b \in [Consumers -> Int], m \in Nat : Claims(X, x, b, m)

LEMMA ClaimsInit == Init => ClaimsInv
<1> SUFFICES ASSUME Init PROVE ClaimsInv
    OBVIOUS
<1> DEFINE z == [c \in Consumers |-> 0]
<1>1. /\ OnLine = {} /\ enqueued = 0 /\ claimed = 0 /\ tailIndex = 0 /\ headIndex = 0
      /\ dequeueOptimisticCount = 0 /\ dequeueOvercommit = 0
      /\ \A c \in Consumers : cpc[c] = "idle"
    BY DEF Init, OnLine
<1>2. Wrap(0) = 0 /\ 0 \in 0 .. (IndexValues - 1)
    <2>1. 0 \in 0 .. (IndexValues - 1)
        BY Sizes
    <2> QED
        BY <2>1, WrapFacts
<1>3. Counters
    BY <1>1, <1>2 DEF Counters
<1>4. Wanted(0) /\ Line(0, z) /\ Covered(0, z) /\ Seen(z, z)
    BY <1>1, <1>2 DEF Wanted, Line, Covered, Seen
<1>5. z \in [Consumers -> Int] /\ 0 \in Int /\ 0 \in Nat /\ Claims(0, z, z, 0)
    BY <1>3, <1>4 DEF Claims
<1> QED
    BY <1>5 DEF ClaimsInv

Claiming == {"over", "count", "claim", "decide", "give", "take"}

(* A step that claims nothing, and may enqueue. *)
LEMMA ClaimsStay ==
    ASSUME NEW X, NEW x, NEW b, NEW m, Claims(X, x, b, m), IndexValues \div 2 \in Int,
           UNCHANGED <<headIndex, claimed, dequeueOptimisticCount, dequeueOvercommit>>,
           enqueued' \in Nat, enqueued <= enqueued', tailIndex' = Wrap(enqueued'),
           \A c \in Consumers :
                \/ cpc'[c] \notin Claiming /\ cpc[c] \notin Claiming
                \/ /\ cpc'[c] = cpc[c] /\ want'[c] = want[c] /\ over'[c] = over[c]
                   /\ mine'[c] = mine[c] /\ left'[c] = left[c]
    PROVE  Claims(X, x, b, m)'
<1>1. Counters'
    BY DEF Claims, Counters
<1> USE DEF Claiming
<1>2. Wanted(m)'
    BY DEF Claims, Wanted
<1>3. OnLine' = OnLine
    BY DEF OnLine
<1>4. ASSUME NEW c \in OnLine
      PROVE  /\ c \in Consumers /\ cpc'[c] = cpc[c] /\ want'[c] = want[c]
             /\ over'[c] = over[c] /\ mine'[c] = mine[c] /\ left'[c] = left[c]
             /\ Size(c)' = Size(c)
    BY DEF OnLine, Size
<1>5. Line(X, x)'
    BY <1>3, <1>4 DEF Claims, Counters, Line
<1>6. Covered(X, x)'
    BY <1>3, <1>4 DEF Claims, Counters, Covered, Under
<1>7. Seen(x, b)'
    BY <1>3, <1>4 DEF Claims, Counters, Line, Seen
<1> QED
    BY <1>1, <1>2, <1>5, <1>6, <1>7 DEF Claims

(* Where the claims are when a step leaves them and their counters alone. *)
LEMMA ClaimsElsewhere ==
    ASSUME NEW X, NEW x, NEW b, NEW m, NEW k, Claims(X, x, b, m), Wanted(k)',
           UNCHANGED <<indices, enqueued, claimed>>,
           NEW c \in Consumers, c \notin OnLine, c \notin OnLine',
           \A d \in Consumers : d # c =>
                /\ cpc'[d] = cpc[d] /\ want'[d] = want[d] /\ over'[d] = over[d]
                /\ mine'[d] = mine[d] /\ left'[d] = left[d]
    PROVE  Claims(X, x, b, k)'
<1>1. Counters'
    BY DEF Claims, Counters, indices
<1>2. OnLine' = OnLine
    BY DEF OnLine
<1>3. ASSUME NEW d \in OnLine
      PROVE  /\ d \in Consumers /\ cpc'[d] = cpc[d] /\ Size(d)' = Size(d)
             /\ over'[d] = over[d] /\ mine'[d] = mine[d] /\ left'[d] = left[d]
             /\ want'[d] = want[d]
    BY DEF OnLine, Size
<1>4. Line(X, x)'
    BY <1>2, <1>3 DEF Claims, Line, indices
<1>5. Covered(X, x)'
    BY <1>2, <1>3 DEF Claims, Covered, Under
<1>6. Seen(x, b)'
    BY <1>2, <1>3 DEF Claims, Seen
<1> QED
    BY <1>1, <1>4, <1>5, <1>6 DEF Claims

LEMMA ClaimsCall ==
    ASSUME Locals, NEW X \in Int, NEW x, NEW b, NEW m \in Nat, Claims(X, x, b, m),
           NEW c \in Consumers, NEW n \in DequeueCounts, DequeueCall(c, n)
    PROVE  ClaimsInv'
<1> DEFINE k == IF n <= m THEN m ELSE n
<1>1. n \in Nat \ {0} /\ k \in Nat /\ k \in DequeueCounts \union {0} /\ m <= k /\ n <= k
    <2>1. n \in Nat \ {0} /\ m \in DequeueCounts \union {0}
        BY CountsAssumption DEF Claims, Wanted
    <2>2. CASE n <= m
        <3>1. k = m
            BY <2>2
        <3> QED
            BY <2>1, <2>2, <3>1
    <2>3. CASE ~(n <= m)
        <3>1. k = n
            BY <2>3
        <3> HIDE DEF k
        <3>2. n \in DequeueCounts \union {0}
            OBVIOUS
        <3> QED
            BY <2>1, <2>3, <3>1, <3>2
    <2> HIDE DEF k
    <2> QED
        BY <2>2, <2>3
<1> HIDE DEF k
<1>2. /\ want'[c] = n /\ mine'[c] = tailIndex /\ cpc'[c] = "over" /\ cpc[c] = "idle"
      /\ \A d \in Consumers : d # c =>
            /\ cpc'[d] = cpc[d] /\ want'[d] = want[d] /\ over'[d] = over[d]
            /\ mine'[d] = mine[d] /\ left'[d] = left[d]
      /\ UNCHANGED <<indices, enqueued, claimed>>
    BY DEF DequeueCall, Goto, Locals
<1>3. tailIndex \in Int /\ dequeueOvercommit' = dequeueOvercommit
    BY <1>2, WrapFacts DEF Claims, Counters, indices
<1>4. Wanted(k)'
    BY <1>1, <1>2, <1>3 DEF Claims, Wanted
<1>5. c \notin OnLine /\ c \notin OnLine'
    BY <1>2 DEF OnLine
<1>6. Claims(X, x, b, k)'
    BY <1>2, <1>4, <1>5, ClaimsElsewhere
<1>7. x \in [Consumers -> Int] /\ b \in [Consumers -> Int]
    BY DEF Claims, Line, Seen
<1> QED
    BY <1>1, <1>6, <1>7 DEF ClaimsInv

LEMMA ClaimsLoadOvercommit ==
    ASSUME Locals, NEW X \in Int, NEW x, NEW b, NEW m \in Nat, Claims(X, x, b, m),
           NEW c \in Consumers, LoadOvercommit(c)
    PROVE  ClaimsInv'
<1>1. /\ cpc[c] = "over" /\ cpc'[c] = "count" /\ over'[c] = dequeueOvercommit
      /\ want'[c] = want[c] /\ mine'[c] = mine[c]
      /\ \A d \in Consumers : d # c =>
            /\ cpc'[d] = cpc[d] /\ want'[d] = want[d] /\ over'[d] = over[d]
            /\ mine'[d] = mine[d] /\ left'[d] = left[d]
      /\ UNCHANGED <<indices, enqueued, claimed>>
    BY DEF LoadOvercommit, Goto, Locals
<1>2. Wrap(dequeueOvercommit - dequeueOvercommit) = 0 /\ MaxLate \in Nat
    <2>1. IndexValues \in Nat \ {0}
        BY Sizes
    <2>2. Wrap(0) = 0
        <3>1. 0 \in 0 .. (IndexValues - 1) /\ 0 \in Int
            BY <2>1
        <3> QED
            BY <3>1, WrapFacts
    <2>3. dequeueOvercommit - dequeueOvercommit = 0
        BY DEF Claims, Counters
    <2> QED
        BY <2>2, <2>3, ClaimsAssumption
<1>3. dequeueOvercommit' = dequeueOvercommit /\ dequeueOvercommit \in Int
    BY <1>1 DEF Claims, Counters, indices
<1>4. Wanted(m)'
    BY <1>1, <1>2, <1>3 DEF Claims, Wanted
<1>5. c \notin OnLine /\ c \notin OnLine'
    BY <1>1 DEF OnLine
<1>6. Claims(X, x, b, m)'
    BY <1>1, <1>4, <1>5, ClaimsElsewhere
<1>7. x \in [Consumers -> Int] /\ b \in [Consumers -> Int]
    BY DEF Claims, Line, Seen
<1> QED
    BY <1>6, <1>7 DEF ClaimsInv

LEMMA ClaimsLoadCount ==
    ASSUME Locals, NEW X \in Int, NEW x, NEW b, NEW m \in Nat, Claims(X, x, b, m),
           NEW c \in Consumers, LoadCount(c)
    PROVE  ClaimsInv'
<1> DEFINE desired == Claimable(mine[c], dequeueOptimisticCount, over[c])
<1>1. /\ cpc[c] = "count" /\ UNCHANGED <<indices, enqueued, claimed>>
      /\ IF LessThan(0, desired)
         THEN /\ want'[c] = Minimum(desired, want[c]) /\ cpc'[c] = "claim"
              /\ over'[c] = over[c]
         ELSE cpc'[c] = "idle"
      /\ \A d \in Consumers : d # c =>
            /\ cpc'[d] = cpc[d] /\ want'[d] = want[d] /\ over'[d] = over[d]
            /\ mine'[d] = mine[d] /\ left'[d] = left[d]
    BY DEF LoadCount, Leave, Goto, Locals
<1>2. want[c] \in 1 .. m /\ over[c] \in Int /\ mine[c] \in Int
    BY <1>1 DEF Claims, Wanted
<1>3. LessThan(0, desired) => Minimum(desired, want[c]) \in 1 .. m
    <2> SUFFICES ASSUME LessThan(0, desired)
                 PROVE  Minimum(desired, want[c]) \in 1 .. m
        OBVIOUS
    <2> DEFINE a == mine[c] - (dequeueOptimisticCount - over[c])
    <2>1. a \in Int /\ desired = Wrap(a)
        BY <1>2 DEF Claims, Counters, Claimable
    <2>2. IndexValues \in Nat \ {0} /\ IndexValues \div 2 \in Nat
        <3>1. IndexValues \in Nat \ {0}
            BY Sizes
        <3> QED
            BY <3>1
    <2>3. Wrap(a) \in 0 .. (IndexValues - 1) /\ Wrap(0) = 0
        <3> HIDE DEF a
        <3>1. 0 \in 0 .. (IndexValues - 1)
            BY <2>2
        <3> QED
            BY <2>1, <3>1, WrapFacts
    <2>4. Wrap(0 - desired) > IndexValues \div 2
        BY DEF LessThan
    <2>5. desired # 0
        <3> HIDE DEF desired
        <3>1. desired = 0 => 0 - desired = 0
            OBVIOUS
        <3> QED
            BY <2>2, <2>3, <2>4, <3>1
    <2>6. desired \in Nat \ {0}
        BY <2>1, <2>2, <2>3, <2>5
    <2> HIDE DEF desired
    <2> QED
        BY <1>2, <2>6 DEF Minimum
<1> HIDE DEF desired
<1>4. Wanted(m)'
    BY <1>1, <1>2, <1>3 DEF Claims, Wanted, indices
<1>5. c \notin OnLine /\ c \notin OnLine'
    BY <1>1 DEF OnLine
<1>6. Claims(X, x, b, m)'
    BY <1>1, <1>4, <1>5, ClaimsElsewhere
<1>7. x \in [Consumers -> Int] /\ b \in [Consumers -> Int]
    BY DEF Claims, Line, Seen
<1> QED
    BY <1>6, <1>7 DEF ClaimsInv

(* Claims under way are disjoint: there is no room for more of them than for
   one of every other consumer. *)
LEMMA LineIsShort ==
    ASSUME NEW X \in Int, NEW x, NEW b, NEW m \in Nat, Claims(X, x, b, m),
           NEW c \in Consumers, c \notin OnLine
    PROVE  X - enqueued <= (Cardinality(Consumers) - 1) * m
<1> DEFINE D == Consumers \ {c}
           W == D \X (0 .. (m - 1))
           P == enqueued .. (X - 1)
           g == [p \in P |-> CHOOSE u \in W : x[u[1]] + u[2] = p]
<1>1. enqueued \in Nat /\ x \in [Consumers -> Int]
    BY DEF Claims, Counters, Line
<1>2. IsFiniteSet(D) /\ Cardinality(D) = Cardinality(Consumers) - 1
    <2>1. IsFiniteSet(Consumers)
        BY ClaimsAssumption
    <2>2. /\ IsFiniteSet(Consumers \ {c})
          /\ Cardinality(Consumers \ {c})
                = IF c \in Consumers THEN Cardinality(Consumers) - 1
                                     ELSE Cardinality(Consumers)
        BY <2>1, FS_RemoveElement
    <2>3. c \in Consumers
        OBVIOUS
    <2> QED
        BY <2>2, <2>3, Zenon
<1>3. IsFiniteSet(0 .. (m - 1)) /\ Cardinality(0 .. (m - 1)) = m
    <2>1. 0 \in Int /\ m - 1 \in Int
        OBVIOUS
    <2>2. /\ IsFiniteSet(0 .. (m - 1))
          /\ Cardinality(0 .. (m - 1))
                = IF 0 > m - 1 THEN 0 ELSE (m - 1) - 0 + 1
        BY <2>1, FS_Interval
    <2> QED
        BY <2>2
<1>4. IsFiniteSet(W) /\ Cardinality(W) = (Cardinality(Consumers) - 1) * m
    <2> HIDE DEF D
    <2> QED
        BY <1>2, <1>3, FS_Product
<1>5. ASSUME NEW p \in P PROVE \E u \in W : x[u[1]] + u[2] = p
    <2>1. p \in Int /\ enqueued <= p /\ p < X
        BY <1>1
    <2>2. PICK d \in Under : x[d] <= p /\ p < x[d] + Size(d)
        BY <2>1 DEF Claims, Covered
    <2>3. d \in D /\ x[d] \in Int /\ Size(d) \in 1 .. m
        BY <1>1, <2>2 DEF Under, OnLine, Claims, Wanted, Size
    <2> DEFINE i == p - x[d]
               u == <<d, i>>
    <2>4. i \in 0 .. (m - 1) /\ x[d] + i = p
        BY <2>1, <2>2, <2>3
    <2>5. u \in W /\ u[1] = d /\ u[2] = i
        BY <2>3, <2>4
    <2> HIDE DEF i
    <2> QED
        BY <2>4, <2>5
<1>6. \A p \in P : g[p] \in W /\ x[g[p][1]] + g[p][2] = p
    <2>1. ASSUME NEW p \in P PROVE g[p] \in W /\ x[g[p][1]] + g[p][2] = p
        <3>1. g[p] = CHOOSE u \in W : x[u[1]] + u[2] = p
            OBVIOUS
        <3> HIDE DEF g, W, P
        <3> QED
            BY <1>5, <3>1
    <2> HIDE DEF g, W, P
    <2> QED
        BY <2>1
<1>7. g \in Injection(P, W)
    <2>1. DOMAIN g = P /\ g = [p \in P |-> g[p]]
        OBVIOUS
    <2> HIDE DEF g, W, P
    <2> QED
        BY <1>6, <2>1 DEF Injection, IsInjective
<1>8. IsFiniteSet(P) /\ Cardinality(P) <= Cardinality(W)
    <2> HIDE DEF g, W, P
    <2> QED
        BY <1>4, <1>7, FS_Injection
<1>9. CASE enqueued <= X
    <2>1. Cardinality(P) = X - enqueued
        <3>1. Cardinality(P) = IF enqueued > X - 1 THEN 0 ELSE (X - 1) - enqueued + 1
            BY <1>1, FS_Interval
        <3> QED
            BY <1>1, <1>9, <3>1
    <2> HIDE DEF P, W
    <2> QED
        BY <1>4, <1>8, <2>1
<1>10. CASE X < enqueued
    <2>1. Cardinality(W) \in Nat
        <3> HIDE DEF W
        <3> QED
            BY <1>4, FS_CardinalityType
    <2> HIDE DEF W
    <2> QED
        BY <1>1, <1>4, <1>10, <2>1
<1> QED
    BY <1>1, <1>9, <1>10

LEMMA ClaimsClaim ==
    ASSUME Locals, NEW X \in Int, NEW x, NEW b, NEW m \in Nat, Claims(X, x, b, m),
           NEW c \in Consumers, Claim(c)
    PROVE  ClaimsInv'
<1> DEFINE w == want[c]
           late == Wrap(dequeueOvercommit - over[c])
<1>1. cpc[c] = "claim" /\ w \in 1 .. m /\ over[c] \in Int /\ c \notin OnLine
    BY DEF Claim, Claims, Wanted, OnLine
<1>2. /\ enqueued \in Nat /\ claimed \in Nat /\ dequeueOptimisticCount \in Int
      /\ dequeueOvercommit \in Int
      /\ x \in [Consumers -> Int] /\ b \in [Consumers -> Int] /\ claimed <= X
    BY DEF Claims, Counters, Line, Seen
<1>3. late \in Int /\ w \in Int
    <2>1. dequeueOvercommit - over[c] \in Int
        BY <1>1, <1>2
    <2> QED
        BY <1>1, <2>1, WrapFacts
<1>4. PICK Y \in Int : Y = X + w
    BY <1>3
<1>5. PICK B \in Int : B = X + late
    <2> HIDE DEF late
    <2> QED
        BY <1>3
<1> DEFINE y == [x EXCEPT ![c] = X]
           e == [b EXCEPT ![c] = B]
<1>6. /\ cpc'[c] = "decide" /\ mine'[c] = dequeueOptimisticCount
      /\ dequeueOptimisticCount' = Wrap(dequeueOptimisticCount + w)
      /\ UNCHANGED <<tailIndex, headIndex, dequeueOvercommit, want, over, left,
                     enqueued, claimed>>
      /\ \A d \in Consumers : d # c => cpc'[d] = cpc[d] /\ mine'[d] = mine[d]
    BY DEF Claim, Goto, Locals
<1>7. OnLine' = OnLine \union {c}
    BY <1>6 DEF OnLine
<1>8. Wrap(dequeueOptimisticCount' - dequeueOvercommit') = Wrap(Y)
    <2> DEFINE u == dequeueOptimisticCount + w
               v == dequeueOptimisticCount - dequeueOvercommit
               s == u - dequeueOvercommit
    <2>1. /\ u \in Int /\ v \in Int /\ s \in Int /\ Y \in Int /\ w \in Int
          /\ Added(s, v, w) /\ Added(Y, X, w)
        BY <1>1, <1>2, <1>4 DEF Added
    <2>2. Wrap(v) = Wrap(X)
        BY DEF Claims, Line
    <2>3. Wrap(Wrap(u) - dequeueOvercommit) = Wrap(s)
        <3> HIDE DEF u
        <3> QED
            BY <1>2, <2>1, WrapOfWraps
    <2>4. Wrap(s) = Wrap(Y)
        <3> HIDE DEF s, v, w
        <3> QED
            BY <2>1, <2>2, WrapPlus
    <2> QED
        BY <1>6, <2>3, <2>4
<1>9. late \in 0 .. (IndexValues - 1) /\ late \in Nat /\ late <= MaxLate
    <2>1. late \in 0 .. (IndexValues - 1)
        BY <1>1, <1>2, WrapFacts
    <2>2. late <= MaxLate
        BY <1>1 DEF Claims, Wanted
    <2> HIDE DEF late
    <2> QED
        BY <2>1, <2>2
<1>10. B \in Int /\ X <= B /\ B - enqueued <= IndexValues \div 2
    <2>1. X - enqueued <= (Cardinality(Consumers) - 1) * m
        BY <1>1, LineIsShort
    <2>2. m \in DequeueCounts
        BY <1>1 DEF Claims, Wanted
    <2>3. /\ MaxLate \in Nat /\ Cardinality(Consumers) \in Nat
          /\ (Cardinality(Consumers) - 1) * m + MaxLate <= IndexValues \div 2
        BY <2>2, ClaimsAssumption, FS_CardinalityType
    <2>4. IndexValues \div 2 \in Int
        BY Sizes
    <2> DEFINE t == (Cardinality(Consumers) - 1) * m
    <2>5. t \in Int
        BY <2>3
    <2> HIDE DEF t, late
    <2>6. X - enqueued <= t /\ t + MaxLate <= IndexValues \div 2
        BY <2>1, <2>3 DEF t
    <2> QED
        BY <1>2, <1>9, <1>5, <2>3, <2>4, <2>5, <2>6
<1>11. Wrap(mine'[c] - over'[c]) = Wrap(B)
    <2> DEFINE v == dequeueOptimisticCount - dequeueOvercommit
               u == dequeueOvercommit - over[c]
               s == dequeueOptimisticCount - over[c]
    <2>1. /\ v \in Int /\ u \in Int /\ s \in Int /\ late \in Int
          /\ Added(s, v, u) /\ Added(B, X, late)
        BY <1>1, <1>2, <1>9, <1>5 DEF Added
    <2>2. Wrap(v) = Wrap(X)
        BY DEF Claims, Line
    <2>3. Wrap(u) = Wrap(late)
        <3>1. late = Wrap(u)
            OBVIOUS
        <3> HIDE DEF late, u
        <3> QED
            BY <2>1, <3>1, WrapFacts
    <2>4. Wrap(s) = Wrap(B)
        <3> HIDE DEF s, v, u, late
        <3> QED
            BY <1>10, <2>1, <2>2, <2>3, WrapPlus
    <2> QED
        BY <1>6, <2>4
<1>12. /\ y \in [Consumers -> Int] /\ e \in [Consumers -> Int] /\ Y \in Int
      /\ y[c] = X /\ e[c] = B /\ Size(c)' = w /\ w \in Nat \ {0} /\ Y = X + w
    <2>1. Size(c)' = w
        BY <1>6 DEF Size
    <2> QED
        BY <1>1, <1>2, <1>10, <1>4, <2>1
<1>13. ASSUME NEW d \in OnLine
       PROVE  /\ d \in Consumers /\ d # c /\ cpc'[d] = cpc[d] /\ mine'[d] = mine[d]
              /\ left'[d] = left[d] /\ want'[d] = want[d]
              /\ over'[d] = over[d] /\ y[d] = x[d] /\ e[d] = b[d] /\ Size(d)' = Size(d)
    BY <1>1, <1>2, <1>6 DEF OnLine, Size
<1> HIDE DEF y, e, late
<1>14. Counters'
    <2>1. dequeueOptimisticCount + w \in Int
        BY <1>1, <1>2
    <2>2. dequeueOptimisticCount' \in 0 .. (IndexValues - 1)
        BY <1>6, <2>1, WrapFacts
    <2> QED
        BY <1>6, <2>2 DEF Claims, Counters
<1>15. Wanted(m)'
    BY <1>1, <1>6 DEF Claims, Wanted
<1>16. Line(Y, y)'
    <2>1. claimed' <= Y
        BY <1>2, <1>6, <1>12
    <2>2. ASSUME NEW d \in OnLine'
          PROVE  Size(d)' \in Nat \ {0} /\ claimed' <= y[d] /\ y[d] + Size(d)' <= Y
        <3>1. CASE d = c
            BY <1>2, <1>6, <1>12, <3>1
        <3>2. CASE d \in OnLine
            <4>1. /\ Size(d) \in Nat \ {0} /\ claimed <= x[d] /\ x[d] + Size(d) <= X
                  /\ x[d] \in Int
                BY <1>13, <3>2 DEF Claims, Line
            <4> QED
                BY <1>2, <1>6, <1>12, <1>13, <3>2, <4>1
        <3> QED
            BY <1>7, <3>1, <3>2
    <2>3. ASSUME NEW d \in OnLine', NEW f \in OnLine', d # f
          PROVE  y[d] + Size(d)' <= y[f] \/ y[f] + Size(f)' <= y[d]
        <3>1. CASE d = c
            <4>1. f \in OnLine
                BY <1>7, <2>3, <3>1
            <4> QED
                BY <1>12, <1>13, <3>1, <4>1 DEF Claims, Line
        <3>2. CASE f = c
            <4>1. d \in OnLine
                BY <1>7, <2>3, <3>2
            <4> QED
                BY <1>12, <1>13, <3>2, <4>1 DEF Claims, Line
        <3>3. CASE d # c /\ f # c
            <4>1. d \in OnLine /\ f \in OnLine
                BY <1>7, <3>3
            <4> QED
                BY <1>13, <2>3, <4>1 DEF Claims, Line
        <3> QED
            BY <3>1, <3>2, <3>3
    <2>4. ASSUME NEW d \in OnLine', cpc'[d] = "take"
          PROVE  y[d] + Size(d)' <= enqueued'
        BY <1>6, <1>7, <1>13, <2>4 DEF Claims, Line
    <2>5. ASSUME NEW d \in OnLine', cpc'[d] = "give"
          PROVE  /\ left'[d] \in 0 .. want'[d]
                 /\ left'[d] # 0 => y[d] + left'[d] <= enqueued'
        BY <1>6, <1>7, <1>13, <2>5 DEF Claims, Line
    <2> QED
        BY <1>8, <1>12, <2>1, <2>2, <2>3, <2>4, <2>5 DEF Line
<1>17. Covered(Y, y)'
    <2> SUFFICES ASSUME NEW p \in Int, enqueued' <= p, p < Y
                 PROVE  \E d \in Under' : y[d] <= p /\ p < y[d] + Size(d)'
        BY DEF Covered
    <2>1. CASE p < X
        <3>1. PICK d \in Under : x[d] <= p /\ p < x[d] + Size(d)
            BY <1>6, <2>1 DEF Claims, Covered
        <3>2. d \in OnLine /\ d \in Under'
            BY <1>7, <1>13 DEF Under
        <3> QED
            BY <1>13, <3>1, <3>2
    <2>2. CASE X <= p
        <3>1. c \in Under'
            BY <1>6, <1>7 DEF Under
        <3> QED
            BY <1>12, <2>2, <3>1
    <2> QED
        BY <2>1, <2>2
<1>18. Seen(y, e)'
    <2>1. ASSUME NEW d \in OnLine', cpc'[d] = "decide"
          PROVE  /\ mine'[d] \in Int
                 /\ Wrap(mine'[d] - over'[d]) = Wrap(e[d])
                 /\ e[d] - enqueued' <= IndexValues \div 2
                 /\ y[d] + Size(d)' <= enqueued' \/ y[d] <= e[d]
        <3>1. CASE d = c
            BY <1>2, <1>6, <1>10, <1>11, <1>12, <3>1
        <3>2. CASE d \in OnLine
            BY <1>6, <1>13, <2>1, <3>2 DEF Claims, Seen
        <3> QED
            BY <1>7, <3>1, <3>2
    <2> QED
        BY <1>12, <2>1 DEF Seen
<1>19. Claims(Y, y, e, m)'
    BY <1>14, <1>15, <1>16, <1>17, <1>18 DEF Claims
<1> QED
    BY <1>12, <1>19 DEF ClaimsInv

LEMMA ClaimsDecide ==
    ASSUME Locals, NEW X \in Int, NEW x, NEW b, NEW m \in Nat, Claims(X, x, b, m),
           NEW c \in Consumers, Decide(c)
    PROVE  ClaimsInv'
<1> DEFINE actual == Claimable(tailIndex, mine[c], over[c])
           granted == IF LessThan(0, actual) THEN Minimum(want[c], actual) ELSE 0
<1>1. /\ cpc[c] = "decide" /\ c \in OnLine /\ Size(c) = want[c]
      /\ over[c] \in Int /\ mine[c] \in Int /\ want[c] \in Nat \ {0}
      /\ claimed <= x[c] /\ x[c] + want[c] <= X
      /\ Wrap(mine[c] - over[c]) = Wrap(b[c])
      /\ b[c] - enqueued <= IndexValues \div 2
      /\ x[c] + want[c] <= enqueued \/ x[c] <= b[c]
    <2>1. cpc[c] = "decide" /\ c \in OnLine /\ Size(c) = want[c]
        BY DEF Decide, OnLine, Size
    <2>2. over[c] \in Int
        BY <2>1 DEF Claims, Wanted
    <2>3. want[c] \in Nat \ {0} /\ claimed <= x[c] /\ x[c] + want[c] <= X
        BY <2>1 DEF Claims, Line
    <2> QED
        BY <2>1, <2>2, <2>3 DEF Claims, Seen
<1>2. /\ enqueued \in Nat /\ claimed \in Nat /\ dequeueOptimisticCount \in Int
      /\ dequeueOvercommit \in Int /\ tailIndex = Wrap(enqueued)
      /\ x \in [Consumers -> Int] /\ b \in [Consumers -> Int]
      /\ IndexValues \div 2 \in Int
    BY Sizes DEF Claims, Counters, Line, Seen
<1>3. actual = Wrap(enqueued - b[c]) /\ enqueued - b[c] \in Int
    <2> DEFINE v == mine[c] - over[c]
               u == Wrap(enqueued)
               s == u - v
               r == enqueued - b[c]
               e == enqueued
    <2>1. e \in Int /\ u \in Int /\ Wrap(u) = Wrap(e)
        BY <1>2, WrapFacts
    <2>2. v \in Int /\ r \in Int /\ b[c] \in Int /\ Wrap(v) = Wrap(b[c])
        BY <1>1, <1>2
    <2>3. s \in Int /\ Added(u, s, v) /\ Added(e, r, b[c])
        <3> HIDE DEF u, v
        <3> QED
            BY <1>2, <2>1, <2>2 DEF Added
    <2>4. Wrap(s) = Wrap(r)
        <3> HIDE DEF s, u, v, r, e
        <3> QED
            BY <2>1, <2>2, <2>3, WrapMinus
    <2> QED
        BY <1>2, <2>2, <2>4 DEF Claimable
<1>4. /\ granted \in 0 .. want[c]
      /\ granted # 0 => b[c] + granted <= enqueued
    <2>1. CASE LessThan(0, actual)
        <3>1. -(IndexValues \div 2) <= enqueued - b[c]
            BY <1>1, <1>2
        <3>2. actual <= enqueued - b[c] /\ actual \in Nat \ {0}
            BY <1>3, <2>1, <3>1, LessThanZero
        <3>3. granted = Minimum(want[c], actual)
            BY <2>1
        <3> HIDE DEF granted, actual
        <3> QED
            BY <1>1, <1>2, <3>2, <3>3 DEF Minimum
    <2>2. CASE ~LessThan(0, actual)
        <3>1. granted = 0
            BY <2>2
        <3> HIDE DEF granted
        <3> QED
            BY <1>1, <3>1
    <2> QED
        BY <2>1, <2>2
<1>5. /\ left'[c] = granted
      /\ cpc'[c] = IF granted = want[c] THEN "take" ELSE "give"
      /\ UNCHANGED <<indices, enqueued, claimed, want, over, mine>>
      /\ \A d \in Consumers : d # c => cpc'[d] = cpc[d] /\ left'[d] = left[d]
    BY DEF Decide, Goto, Locals
<1> HIDE DEF granted, actual
<1>6. granted # 0 => x[c] + granted <= enqueued
    BY <1>1, <1>2, <1>4
<1>7. OnLine' = OnLine
    BY <1>1, <1>5 DEF OnLine
<1>8. ASSUME NEW d \in OnLine
      PROVE  /\ d \in Consumers /\ Size(d)' = Size(d)
             /\ d # c => cpc'[d] = cpc[d] /\ left'[d] = left[d]
    BY <1>1, <1>5 DEF OnLine, Size
<1>9. Counters'
    BY <1>5 DEF Claims, Counters, indices
<1>10. Wanted(m)'
    BY <1>1, <1>5 DEF Claims, Wanted, indices
<1>11. Line(X, x)'
    <2>1. ASSUME NEW d \in OnLine', cpc'[d] = "take"
          PROVE  x[d] + Size(d)' <= enqueued'
        <3>1. CASE d = c
            <4>1. granted = want[c]
                BY <1>5, <2>1, <3>1
            <4> QED
                BY <1>1, <1>5, <1>6, <1>8, <3>1, <4>1
        <3>2. CASE d # c
            BY <1>5, <1>7, <1>8, <2>1, <3>2 DEF Claims, Line
        <3> QED
            BY <3>1, <3>2
    <2>2. ASSUME NEW d \in OnLine', cpc'[d] = "give"
          PROVE  /\ left'[d] \in 0 .. want'[d]
                 /\ left'[d] # 0 => x[d] + left'[d] <= enqueued'
        <3>1. CASE d = c
            BY <1>4, <1>5, <1>6, <3>1
        <3>2. CASE d # c
            BY <1>5, <1>7, <1>8, <2>2, <3>2 DEF Claims, Line
        <3> QED
            BY <3>1, <3>2
    <2> QED
        BY <1>5, <1>7, <1>8, <2>1, <2>2 DEF Claims, Line, indices
<1>12. Covered(X, x)'
    <2> SUFFICES ASSUME NEW p \in Int, enqueued' <= p, p < X
                 PROVE  \E d \in Under' : x[d] <= p /\ p < x[d] + Size(d)'
        BY DEF Covered
    <2>1. PICK d \in Under : x[d] <= p /\ p < x[d] + Size(d)
        BY <1>5 DEF Claims, Covered
    <2>2. d \in Under'
        <3>1. CASE d = c
            <4>1. granted # want[c]
                BY <1>1, <1>2, <1>5, <1>6, <2>1, <3>1
            <4> QED
                BY <1>1, <1>5, <1>7, <3>1, <4>1 DEF Under
        <3>2. CASE d # c
            BY <1>7, <1>8, <3>2 DEF Under
        <3> QED
            BY <3>1, <3>2
    <2> QED
        BY <1>8, <2>1, <2>2 DEF Under
<1>13. Seen(x, b)'
    <2>1. ASSUME NEW d \in OnLine', cpc'[d] = "decide"
          PROVE  d \in OnLine /\ cpc[d] = "decide" /\ Size(d)' = Size(d)
        BY <1>5, <1>7, <1>8, <2>1
    <2> QED
        BY <1>2, <1>5, <2>1 DEF Claims, Seen
<1>14. Claims(X, x, b, m)'
    BY <1>9, <1>10, <1>11, <1>12, <1>13 DEF Claims
<1> QED
    BY <1>2, <1>14 DEF ClaimsInv

LEMMA ClaimsGiveBack ==
    ASSUME Locals, NEW X \in Int, NEW x, NEW b, NEW m \in Nat, Claims(X, x, b, m),
           NEW c \in Consumers, GiveBack(c)
    PROVE  ClaimsInv'
<1> DEFINE granted == left[c]
<1>1. /\ cpc[c] = "give" /\ c \in OnLine /\ Size(c) = want[c]
      /\ want[c] \in Nat \ {0}
      /\ claimed <= x[c] /\ x[c] + want[c] <= X
    <2>1. cpc[c] = "give" /\ c \in OnLine /\ Size(c) = want[c]
        BY DEF GiveBack, OnLine, Size
    <2> QED
        BY <2>1 DEF Claims, Line
<1>2. /\ enqueued \in Nat /\ claimed \in Nat /\ dequeueOptimisticCount \in Int
      /\ dequeueOvercommit \in Int
      /\ x \in [Consumers -> Int] /\ b \in [Consumers -> Int]
    BY DEF Claims, Counters, Line, Seen
<1>3. /\ granted \in 0 .. want[c]
      /\ granted # 0 => x[c] + granted <= enqueued
    BY <1>1 DEF Claims, Line
<1>5. /\ dequeueOvercommit' = Wrap(dequeueOvercommit + (want[c] - granted))
      /\ \A d \in Consumers : cpc[d] \in {"count", "claim"} =>
            Wrap(dequeueOvercommit' - over[d]) <= MaxLate
      /\ IF granted = 0 THEN Leave(c)
         ELSE Goto(c, "take") /\ UNCHANGED <<want, over, mine, left>>
      /\ UNCHANGED <<tailIndex, headIndex, dequeueOptimisticCount, enqueued, claimed>>
    BY DEF GiveBack
<1> HIDE DEF granted
<1>6. PICK got \in 0 .. want[c] : got = granted
    BY <1>3
<1>7. PICK gap \in Nat : gap = want[c] - got
    BY <1>1
<1>8. PICK Y \in Int : Y = X - gap
    OBVIOUS
<1>9. PICK y \in [Consumers -> Int] : \A d \in Consumers :
        y[d] = IF x[c] + want[c] <= x[d] THEN x[d] - gap ELSE x[d]
    <2> DEFINE z == [d \in Consumers |->
                        IF x[c] + want[c] <= x[d] THEN x[d] - gap ELSE x[d]]
    <2>1. z \in [Consumers -> Int]
        BY <1>2
    <2> QED
        BY <2>1
<1>10. /\ got = 0 => cpc'[c] = "idle"
       /\ got # 0 => cpc'[c] = "take" /\ left'[c] = got
       /\ \A d \in Consumers : d # c =>
            /\ cpc'[d] = cpc[d] /\ want'[d] = want[d] /\ over'[d] = over[d]
            /\ mine'[d] = mine[d] /\ left'[d] = left[d]
    BY <1>5, <1>6 DEF Locals, Leave, Goto, granted
<1>11. OnLine' = IF got = 0 THEN OnLine \ {c} ELSE OnLine
    BY <1>1, <1>10 DEF OnLine
<1>12. ASSUME NEW d \in OnLine, d # c
       PROVE  /\ d \in OnLine' /\ d \in Consumers /\ cpc'[d] = cpc[d]
              /\ over'[d] = over[d] /\ mine'[d] = mine[d] /\ Size(d)' = Size(d)
             /\ left'[d] = left[d] /\ want'[d] = want[d]
    BY <1>10, <1>12 DEF OnLine, Size
<1>13. ASSUME NEW d \in OnLine'
       PROVE  /\ d \in OnLine /\ d \in Consumers
              /\ d = c => cpc'[c] = "take" /\ Size(c)' = got /\ got \in Nat \ {0}
    BY <1>1, <1>10, <1>11 DEF OnLine, Size
<1>14. got # 0 => x[c] + got <= enqueued
    BY <1>3, <1>6
<1>15. y[c] = x[c] /\ x[c] \in Int /\ x[c] + got <= Y
    BY <1>1, <1>2, <1>7, <1>8, <1>9
<1>16. ASSUME NEW d \in OnLine, d # c
       PROVE  /\ x[d] \in Int /\ y[d] \in Int /\ Size(d) \in Nat \ {0}
              /\ \/ x[c] + want[c] <= x[d] /\ y[d] = x[d] - gap
                 \/ x[d] + Size(d) <= x[c] /\ y[d] = x[d]
              /\ claimed <= y[d] /\ y[d] + Size(d) <= Y /\ y[d] <= x[d]
    <2>1. /\ d \in Consumers /\ x[d] \in Int /\ Size(d) \in Nat \ {0}
          /\ claimed <= x[d] /\ x[d] + Size(d) <= X
          /\ x[d] + Size(d) <= x[c] \/ x[c] + Size(c) <= x[d]
        BY <1>1, <1>2, <1>12, <1>16 DEF Claims, Line
    <2>2. y[d] = IF x[c] + want[c] <= x[d] THEN x[d] - gap ELSE x[d]
        BY <1>9, <2>1
    <2> QED
        BY <1>1, <1>2, <1>7, <1>8, <1>15, <2>1, <2>2
<1>17. Counters'
    <2>1. dequeueOvercommit + (want[c] - got) \in Int
        BY <1>1, <1>2
    <2>2. dequeueOvercommit' \in 0 .. (IndexValues - 1)
        BY <1>5, <1>6, <2>1, WrapFacts
    <2> QED
        BY <1>5, <2>2 DEF Claims, Counters
<1>18. Wanted(m)'
    <2>1. ASSUME NEW d \in Consumers,
                 cpc'[d] \in {"over", "count", "claim", "decide", "give"}
          PROVE  /\ d # c /\ cpc[d] = cpc'[d] /\ over'[d] = over[d]
                 /\ want'[d] = want[d] /\ mine'[d] = mine[d]
        BY <1>10, <2>1
    <2>2. \A d \in Consumers : cpc'[d] \in {"count", "claim"} =>
            Wrap(dequeueOvercommit' - over'[d]) <= MaxLate
        BY <1>5, <2>1
    <2> QED
        BY <2>1, <2>2 DEF Claims, Wanted
<1>19. Wrap(dequeueOptimisticCount' - dequeueOvercommit') = Wrap(Y)
    <2> DEFINE p == dequeueOptimisticCount
               u == dequeueOvercommit + (want[c] - got)
               t == Wrap(u)
               v == dequeueOptimisticCount - dequeueOvercommit
               r == p - t
               s == p - u
    <2>1. u \in Int /\ t \in Int /\ Wrap(t) = Wrap(u) /\ p \in Int
        <3>1. u \in Int /\ p \in Int
            BY <1>1, <1>2
        <3> HIDE DEF u
        <3> QED
            BY <3>1, WrapFacts
    <2>2. r \in Int /\ s \in Int /\ Added(p, r, t) /\ Added(p, s, u)
        <3> HIDE DEF t, u, p
        <3> QED
            BY <2>1 DEF Added
    <2>3. Wrap(r) = Wrap(s)
        <3> HIDE DEF r, s, t, u, p
        <3> QED
            BY <2>1, <2>2, WrapMinus
    <2>4. v \in Int /\ Added(v, s, gap) /\ Added(X, Y, gap)
        BY <1>1, <1>2, <1>7, <1>8 DEF Added
    <2>5. Wrap(v) = Wrap(X)
        BY DEF Claims, Line
    <2>6. Wrap(s) = Wrap(Y)
        <3> HIDE DEF s, v
        <3> QED
            BY <2>2, <2>4, <2>5, WrapMinus
    <2> QED
        BY <1>5, <1>6, <2>3, <2>6
<1>20. Line(Y, y)'
    <2>1. claimed' <= Y
        BY <1>1, <1>2, <1>5, <1>8, <1>15
    <2>2. ASSUME NEW d \in OnLine'
          PROVE  Size(d)' \in Nat \ {0} /\ claimed' <= y[d] /\ y[d] + Size(d)' <= Y
        <3>1. CASE d = c
            BY <1>1, <1>5, <1>13, <1>15, <3>1
        <3>2. CASE d # c
            <4>1. d \in OnLine
                BY <1>13
            <4> QED
                BY <1>5, <1>12, <1>16, <3>2, <4>1
        <3> QED
            BY <3>1, <3>2
    <2>3. ASSUME NEW d \in OnLine', NEW f \in OnLine', d # f
          PROVE  y[d] + Size(d)' <= y[f] \/ y[f] + Size(f)' <= y[d]
        <3>1. d \in OnLine /\ f \in OnLine
            BY <1>13
        <3>2. x[d] + Size(d) <= x[f] \/ x[f] + Size(f) <= x[d]
            BY <2>3, <3>1 DEF Claims, Line
        <3>3. CASE d = c
            BY <1>1, <1>7, <1>12, <1>13, <1>15, <1>16, <2>3, <3>1, <3>3
        <3>4. CASE f = c
            BY <1>1, <1>7, <1>12, <1>13, <1>15, <1>16, <2>3, <3>1, <3>4
        <3>5. CASE d # c /\ f # c
            <4>1. /\ Size(d)' = Size(d) /\ Size(f)' = Size(f)
                  /\ x[d] \in Int /\ y[d] \in Int /\ Size(d) \in Nat \ {0}
                  /\ \/ x[c] + want[c] <= x[d] /\ y[d] = x[d] - gap
                     \/ x[d] + Size(d) <= x[c] /\ y[d] = x[d]
                BY <1>12, <1>16, <3>1, <3>5
            <4>2. /\ x[f] \in Int /\ y[f] \in Int /\ Size(f) \in Nat \ {0}
                  /\ \/ x[c] + want[c] <= x[f] /\ y[f] = x[f] - gap
                     \/ x[f] + Size(f) <= x[c] /\ y[f] = x[f]
                BY <1>16, <3>1, <3>5
            <4> QED
                BY <1>1, <1>7, <1>15, <3>2, <4>1, <4>2
        <3> QED
            BY <3>3, <3>4, <3>5
    <2>4. ASSUME NEW d \in OnLine', cpc'[d] = "take"
          PROVE  y[d] + Size(d)' <= enqueued'
        <3>1. CASE d = c
            BY <1>5, <1>13, <1>14, <1>15, <3>1
        <3>2. CASE d # c
            <4>1. d \in OnLine /\ cpc[d] = "take" /\ Size(d)' = Size(d)
                BY <1>12, <1>13, <2>4, <3>2
            <4>2. x[d] + Size(d) <= enqueued
                BY <4>1 DEF Claims, Line
            <4> QED
                BY <1>2, <1>5, <1>16, <3>2, <4>1, <4>2
        <3> QED
            BY <3>1, <3>2
    <2>5. ASSUME NEW d \in OnLine', cpc'[d] = "give"
          PROVE  /\ left'[d] \in 0 .. want'[d]
                 /\ left'[d] # 0 => y[d] + left'[d] <= enqueued'
        <3>1. d # c /\ d \in OnLine
            BY <1>13, <2>5
        <3>2. /\ cpc[d] = "give" /\ left'[d] = left[d] /\ want'[d] = want[d]
              /\ y[d] <= x[d] /\ x[d] \in Int /\ y[d] \in Int /\ want[d] \in Int
            BY <1>12, <1>16, <2>5, <3>1 DEF Size
        <3>3. left[d] \in 0 .. want[d] /\ (left[d] # 0 => x[d] + left[d] <= enqueued)
            BY <3>1, <3>2 DEF Claims, Line
        <3> QED
            BY <1>2, <1>5, <3>2, <3>3
    <2> QED
        BY <1>19, <2>1, <2>2, <2>3, <2>4, <2>5 DEF Line
<1>21. Covered(Y, y)'
    <2> SUFFICES ASSUME NEW p \in Int, enqueued' <= p, p < Y
                 PROVE  \E d \in Under' : y[d] <= p /\ p < y[d] + Size(d)'
        BY DEF Covered
    <2>0. ASSUME NEW d \in Under, d # c
          PROVE  d \in OnLine /\ d \in Under'
        BY <1>12, <2>0 DEF Under
    <2>1. CASE p < x[c]
        <3>1. p < X
            BY <1>1, <1>15, <2>1
        <3>2. PICK d \in Under : x[d] <= p /\ p < x[d] + Size(d)
            BY <1>5, <3>1 DEF Claims, Covered
        <3>3. d # c /\ d \in OnLine /\ d \in Under'
            BY <1>15, <2>0, <2>1, <3>2
        <3>4. y[d] = x[d]
            BY <1>1, <1>15, <1>16, <2>1, <3>2, <3>3
        <3> QED
            BY <1>12, <3>2, <3>3, <3>4
    <2>2. CASE x[c] + got <= p
        <3>1. PICK q \in Int : q = p + gap
            OBVIOUS
        <3>2. enqueued <= q /\ q < X /\ x[c] + want[c] <= q
            BY <1>1, <1>2, <1>5, <1>7, <1>8, <1>15, <2>2, <3>1
        <3>3. PICK d \in Under : x[d] <= q /\ q < x[d] + Size(d)
            BY <3>2 DEF Claims, Covered
        <3>4. d # c /\ d \in OnLine /\ d \in Under'
            BY <1>1, <1>15, <2>0, <3>2, <3>3
        <3>5. y[d] = x[d] - gap /\ x[d] \in Int /\ Size(d) \in Nat
            BY <1>1, <1>15, <1>16, <3>2, <3>3, <3>4
        <3>6. y[d] <= p /\ p < y[d] + Size(d)
            BY <3>1, <3>3, <3>5
        <3> QED
            BY <1>12, <3>3, <3>4, <3>6
    <2>3. CASE x[c] <= p /\ p < x[c] + got
        BY <1>2, <1>5, <1>14, <1>15, <2>3
    <2> QED
        BY <1>15, <2>1, <2>2, <2>3
<1>22. Seen(y, b)'
    <2>1. ASSUME NEW d \in OnLine', cpc'[d] = "decide"
          PROVE  /\ mine'[d] \in Int
                 /\ Wrap(mine'[d] - over'[d]) = Wrap(b[d])
                 /\ b[d] - enqueued' <= IndexValues \div 2
                 /\ y[d] + Size(d)' <= enqueued' \/ y[d] <= b[d]
        <3>1. d \in OnLine /\ d # c
            BY <1>13, <2>1
        <3>2. /\ cpc[d] = "decide" /\ Size(d)' = Size(d) /\ d \in Consumers
              /\ over'[d] = over[d] /\ mine'[d] = mine[d]
            BY <1>12, <2>1, <3>1
        <3>3. /\ mine[d] \in Int
              /\ Wrap(mine[d] - over[d]) = Wrap(b[d])
              /\ b[d] - enqueued <= IndexValues \div 2
              /\ x[d] + Size(d) <= enqueued \/ x[d] <= b[d]
            BY <3>1, <3>2 DEF Claims, Seen
        <3>4. y[d] <= x[d] /\ y[d] \in Int /\ x[d] \in Int /\ Size(d) \in Nat /\ b[d] \in Int
            BY <1>2, <1>16, <3>1, <3>2
        <3> QED
            BY <1>2, <1>5, <3>2, <3>3, <3>4
    <2> QED
        BY <1>2, <2>1 DEF Seen
<1>23. Claims(Y, y, b, m)'
    BY <1>17, <1>18, <1>20, <1>21, <1>22 DEF Claims
<1> QED
    BY <1>2, <1>23 DEF ClaimsInv

LEMMA ClaimsTake ==
    ASSUME Locals, NEW X \in Int, NEW x, NEW b, NEW m \in Nat, Claims(X, x, b, m),
           NEW c \in Consumers, Take(c)
    PROVE  ClaimsInv' /\ claimed' <= enqueued
<1> DEFINE n == left[c]
<1>1. /\ cpc[c] = "take" /\ c \in OnLine /\ Size(c) = n /\ n \in Nat \ {0}
      /\ claimed <= x[c] /\ x[c] + n <= X /\ x[c] + n <= enqueued
    <2>1. cpc[c] = "take" /\ c \in OnLine /\ Size(c) = n
        BY DEF Take, OnLine, Size
    <2> QED
        BY <2>1 DEF Claims, Line
<1>2. /\ enqueued \in Nat /\ claimed \in Nat /\ headIndex = Wrap(claimed)
      /\ x \in [Consumers -> Int] /\ b \in [Consumers -> Int] /\ x[c] \in Int
    BY DEF Claims, Counters, Line, Seen
<1>3. /\ claimed' = claimed + n /\ headIndex' = Wrap(headIndex + n)
      /\ cpc'[c] = "index"
      /\ UNCHANGED <<tailIndex, dequeueOptimisticCount, dequeueOvercommit,
                     left, enqueued>>
      /\ \A d \in Consumers : d # c =>
            /\ cpc'[d] = cpc[d] /\ want'[d] = want[d] /\ over'[d] = over[d]
            /\ mine'[d] = mine[d]
    BY DEF Take, Goto, Locals
<1> HIDE DEF n
<1>4. PICK y \in [Consumers -> Int] : \A d \in Consumers :
        y[d] = IF x[d] + Size(d) <= x[c] THEN x[d] + n ELSE x[d]
    <2> DEFINE z == [d \in Consumers |->
                        IF x[d] + Size(d) <= x[c] THEN x[d] + n ELSE x[d]]
    <2>1. z \in [Consumers -> Int]
        BY <1>1, <1>2
    <2> QED
        BY <2>1
<1>5. OnLine' = OnLine \ {c}
    BY <1>3 DEF OnLine
<1>6. ASSUME NEW d \in OnLine'
      PROVE  /\ d \in OnLine /\ d # c /\ d \in Consumers /\ cpc'[d] = cpc[d]
             /\ over'[d] = over[d] /\ mine'[d] = mine[d] /\ Size(d)' = Size(d)
             /\ left'[d] = left[d] /\ want'[d] = want[d]
    BY <1>3, <1>5 DEF OnLine, Size
<1>7. ASSUME NEW d \in OnLine'
      PROVE  /\ x[d] \in Int /\ y[d] \in Int /\ Size(d) \in Nat \ {0}
             /\ \/ x[d] + Size(d) <= x[c] /\ y[d] = x[d] + n
                \/ x[c] + n <= x[d] /\ y[d] = x[d]
             /\ claimed + n <= y[d] /\ y[d] + Size(d) <= X
    <2>1. /\ d \in Consumers /\ x[d] \in Int /\ Size(d) \in Nat \ {0}
          /\ claimed <= x[d] /\ x[d] + Size(d) <= X
          /\ x[d] + Size(d) <= x[c] \/ x[c] + Size(c) <= x[d]
        BY <1>1, <1>2, <1>6 DEF Claims, Line
    <2>2. y[d] = IF x[d] + Size(d) <= x[c] THEN x[d] + n ELSE x[d]
        BY <1>4, <2>1
    <2> QED
        BY <1>1, <1>2, <2>1, <2>2
<1>8. Counters'
    <2>1. Wrap(Wrap(claimed) + n) = Wrap(claimed + n)
        BY <1>1, <1>2, WrapOfWraps
    <2>2. claimed' \in Nat /\ claimed' <= enqueued
        BY <1>1, <1>2, <1>3
    <2> QED
        BY <1>2, <1>3, <2>1, <2>2 DEF Claims, Counters
<1>9. Wanted(m)'
    <2>1. ASSUME NEW d \in Consumers,
                 cpc'[d] \in {"over", "count", "claim", "decide", "give"}
          PROVE  /\ cpc[d] = cpc'[d] /\ over'[d] = over[d]
                 /\ want'[d] = want[d] /\ mine'[d] = mine[d]
        BY <1>3, <2>1
    <2> QED
        BY <1>3, <2>1 DEF Claims, Wanted
<1>10. Line(X, y)'
    <2>1. claimed' <= X
        BY <1>1, <1>2, <1>3
    <2>2. ASSUME NEW d \in OnLine'
          PROVE  Size(d)' \in Nat \ {0} /\ claimed' <= y[d] /\ y[d] + Size(d)' <= X
        BY <1>3, <1>6, <1>7
    <2>3. ASSUME NEW d \in OnLine', NEW f \in OnLine', d # f
          PROVE  y[d] + Size(d)' <= y[f] \/ y[f] + Size(f)' <= y[d]
        <3>1. x[d] + Size(d) <= x[f] \/ x[f] + Size(f) <= x[d]
            BY <1>6, <2>3 DEF Claims, Line
        <3> QED
            BY <1>1, <1>2, <1>6, <1>7, <3>1
    <2>4. ASSUME NEW d \in OnLine', cpc'[d] = "take"
          PROVE  y[d] + Size(d)' <= enqueued'
        <3>1. x[d] + Size(d) <= enqueued
            BY <1>6, <2>4 DEF Claims, Line
        <3> QED
            BY <1>1, <1>2, <1>3, <1>6, <1>7, <3>1
    <2>5. ASSUME NEW d \in OnLine', cpc'[d] = "give"
          PROVE  /\ left'[d] \in 0 .. want'[d]
                 /\ left'[d] # 0 => y[d] + left'[d] <= enqueued'
        <3>1. left[d] \in 0 .. want[d] /\ (left[d] # 0 => x[d] + left[d] <= enqueued)
            BY <1>6, <2>5 DEF Claims, Line
        <3>2. Size(d) = want[d]
            BY <1>6, <2>5 DEF Size
        <3> QED
            BY <1>1, <1>2, <1>3, <1>6, <1>7, <3>1, <3>2
    <2> QED
        BY <1>3, <2>1, <2>2, <2>3, <2>4, <2>5 DEF Claims, Line
<1>11. Covered(X, y)'
    <2> SUFFICES ASSUME NEW p \in Int, enqueued' <= p, p < X
                 PROVE  \E d \in Under' : y[d] <= p /\ p < y[d] + Size(d)'
        BY DEF Covered
    <2>1. PICK d \in Under : x[d] <= p /\ p < x[d] + Size(d)
        BY <1>3 DEF Claims, Covered
    <2>2. d \in OnLine' /\ d \in Under'
        BY <1>1, <1>5, <1>6, <2>1 DEF Under
    <2>3. y[d] = x[d]
        BY <1>1, <1>2, <1>3, <1>7, <2>1, <2>2
    <2> QED
        BY <1>6, <2>1, <2>2, <2>3
<1>12. Seen(y, b)'
    <2>1. ASSUME NEW d \in OnLine', cpc'[d] = "decide"
          PROVE  /\ mine'[d] \in Int
                 /\ Wrap(mine'[d] - over'[d]) = Wrap(b[d])
                 /\ b[d] - enqueued' <= IndexValues \div 2
                 /\ y[d] + Size(d)' <= enqueued' \/ y[d] <= b[d]
        <3>1. /\ mine[d] \in Int
              /\ Wrap(mine[d] - over[d]) = Wrap(b[d])
              /\ b[d] - enqueued <= IndexValues \div 2
              /\ x[d] + Size(d) <= enqueued \/ x[d] <= b[d]
            BY <1>6, <2>1 DEF Claims, Seen
        <3>2. b[d] \in Int
            BY <1>2, <1>6
        <3> QED
            BY <1>1, <1>2, <1>3, <1>6, <1>7, <3>1, <3>2
    <2> QED
        BY <1>2, <2>1 DEF Seen
<1>13. Claims(X, y, b, m)'
    BY <1>8, <1>9, <1>10, <1>11, <1>12 DEF Claims
<1> QED
    BY <1>1, <1>2, <1>3, <1>13 DEF ClaimsInv

LEMMA ClaimsConsume ==
    ASSUME Locals, ClaimsInv, NEW c \in Consumers, Consume(c)
    PROVE  ClaimsInv'
<1>1. PICK X \in Int, x \in [Consumers -> Int], b \in [Consumers -> Int], m \in Nat :
        Claims(X, x, b, m)
    BY DEF ClaimsInv
<1>2. CASE Claim(c)
    BY <1>1, <1>2, ClaimsClaim
<1>3. CASE LoadOvercommit(c) \/ LoadCount(c) \/ Decide(c) \/ GiveBack(c)
    BY <1>1, <1>3, ClaimsLoadOvercommit, ClaimsLoadCount, ClaimsDecide,
       ClaimsGiveBack
<1>4. CASE Take(c)
    BY <1>1, <1>4, ClaimsTake
<1>5. ASSUME NEW n \in DequeueCounts, DequeueCall(c, n) PROVE ClaimsInv'
    BY <1>1, <1>5, ClaimsCall
<1>6. CASE \/ LoadIndex(c) \/ LoadTail(c) \/ LoadKey(c) \/ Move(c)
           \/ SetEmpty(c) \/ NullEntry(c) \/ Free(c)
    <2>1. /\ UNCHANGED <<indices, enqueued, claimed>>
          /\ cpc[c] \in {"index", "tail", "key", "move", "empty", "null", "free"}
          /\ cpc'[c] \in {"idle", "tail", "key", "move", "empty", "null", "free"}
          /\ \A d \in Consumers : d # c =>
                /\ cpc'[d] = cpc[d] /\ want'[d] = want[d] /\ over'[d] = over[d]
                /\ mine'[d] = mine[d] /\ left'[d] = left[d]
        <3> USE DEF Locals, Goto
        <3>1. CASE LoadIndex(c) \/ LoadTail(c) \/ LoadKey(c) \/ NullEntry(c)
            BY <3>1 DEF LoadIndex, LoadTail, LoadKey, NullEntry
        <3>2. CASE Move(c)
            BY <3>2 DEF Move
        <3>3. CASE SetEmpty(c) \/ Free(c)
            BY <3>3 DEF SetEmpty, Free, Emptied, NextBlock, Leave
        <3> QED
            BY <1>6, <3>1, <3>2, <3>3
    <2>2. IndexValues \div 2 \in Int
        BY Sizes
    <2>3. \A d \in Consumers :
            \/ cpc'[d] \notin Claiming /\ cpc[d] \notin Claiming
            \/ /\ cpc'[d] = cpc[d] /\ want'[d] = want[d] /\ over'[d] = over[d]
               /\ mine'[d] = mine[d] /\ left'[d] = left[d]
        BY <2>1 DEF Claiming
    <2>4. /\ UNCHANGED <<headIndex, claimed, dequeueOptimisticCount, dequeueOvercommit>>
          /\ enqueued' \in Nat /\ enqueued <= enqueued' /\ tailIndex' = Wrap(enqueued')
        BY <1>1, <2>1 DEF indices, Claims, Counters
    <2>5. Claims(X, x, b, m)'
        BY <1>1, <2>2, <2>3, <2>4, ClaimsStay
    <2> QED
        BY <2>5 DEF ClaimsInv
<1> QED
    BY <1>2, <1>3, <1>4, <1>5, <1>6 DEF Consume

LEMMA ClaimsProduce ==
    ASSUME Locals, ClaimsInv, Produce
    PROVE  ClaimsInv'
<1>1. PICK X \in Int, x \in [Consumers -> Int], b \in [Consumers -> Int], m \in Nat :
        Claims(X, x, b, m)
    BY DEF ClaimsInv
<1>2. /\ UNCHANGED consumer
      /\ UNCHANGED <<headIndex, claimed, dequeueOptimisticCount, dequeueOvercommit>>
    BY ProduceFrame
<1>3. enqueued' \in Nat /\ enqueued <= enqueued' /\ tailIndex' = Wrap(enqueued')
    <2>1. enqueued \in Nat /\ tailIndex = Wrap(enqueued)
        BY <1>1 DEF Claims, Counters
    <2>2. CASE Publish
        <3>1. /\ tailIndex' = Wrap(tailIndex + call.count)
              /\ enqueued' = enqueued + call.count
            BY <2>2 DEF Publish
        <3>2. Wrap(Wrap(enqueued) + call.count) = Wrap(enqueued + call.count)
            BY <2>1, WrapOfWraps DEF Locals
        <3> QED
            BY <2>1, <3>1, <3>2 DEF Locals
    <2>3. CASE UNCHANGED <<tailIndex, enqueued>>
        BY <2>1, <2>3
    <2> QED
        BY <2>2, <2>3, ProduceFrame
<1>4. IndexValues \div 2 \in Int
    BY Sizes
<1>5. Claims(X, x, b, m)'
    BY <1>1, <1>2, <1>3, <1>4, ClaimsStay DEF consumer
<1> QED
    BY <1>5 DEF ClaimsInv

LEMMA ClaimsAlways == Spec => [](ClaimsInv /\ Locals)
<1>1. Init => ClaimsInv /\ Locals
    BY ClaimsInit, LocalsInit
<1>2. ASSUME ClaimsInv, Locals, [Next]_vars PROVE ClaimsInv'
    <2>1. CASE UNCHANGED vars
        <3>1. PICK X \in Int, x \in [Consumers -> Int], b \in [Consumers -> Int],
                   m \in Nat : Claims(X, x, b, m)
            BY <1>2 DEF ClaimsInv
        <3>2. UNCHANGED <<indices, consumer, enqueued, claimed>>
            BY <2>1 DEF vars, others
        <3>3. IndexValues \div 2 \in Int
            BY Sizes
        <3>4. /\ UNCHANGED <<headIndex, claimed, dequeueOptimisticCount, dequeueOvercommit>>
              /\ enqueued' \in Nat /\ enqueued <= enqueued' /\ tailIndex' = Wrap(enqueued')
            BY <3>1, <3>2 DEF indices, Claims, Counters
        <3>5. Claims(X, x, b, m)'
            BY <3>1, <3>2, <3>3, <3>4, ClaimsStay DEF consumer
        <3> QED
            BY <3>5 DEF ClaimsInv
    <2> QED
        BY <1>2, <2>1, ClaimsProduce, ClaimsConsume DEF Next
<1> QED
    BY <1>1, <1>2, LocalsAlways, PTL DEF Spec

(* What the other parts need of the claims. *)
LEMMA ClaimsGive ==
    ASSUME ClaimsInv
    PROVE  /\ enqueued \in Nat /\ claimed \in Nat /\ claimed <= enqueued
           /\ tailIndex = Wrap(enqueued) /\ headIndex = Wrap(claimed)
           /\ \A c \in Consumers : cpc[c] = "take" =>
                left[c] \in Nat \ {0} /\ claimed + left[c] <= enqueued
<1>1. PICK X \in Int, x \in [Consumers -> Int], b \in [Consumers -> Int], m \in Nat :
        Claims(X, x, b, m)
    BY DEF ClaimsInv
<1>2. /\ enqueued \in Nat /\ claimed \in Nat /\ claimed <= enqueued
      /\ tailIndex = Wrap(enqueued) /\ headIndex = Wrap(claimed)
      /\ x \in [Consumers -> Int]
    BY <1>1 DEF Claims, Counters, Line
<1>3. ASSUME NEW c \in Consumers, cpc[c] = "take"
      PROVE  left[c] \in Nat \ {0} /\ claimed + left[c] <= enqueued
    <2>1. /\ c \in OnLine /\ Size(c) = left[c]
        BY <1>3 DEF OnLine, Size
    <2>2. /\ left[c] \in Nat \ {0} /\ claimed <= x[c] /\ x[c] + left[c] <= enqueued
          /\ x[c] \in Int
        BY <1>1, <1>2, <1>3, <2>1 DEF Claims, Line
    <2> QED
        BY <1>2, <2>2
<1> QED
    BY <1>2, <1>3

LEMMA ClaimsGiveNext ==
    ASSUME ClaimsInv'
    PROVE  /\ enqueued' \in Nat /\ claimed' \in Nat /\ claimed' <= enqueued'
           /\ tailIndex' = Wrap(enqueued') /\ headIndex' = Wrap(claimed')
<1>1. PICK X \in Int, x \in [Consumers -> Int], b \in [Consumers -> Int], m \in Nat :
        Claims(X, x, b, m)'
    BY DEF ClaimsInv
<1> QED
    BY <1>1 DEF Claims, Counters

(* What a call claims is never more than was enqueued, however the counters
   wrap and however late the calls before it give back what they claimed in
   vain: the claim, decide and take of dequeue and dequeue_bulk. *)
THEOREM NoMoreIsClaimed == Spec => []ClaimedIsEnqueued
<1>1. ClaimsInv => ClaimedIsEnqueued
    BY DEF ClaimsInv, Claims, Counters, ClaimedIsEnqueued
<1> QED
    BY <1>1, ClaimsAlways, PTL

-----------------------------------------------------------------------------
(* Numbers of blocks. Block k holds the elements from k * BlockSize on;      *)
(* Filled(n) is how many blocks the first n elements need, and Reserved the  *)
(* blocks up to the last for which the producer has passed the test of Room. *)

Filled(n) == Block(n - 1) + 1
First == Filled(enqueued)
Inserting == ppc \in {"insert", "reinsert", "tail", "block"}
Working ==
    ppc \in {"room", "insert", "reinsert", "tail", "block", "link", "construct",
             "publish"}
Reserved == First + Len(allocated) + (IF Inserting THEN 1 ELSE 0)

AnySequence(s) == \E S : s \in Seq(S)

LEMMA AnySequenceFacts ==
    ASSUME NEW s, AnySequence(s)
    PROVE  /\ Len(s) \in Nat /\ (s = << >> <=> Len(s) = 0)
           /\ s # << >> =>
                /\ AnySequence(Tail(s)) /\ Len(Tail(s)) = Len(s) - 1
                /\ Head(s) = s[1]
                /\ \A i \in 1 .. (Len(s) - 1) : Tail(s)[i] = s[i + 1]
<1>1. PICK S : s \in Seq(S)
    BY DEF AnySequence
<1>2. Len(s) \in Nat /\ (s = << >> <=> Len(s) = 0)
    BY <1>1
<1>3. ASSUME s # << >>
      PROVE  /\ Tail(s) \in Seq(S) /\ Len(Tail(s)) = Len(s) - 1 /\ Head(s) = s[1]
             /\ \A i \in 1 .. (Len(s) - 1) : Tail(s)[i] = s[i + 1]
    BY <1>1, <1>3
<1> QED
    BY <1>2, <1>3 DEF AnySequence

LEMMA AnyAppend ==
    ASSUME NEW s, AnySequence(s), NEW e
    PROVE  /\ AnySequence(Append(s, e)) /\ Append(s, e) # << >>
           /\ Len(Append(s, e)) = Len(s) + 1 /\ Append(s, e)[Len(s) + 1] = e
           /\ \A i \in 1 .. Len(s) : Append(s, e)[i] = s[i]
<1>1. PICK S : s \in Seq(S)
    BY DEF AnySequence
<1> DEFINE T == S \union {e}
           r == Append(s, e)
<1>2. s \in Seq(T) /\ e \in T
    <2>1. Len(s) \in Nat /\ \A i \in 1 .. Len(s) : s[i] \in T
        BY <1>1
    <2>2. s = [i \in 1 .. Len(s) |-> s[i]]
        BY <1>1
    <2> HIDE DEF T
    <2>3. [i \in 1 .. Len(s) |-> s[i]] \in Seq(T)
        BY <2>1
    <2> QED
        BY <2>2, <2>3 DEF T
<1> HIDE DEF T
<1>3. /\ r \in Seq(T) /\ r # << >> /\ Len(r) = Len(s) + 1 /\ r[Len(s) + 1] = e
      /\ \A i \in 1 .. Len(s) : r[i] = s[i]
    BY <1>2
<1> QED
    BY <1>3 DEF AnySequence

LEMMA EmptyIsSequence == AnySequence(<< >>)
<1>1. << >> \in Seq({})
    OBVIOUS
<1> QED
    BY <1>1 DEF AnySequence

Phase ==
    /\ ppc \in {"idle", "undo"} \/ Working
    /\ call.count \in Nat
    /\ todo \in Seq(Int)
    /\ AnySequence(allocated)
    /\ ~Working => todo = << >>
    /\ ppc = "room" \/ Inserting => todo # << >>
    /\ ppc \in {"construct", "publish"} => todo = << >>
    /\ ppc = "idle" => allocated = << >>
    /\ ppc \in {"undo", "link"} => allocated # << >>

Numbered ==
    /\ Working =>
        /\ call.count >= 1 /\ (call.single => call.count = 1)
        /\ First + Len(allocated) + Len(todo) = Filled(enqueued + call.count)
    /\ \A i \in 1 .. Len(todo) :
        todo[i] = Wrap((First + Len(allocated) + i - 1) * BlockSize)

InRange == Reserved * BlockSize - claimed < IndexValues - (IndexValues \div 2)

Numbers == Phase /\ Numbered /\ InRange

LEMMA FilledFacts ==
    ASSUME NEW n \in Int
    PROVE  /\ Filled(n) \in Int
           /\ (Filled(n) - 1) * BlockSize < n /\ n <= Filled(n) * BlockSize
           /\ n % BlockSize = 0 => Filled(n) = Block(n) /\ Block(n) * BlockSize = n
           /\ n % BlockSize # 0 => Filled(n) = Block(n) + 1
<1> DEFINE j == Block(n - 1)
           k == Block(n)
           r == (n - 1) % BlockSize
           s == n % BlockSize
<1>1. BlockSize \in Nat \ {0, 1}
    BY Sizes
<1>2. /\ j \in Int /\ r \in 0 .. (BlockSize - 1) /\ n - 1 = j * BlockSize + r
      /\ k \in Int /\ s \in 0 .. (BlockSize - 1) /\ n = k * BlockSize + s
    <2>1. n - 1 \in Int
        OBVIOUS
    <2> QED
        BY <2>1, BlockFacts
<1> HIDE DEF j, k, r, s
<1>3. (j + 1) * BlockSize = j * BlockSize + BlockSize /\ j * BlockSize \in Int
    BY <1>1, <1>2
<1>4. j * BlockSize < n /\ n <= (j + 1) * BlockSize
    BY <1>1, <1>2, <1>3
<1>5. s = 0 => j + 1 = k /\ k * BlockSize = n
    <2>1. ASSUME s = 0 PROVE k * BlockSize = n /\ k - 1 \in Int
                             /\ (k - 1) * BlockSize = n - BlockSize
        BY <1>1, <1>2, <2>1
    <2>2. ASSUME s = 0 PROVE Block(n - 1) = k - 1
        <3>1. n - 1 \in Int /\ (k - 1) * BlockSize <= n - 1
              /\ n - 1 < (k - 1) * BlockSize + BlockSize
            BY <1>1, <2>1, <2>2
        <3> QED
            BY <2>1, <2>2, <3>1, BlockIs
    <2> QED
        BY <1>2, <2>1, <2>2 DEF j
<1>6. s # 0 => j = k
    <2>1. ASSUME s # 0 PROVE Block(n - 1) = k
        <3>1. n - 1 \in Int /\ k * BlockSize <= n - 1 /\ n - 1 < k * BlockSize + BlockSize
            BY <1>1, <1>2, <2>1
        <3> QED
            BY <1>2, <3>1, BlockIs
    <2> QED
        BY <2>1 DEF j
<1>7. Filled(n) = j + 1
    BY DEF Filled, j
<1> QED
    BY <1>2, <1>4, <1>5, <1>6, <1>7 DEF k, s

LEMMA FilledMore ==
    ASSUME NEW n \in Int, NEW m \in Int, n <= m
    PROVE  /\ Filled(n) <= Filled(m) /\ Filled(n) \in Int /\ Filled(m) \in Int
           /\ m = n + 1 => Filled(m) <= Filled(n) + 1
<1> DEFINE j == Filled(n)
           k == Filled(m)
<1>1. BlockSize \in Nat \ {0, 1}
    BY Sizes
<1>2. /\ j \in Int /\ (j - 1) * BlockSize < n /\ n <= j * BlockSize
      /\ k \in Int /\ (k - 1) * BlockSize < m /\ m <= k * BlockSize
    BY FilledFacts
<1> HIDE DEF j, k
<1>3. ASSUME k < j PROVE FALSE
    <2>1. k * BlockSize <= (j - 1) * BlockSize
        BY <1>1, <1>2, <1>3
    <2>2. k * BlockSize \in Int /\ (j - 1) * BlockSize \in Int
        BY <1>1, <1>2
    <2> QED
        BY <1>2, <2>1, <2>2
<1>4. ASSUME m = n + 1, k > j + 1 PROVE FALSE
    <2>1. (j + 1) * BlockSize <= (k - 1) * BlockSize
        BY <1>1, <1>2, <1>4
    <2>2. /\ (j + 1) * BlockSize = j * BlockSize + BlockSize
          /\ (k - 1) * BlockSize \in Int /\ j * BlockSize \in Int
        BY <1>1, <1>2
    <2> QED
        BY <1>1, <1>2, <1>4, <2>1, <2>2
<1> QED
    BY <1>2, <1>3, <1>4 DEF j, k

(* The bases of the blocks that n more elements need *)
LEMMA NewBasesAre ==
    ASSUME NEW e \in Nat, tailIndex = Wrap(e), NEW n \in Nat \ {0}
    PROVE  /\ NewBases(n) \in Seq(Int)
           /\ Len(NewBases(n)) = Filled(e + n) - Filled(e)
           /\ \A i \in 1 .. Len(NewBases(n)) :
                NewBases(n)[i] = Wrap((Filled(e) + i - 1) * BlockSize)
<1> DEFINE q == Div(e, IndexValues)
           f == Filled(e)
           g == Filled(e + n)
           K == q * Bases
           t == tailIndex
           first == IF t % BlockSize = 0 THEN t ELSE Base(t) + BlockSize
           last == Base(t + n - 1)
<1>1. /\ BlockSize \in Nat \ {0, 1} /\ IndexValues \in Nat \ {0}
      /\ Bases \in Nat \ {0} /\ IndexValues = Bases * BlockSize
    BY Sizes
<1>2. q \in Int /\ t \in Int /\ e = q * IndexValues + t
    BY <1>1, Division, WrapIsMod
<1>3. f \in Int /\ g \in Int /\ f <= g
    BY FilledMore
<1> HIDE DEF q, f, g
<1>4. K \in Int /\ K * BlockSize = q * IndexValues
    BY <1>1, <1>2
<1> HIDE DEF K
<1>5. K * BlockSize \in Int /\ t = e - K * BlockSize
    BY <1>1, <1>2, <1>4
<1>6. ASSUME NEW u \in Int, NEW v \in Int, v = u - K * BlockSize
      PROVE  v % BlockSize = u % BlockSize /\ Base(v) = (Block(u) - K) * BlockSize
    <2> DEFINE b == Block(u)
               r == u % BlockSize
    <2>1. u \in Int /\ v \in Int
        OBVIOUS
    <2>2. b \in Int /\ r \in 0 .. (BlockSize - 1) /\ u = b * BlockSize + r
        BY <2>1, BlockFacts
    <2>3. b - K \in Int /\ (b - K) * BlockSize = b * BlockSize - K * BlockSize
          /\ b * BlockSize \in Int
        <3> HIDE DEF b
        <3> QED
            BY <1>1, <1>4, <2>2
    <2>4. Divided(v, BlockSize, b - K, r)
        <3> HIDE DEF b, r
        <3> QED
            BY <1>5, <1>6, <2>1, <2>2, <2>3 DEF Divided
    <2>5. Mod(v, BlockSize) = r
        <3> HIDE DEF b, r
        <3> QED
            BY <1>1, <2>1, <2>2, <2>3, <2>4, DivisionIs
    <2>6. v % BlockSize = r
        BY <2>5 DEF Mod
    <2>7. Base(v) = v - r
        <3> HIDE DEF r
        <3> QED
            BY <2>6 DEF Base
    <2>8. v - r = (b - K) * BlockSize
        <3> HIDE DEF b, r
        <3> QED
            BY <1>5, <1>6, <2>1, <2>2, <2>3
    <2>9. Base(v) = (b - K) * BlockSize
        <3> HIDE DEF b, r
        <3> QED
            BY <2>7, <2>8
    <2> QED
        BY <2>6, <2>9
<1>7. first = (f - K) * BlockSize
    <2>1. /\ t % BlockSize = e % BlockSize /\ Base(t) = (Block(e) - K) * BlockSize
        BY <1>2, <1>5, <1>6
    <2>2. /\ e % BlockSize = 0 => f = Block(e) /\ Block(e) * BlockSize = e
          /\ e % BlockSize # 0 => f = Block(e) + 1
          /\ Block(e) \in Int
        BY FilledFacts, BlockFacts DEF f
    <2>3. CASE e % BlockSize = 0
        <3>1. (f - K) * BlockSize = f * BlockSize - K * BlockSize
            BY <1>1, <1>3, <1>4
        <3>2. f * BlockSize = e /\ first = t
            BY <2>1, <2>2, <2>3
        <3> QED
            BY <1>5, <3>1, <3>2
    <2>4. CASE e % BlockSize # 0
        <3>1. Block(e) = f - 1
            BY <1>3, <2>2, <2>4
        <3>2. (f - 1 - K) * BlockSize + BlockSize = (f - K) * BlockSize
            BY <1>1, <1>3, <1>4
        <3>3. first = Base(t) + BlockSize
            BY <2>1, <2>4
        <3> QED
            BY <2>1, <3>1, <3>2, <3>3
    <2> QED
        BY <2>3, <2>4
<1>8. last = (g - 1 - K) * BlockSize
    <2> DEFINE v == t + n - 1
               u == e + n - 1
    <2>2. u \in Int /\ v \in Int /\ v = u - K * BlockSize
        BY <1>2, <1>5
    <2>3. Base(v) = (Block(u) - K) * BlockSize
        <3> HIDE DEF u, v
        <3> QED
            BY <1>6, <2>2
    <2>4. Block(e + n - 1) = g - 1
        <3>1. g = Block(e + n - 1) + 1 /\ Block(e + n - 1) \in Int
            BY BlockFacts DEF g, Filled
        <3> QED
            BY <3>1
    <2> QED
        BY <2>2, <2>3, <2>4
<1> HIDE DEF first, last
<1>9. (last - first) \div BlockSize + 1 = g - f
    <2> DEFINE a == last - first
               d == g - 1 - f
    <2>1. d \in Int /\ a = d * BlockSize /\ a \in Int
        BY <1>1, <1>3, <1>4, <1>7, <1>8
    <2>2. Divided(a, BlockSize, d, 0) /\ 0 \in 0 .. (BlockSize - 1)
        <3> HIDE DEF a, d
        <3> QED
            BY <1>1, <2>1 DEF Divided
    <2>3. Div(a, BlockSize) = d
        <3> HIDE DEF a, d
        <3> QED
            BY <1>1, <2>1, <2>2, DivisionIs
    <2> QED
        BY <1>3, <2>3 DEF Div
<1>10. ASSUME NEW i \in Int
       PROVE  Wrap(first + (i - 1) * BlockSize) = Wrap((f + i - 1) * BlockSize)
    <2> DEFINE a == first + (i - 1) * BlockSize
               b == (f + i - 1) * BlockSize
               m == -q
    <2>1. /\ b \in Int /\ m \in Int /\ a \in Int /\ a = b - K * BlockSize
        BY <1>1, <1>2, <1>3, <1>4, <1>7
    <2>2. m * IndexValues = -(q * IndexValues)
        BY <1>1, <1>2
    <2>3. Divided(a, IndexValues, m, b)
        <3> HIDE DEF a, b, m
        <3> QED
            BY <1>1, <1>2, <1>4, <2>1, <2>2 DEF Divided
    <2>4. Mod(a, IndexValues) = Mod(b, IndexValues)
        <3> HIDE DEF a, b, m
        <3> QED
            BY <1>1, <2>1, <2>3, SameRemainder
    <2> QED
        BY <2>4, WrapIsMod
<1>11. NewBases(n) = [i \in 1 .. (g - f) |-> Wrap(first + (i - 1) * BlockSize)]
    BY <1>9 DEF NewBases, first, last
<1> DEFINE s == [i \in 1 .. (g - f) |-> Wrap((f + i - 1) * BlockSize)]
<1>12. NewBases(n) = s
    BY <1>10, <1>11
<1>13. g - f \in Nat /\ \A i \in 1 .. (g - f) : Wrap((f + i - 1) * BlockSize) \in Int
    <2>1. ASSUME NEW i \in Int PROVE Wrap((f + i - 1) * BlockSize) \in Int
        <3>1. (f + i - 1) * BlockSize \in Int
            BY <1>1, <1>3
        <3> QED
            BY <1>1, <3>1, WrapFacts
    <2>2. g - f \in Nat
        BY <1>3
    <2>3. \A i \in 1 .. (g - f) : i \in Int
        OBVIOUS
    <2> QED
        BY <2>1, <2>2, <2>3
<1>14. s \in Seq(Int) /\ Len(s) = g - f
    BY <1>13
<1> QED
    BY <1>12, <1>14 DEF f, g

LEMMA NumberFacts ==
    ASSUME Phase, ClaimsInv
    PROVE  /\ First \in Nat /\ Len(allocated) \in Nat /\ Len(todo) \in Nat
           /\ Reserved \in Nat /\ call.count \in Nat
           /\ enqueued \in Nat /\ claimed \in Nat /\ claimed <= enqueued
           /\ enqueued <= First * BlockSize /\ (First - 1) * BlockSize < enqueued
           /\ BlockSize \in Nat \ {0, 1} /\ IndexValues \in Nat \ {0}
           /\ IndexValues \div 2 \in Nat /\ BlockSize <= IndexValues \div 2
<1>1. BlockSize \in Nat \ {0, 1} /\ IndexValues \in Nat \ {0} /\ 2 * BlockSize <= IndexValues
    BY Sizes
<1>2. IndexValues \div 2 \in Nat /\ BlockSize <= IndexValues \div 2
    BY <1>1
<1>3. enqueued \in Nat /\ claimed \in Nat /\ claimed <= enqueued
    BY ClaimsGive
<1>4. /\ First \in Int /\ (First - 1) * BlockSize < enqueued
      /\ enqueued <= First * BlockSize
    BY <1>3, FilledFacts DEF First
<1>5. First >= 0
    <2>1. First <= -1 => First * BlockSize < 0
        BY <1>1, <1>4
    <2> QED
        BY <1>1, <1>3, <1>4, <2>1
<1>6. Len(allocated) \in Nat /\ Len(todo) \in Nat /\ call.count \in Nat
    BY AnySequenceFacts DEF Phase
<1>7. First \in Nat
    BY <1>4, <1>5
<1>8. Reserved \in Nat
    BY <1>6, <1>7 DEF Reserved
<1> QED
    BY <1>1, <1>2, <1>3, <1>4, <1>6, <1>7, <1>8

LEMMA NumbersInit == Init => Numbers
<1> SUFFICES ASSUME Init PROVE Numbers
    OBVIOUS
<1>1. /\ ppc = "idle" /\ todo = << >> /\ allocated = << >> /\ enqueued = 0 /\ claimed = 0
      /\ call = [single |-> TRUE, count |-> 0]
    BY DEF Init, NoCall
<1>2. Phase /\ Numbered /\ ~Inserting
    BY <1>1, EmptyIsSequence DEF Phase, Numbered, Working, Inserting
<1>3. BlockSize \in Nat \ {0, 1} /\ IndexValues \in Nat \ {0}
    BY Sizes
<1>4. First = 0
    <2>1. -1 \in Int /\ (-1) * BlockSize <= -1 /\ -1 < (-1) * BlockSize + BlockSize
        BY <1>3
    <2>2. Block(-1) = -1
        BY <2>1, BlockIs
    <2>3. 0 - 1 = -1
        OBVIOUS
    <2> QED
        BY <1>1, <2>2, <2>3 DEF First, Filled
<1>5. Reserved = 0
    BY <1>1, <1>2, <1>4 DEF Reserved
<1>6. 0 * BlockSize - 0 < IndexValues - (IndexValues \div 2)
    BY <1>3
<1> QED
    BY <1>1, <1>2, <1>5, <1>6 DEF Numbers, InRange

LEMMA RangeStays ==
    ASSUME InRange, Reserved \in Int, Reserved' \in Int, claimed \in Int, claimed' \in Int,
           Reserved' <= Reserved, claimed <= claimed'
    PROVE  InRange'
<1>1. PICK r \in Int : r = Reserved
    OBVIOUS
<1>2. PICK s \in Int : s = Reserved'
    OBVIOUS
<1>3. PICK c \in Int : c = claimed
    OBVIOUS
<1>4. PICK d \in Int : d = claimed'
    OBVIOUS
<1>5. PICK h \in Int : h = IndexValues - (IndexValues \div 2)
    BY Sizes
<1>6. BlockSize \in Nat \ {0}
    BY Sizes
<1>7. s <= r /\ c <= d
    BY <1>1, <1>2, <1>3, <1>4
<1>8. r * BlockSize - c < h
    BY <1>1, <1>3, <1>5 DEF InRange
<1>9. PICK t \in Int : t = r * BlockSize
    BY <1>6
<1>10. PICK u \in Int : u = s * BlockSize
    BY <1>6
<1>11. u <= t
    <2>1. (r - s) * BlockSize >= 0
        BY <1>6, <1>7
    <2>2. (r - s) * BlockSize = t - u
        BY <1>6, <1>9, <1>10
    <2> QED
        BY <2>1, <2>2
<1>12. u - d < h
    BY <1>7, <1>8, <1>9, <1>11
<1> QED
    BY <1>2, <1>4, <1>5, <1>10, <1>12 DEF InRange

(* A step of which the producer's numbers know nothing *)
LEMMA NumbersStay ==
    ASSUME Numbers, ClaimsInv, ClaimsInv', claimed <= claimed',
           UNCHANGED <<ppc, call, todo, allocated, enqueued>>
    PROVE  Numbers'
<1>1. Phase' /\ Numbered' /\ Reserved' = Reserved
    BY DEF Numbers, Phase, Numbered, Working, Inserting, First, Reserved
<1>2. Reserved \in Int /\ claimed \in Int
    BY NumberFacts DEF Numbers
<1>3. claimed' \in Int
    BY ClaimsGiveNext
<1>4. InRange'
    BY <1>1, <1>2, <1>3, RangeStays DEF Numbers
<1> QED
    BY <1>1, <1>4 DEF Numbers

LEMMA NumbersFail ==
    ASSUME Numbers, ClaimsInv, Fail, ppc \in {"room", "insert", "block", "construct"},
           UNCHANGED <<allocated, enqueued, claimed>>
    PROVE  Numbers'
<1>1. /\ todo' = << >>
      /\ IF allocated = << >> THEN ppc' = "idle" /\ call' = NoCall
                              ELSE ppc' = "undo" /\ UNCHANGED call
    BY DEF Fail
<1>2. Phase'
    <2>1. todo' \in Seq(Int) /\ AnySequence(allocated')
        BY <1>1 DEF Numbers, Phase
    <2>2. ppc' \in {"idle", "undo"}
        BY <1>1
    <2>3. call'.count \in Nat
        BY <1>1 DEF Numbers, Phase, NoCall
    <2>4. (ppc' = "idle" => allocated' = << >>) /\ (ppc' = "undo" => allocated' # << >>)
        BY <1>1
    <2> QED
        BY <1>1, <2>1, <2>2, <2>3, <2>4 DEF Phase, Working, Inserting
<1>3. Numbered'
    BY <1>1 DEF Numbers, Numbered, Working
<1>4. /\ First \in Nat /\ Len(allocated) \in Nat /\ Reserved \in Nat /\ claimed \in Nat
    BY NumberFacts DEF Numbers
<1>5. First' = First /\ ~Inserting'
    BY <1>1 DEF First, Inserting
<1>6. Reserved' \in Int /\ Reserved' <= Reserved
    BY <1>4, <1>5 DEF Reserved
<1>7. InRange'
    BY <1>4, <1>6, RangeStays DEF Numbers
<1> QED
    BY <1>2, <1>3, <1>7 DEF Numbers

LEMMA NumbersCall ==
    ASSUME Numbers, ClaimsInv, NEW n \in EnqueueCounts, NEW isSingle \in BOOLEAN,
           EnqueueCall(n, isSingle)
    PROVE  Numbers'
<1>1. /\ ppc = "idle" /\ (isSingle => n = 1)
      /\ call' = [single |-> isSingle, count |-> n]
      /\ todo' = NewBases(n) /\ allocated' = << >>
      /\ ppc' = IF NewBases(n) = << >> THEN "construct" ELSE "room"
      /\ enqueued' = enqueued /\ claimed' = claimed
    BY DEF EnqueueCall, others
<1>2. /\ enqueued \in Nat /\ tailIndex = Wrap(enqueued) /\ n \in Nat \ {0}
    BY ClaimsGive, CountsAssumption
<1>3. /\ NewBases(n) \in Seq(Int)
      /\ Len(NewBases(n)) = Filled(enqueued + n) - Filled(enqueued)
      /\ \A i \in 1 .. Len(NewBases(n)) :
            NewBases(n)[i] = Wrap((Filled(enqueued) + i - 1) * BlockSize)
    BY <1>2, NewBasesAre
<1>4. allocated = << >> /\ Len(allocated) = 0 /\ Len(allocated') = 0
    BY <1>1 DEF Numbers, Phase
<1>5. Phase'
    BY <1>1, <1>2, <1>3, EmptyIsSequence DEF Phase, Working, Inserting
<1>6. First' = First /\ First = Filled(enqueued) /\ First \in Nat
    BY <1>1, NumberFacts DEF First, Numbers
<1>7. Numbered'
    <2>1. call'.count = n /\ call'.single = isSingle
        BY <1>1
    <2>2. /\ First' + Len(allocated') + Len(todo') = Filled(enqueued' + call'.count)
        <3>1. Filled(enqueued + n) \in Int
            BY <1>2, FilledFacts
        <3> QED
            BY <1>1, <1>3, <1>4, <1>6, <2>1, <3>1
    <2>3. ASSUME NEW i \in 1 .. Len(todo')
          PROVE  todo'[i] = Wrap((First' + Len(allocated') + i - 1) * BlockSize)
        <3>1. First' + Len(allocated') + i - 1 = First + i - 1
            BY <1>4, <1>6
        <3> QED
            BY <1>1, <1>3, <1>6, <3>1
    <2> QED
        BY <1>1, <1>2, <2>1, <2>2, <2>3 DEF Numbered
<1>8. Reserved' = Reserved /\ Reserved \in Int /\ claimed \in Int
    BY <1>1, <1>4, <1>6, NumberFacts DEF Reserved, Inserting, Numbers
<1>9. InRange'
    BY <1>1, <1>8, RangeStays DEF Numbers
<1> QED
    BY <1>5, <1>7, <1>9 DEF Numbers

(* The test of Room, which keeps the indices in use within half of what an
   index_t counts *)
LEMMA NumbersRoom ==
    ASSUME Numbers, ClaimsInv, Room
    PROVE  Numbers'
<1>1. /\ ppc = "room" /\ UNCHANGED <<allocated, enqueued, claimed>>
    BY DEF Room, others
<1>2. CASE Fail
    BY <1>1, <1>2, NumbersFail
<1>3. ASSUME LessThan(headIndex, Wrap(Head(todo) + BlockSize)),
             ppc' = "insert", UNCHANGED <<todo, call>>
      PROVE  Numbers'
    <2>1. Phase' /\ Numbered'
        BY <1>1, <1>3 DEF Numbers, Phase, Numbered, Working, Inserting, First
    <2>2. /\ First \in Nat /\ Len(allocated) \in Nat /\ Len(todo) \in Nat
          /\ enqueued \in Nat /\ claimed \in Nat /\ claimed <= enqueued
          /\ enqueued <= First * BlockSize
          /\ BlockSize \in Nat \ {0, 1} /\ IndexValues \in Nat \ {0}
          /\ IndexValues \div 2 \in Nat /\ BlockSize <= IndexValues \div 2
        BY NumberFacts DEF Numbers
    <2>3. PICK r \in Nat : r = First + Len(allocated)
        BY <2>2
    <2>4. Reserved = r /\ Reserved' = r + 1
        BY <1>1, <1>3, <2>2, <2>3 DEF Reserved, Inserting, First
    <2>5. headIndex = Wrap(claimed)
        BY ClaimsGive
    <2>6. Head(todo) = Wrap(r * BlockSize)
        <3>1. todo # << >> /\ todo \in Seq(Int)
            BY <1>1 DEF Numbers, Phase
        <3>2. 1 \in 1 .. Len(todo) /\ Head(todo) = todo[1]
            BY <3>1
        <3>3. First + Len(allocated) + 1 - 1 = r
            BY <2>2, <2>3
        <3> QED
            BY <3>2, <3>3 DEF Numbers, Numbered
    <2>7. PICK e \in Int : e = r * BlockSize
        BY <2>2
    <2>8. Wrap(Head(todo) + BlockSize) = Wrap(e + BlockSize)
        <3>1. Wrap(Wrap(e) + BlockSize) = Wrap(e + BlockSize)
            BY <2>2, WrapOfWraps
        <3> QED
            BY <2>6, <2>7, <3>1
    <2>9. e + BlockSize = (r + 1) * BlockSize
        BY <2>2, <2>7
    <2>10. enqueued <= e
        <3>1. (r - First) * BlockSize >= 0
            BY <2>2, <2>3
        <3>2. (r - First) * BlockSize = r * BlockSize - First * BlockSize
            BY <2>2, <2>3
        <3>3. PICK u \in Int : u = First * BlockSize
            BY <2>2
        <3> QED
            BY <2>2, <2>7, <3>1, <3>2, <3>3
    <2>11. e - claimed < IndexValues - (IndexValues \div 2)
        BY <2>4, <2>7 DEF Numbers, InRange
    <2>12. PICK t \in Int : t = e + BlockSize
        BY <2>2
    <2>13. claimed < t /\ t - claimed <= IndexValues
        BY <2>2, <2>10, <2>11, <2>12
    <2>14. t - claimed < IndexValues - (IndexValues \div 2)
        BY <1>3, <2>2, <2>5, <2>8, <2>12, <2>13, LessThanLimit
    <2>15. InRange'
        BY <1>1, <2>4, <2>9, <2>12, <2>14 DEF InRange
    <2> QED
        BY <2>1, <2>15 DEF Numbers
<1> QED
    BY <1>2, <1>3 DEF Room

LEMMA NumbersGet ==
    ASSUME Numbers, ClaimsInv, GetBlock
    PROVE  Numbers'
<1>1. PICK e : allocated' = Append(allocated, e)
    BY DEF GetBlock
<1>2. /\ ppc = "block" /\ ppc' = "link" /\ todo' = Tail(todo)
      /\ UNCHANGED <<call, enqueued, claimed>>
    BY DEF GetBlock, others
<1>3. /\ AnySequence(allocated) /\ todo \in Seq(Int) /\ todo # << >>
      /\ call.count \in Nat
    BY <1>2 DEF Numbers, Phase, Inserting
<1>4. /\ First \in Nat /\ Len(allocated) \in Nat /\ Len(todo) \in Nat
      /\ Reserved \in Nat /\ claimed \in Nat
    BY NumberFacts DEF Numbers
<1>5. /\ AnySequence(allocated') /\ allocated' # << >>
      /\ Len(allocated') = Len(allocated) + 1
    BY <1>1, <1>3, AnyAppend
<1>6. /\ Tail(todo) \in Seq(Int) /\ Len(Tail(todo)) = Len(todo) - 1
      /\ \A i \in 1 .. (Len(todo) - 1) : Tail(todo)[i] = todo[i + 1]
    BY <1>3
<1>7. Phase'
    BY <1>2, <1>3, <1>5, <1>6 DEF Phase, Working, Inserting
<1>8. First' = First
    BY <1>2 DEF First
<1>9. Numbered'
    <2>1. Working
        BY <1>2 DEF Working
    <2>2. /\ call.count >= 1 /\ (call.single => call.count = 1)
          /\ First + Len(allocated) + Len(todo) = Filled(enqueued + call.count)
        BY <2>1 DEF Numbers, Numbered
    <2>3. First' + Len(allocated') + Len(todo') = Filled(enqueued' + call'.count)
        BY <1>2, <1>4, <1>5, <1>6, <1>8, <2>2
    <2>4. ASSUME NEW i \in 1 .. Len(todo')
          PROVE  todo'[i] = Wrap((First' + Len(allocated') + i - 1) * BlockSize)
        <3>1. i \in 1 .. (Len(todo) - 1) /\ i + 1 \in 1 .. Len(todo)
            BY <1>2, <1>4, <1>6
        <3>2. todo[i + 1] = Wrap((First + Len(allocated) + (i + 1) - 1) * BlockSize)
            BY <3>1 DEF Numbers, Numbered
        <3>3. First + Len(allocated) + (i + 1) - 1 = First' + Len(allocated') + i - 1
            BY <1>4, <1>5, <1>8
        <3> QED
            BY <1>2, <1>6, <3>1, <3>2, <3>3
    <2> QED
        BY <1>2, <2>2, <2>3, <2>4 DEF Numbered
<1>10. Reserved' = Reserved
    BY <1>2, <1>4, <1>5, <1>8 DEF Reserved, Inserting
<1>11. InRange'
    BY <1>2, <1>4, <1>10, RangeStays DEF Numbers
<1> QED
    BY <1>7, <1>9, <1>11 DEF Numbers

LEMMA NumbersProduce ==
    ASSUME Numbers, ClaimsInv, Produce
    PROVE  Numbers'
<1>0. /\ First \in Nat /\ Len(allocated) \in Nat /\ Len(todo) \in Nat
      /\ Reserved \in Nat /\ claimed \in Nat /\ enqueued \in Nat
      /\ call.count \in Nat /\ AnySequence(allocated)
    BY NumberFacts DEF Numbers, Phase
<1>1. CASE Room
    BY <1>1, NumbersRoom
<1>2. CASE Insert \/ NewIndex \/ Reinsert \/ InsertTail
    <2>1. /\ Inserting /\ Inserting' /\ ppc' # "room" /\ ppc \in {"insert", "reinsert", "tail"}
          /\ ppc' \in {"reinsert", "tail", "block"}
          /\ UNCHANGED <<call, todo, allocated, enqueued, claimed>>
        BY <1>2 DEF Insert, NewIndex, Reinsert, InsertTail, Inserting, others
    <2>2. Phase' /\ Numbered' /\ Reserved' = Reserved
        BY <2>1 DEF Numbers, Phase, Numbered, Working, Inserting, First, Reserved
    <2>3. InRange'
        BY <1>0, <2>1, <2>2, RangeStays DEF Numbers
    <2> QED
        BY <2>2, <2>3 DEF Numbers
<1>3. CASE InsertFails \/ GetBlockFails \/ ConstructFails
    <2>1. /\ Fail /\ ppc \in {"room", "insert", "block", "construct"}
          /\ UNCHANGED <<allocated, enqueued, claimed>>
        BY <1>3 DEF InsertFails, GetBlockFails, ConstructFails, others
    <2> QED
        BY <2>1, NumbersFail
<1>4. CASE GetBlock
    BY <1>4, NumbersGet
<1>5. CASE Link \/ Construct
    <2>1. /\ ~Inserting /\ ~Inserting' /\ ppc \in {"link", "construct"}
          /\ ppc' = IF ppc = "construct" THEN "publish"
                    ELSE IF todo = << >> THEN "construct" ELSE "room"
          /\ UNCHANGED <<call, todo, allocated, enqueued, claimed>>
        BY <1>5 DEF Link, Construct, Inserting, others
    <2>2. Phase' /\ Numbered' /\ Reserved' = Reserved
        BY <2>1 DEF Numbers, Phase, Numbered, Working, Inserting, First, Reserved
    <2>3. InRange'
        BY <1>0, <2>1, <2>2, RangeStays DEF Numbers
    <2> QED
        BY <2>2, <2>3 DEF Numbers
<1>6. CASE ConstructThrows
    <2>1. /\ ppc = "link" /\ call.single /\ ppc' = "idle" /\ call' = NoCall
          /\ allocated' = << >> /\ UNCHANGED <<todo, enqueued, claimed>>
        BY <1>6 DEF ConstructThrows, others
    <2>2. /\ First + Len(allocated) + Len(todo) = Filled(enqueued + 1)
          /\ allocated # << >> /\ todo \in Seq(Int)
        BY <2>1 DEF Numbers, Numbered, Phase, Working
    <2>3. Filled(enqueued + 1) <= First + 1 /\ Filled(enqueued + 1) \in Int
        <3>1. PICK e \in Int : e = enqueued + 1
            BY <1>0
        <3>2. enqueued \in Int /\ enqueued <= e
            BY <1>0, <3>1
        <3>3. Filled(e) <= Filled(enqueued) + 1 /\ Filled(e) \in Int
            BY <3>1, <3>2, FilledMore
        <3> QED
            BY <3>1, <3>3 DEF First
    <2>4. Len(allocated) >= 1
        BY <1>0, <2>2, AnySequenceFacts
    <2>5. todo = << >>
        BY <1>0, <2>2, <2>3, <2>4
    <2>6. Phase'
        BY <2>1, <2>5, EmptyIsSequence DEF Phase, Working, Inserting, NoCall
    <2>7. Numbered'
        BY <2>1, <2>5 DEF Numbered, Working
    <2>8. First' = First /\ ~Inserting' /\ Len(allocated') = 0
        BY <2>1 DEF First, Inserting
    <2>9. Reserved' \in Int /\ Reserved' <= Reserved
        BY <1>0, <2>8 DEF Reserved
    <2>10. InRange'
        BY <1>0, <2>1, <2>9, RangeStays DEF Numbers
    <2> QED
        BY <2>6, <2>7, <2>10 DEF Numbers
<1>7. CASE Publish
    <2>1. /\ ppc = "publish" /\ ppc' = "idle" /\ call' = NoCall /\ allocated' = << >>
          /\ enqueued' = enqueued + call.count /\ UNCHANGED <<todo, claimed>>
        BY <1>7 DEF Publish
    <2>2. todo = << >> /\ First + Len(allocated) + Len(todo) = Filled(enqueued + call.count)
        BY <2>1 DEF Numbers, Numbered, Phase, Working
    <2>3. First' = First + Len(allocated)
        <3>1. First' = Filled(enqueued + call.count)
            BY <2>1 DEF First
        <3> QED
            BY <1>0, <2>2, <3>1
    <2>4. Phase'
        BY <2>1, <2>2, EmptyIsSequence DEF Phase, Working, Inserting, NoCall
    <2>5. Numbered'
        BY <2>1, <2>2 DEF Numbered, Working
    <2>6. Reserved' = Reserved
        BY <1>0, <2>1, <2>3 DEF Reserved, Inserting
    <2>7. InRange'
        BY <1>0, <2>1, <2>6, RangeStays DEF Numbers
    <2> QED
        BY <2>4, <2>5, <2>7 DEF Numbers
<1>8. CASE UndoBlock
    <2>1. /\ ppc = "undo" /\ allocated' = Tail(allocated)
          /\ IF Len(allocated) = 1 THEN ppc' = "idle" /\ call' = NoCall
                                   ELSE UNCHANGED <<ppc, call>>
          /\ UNCHANGED <<todo, enqueued, claimed>>
        BY <1>8 DEF UndoBlock, others
    <2>2. allocated # << >> /\ todo = << >>
        BY <2>1 DEF Numbers, Phase, Working
    <2>3. AnySequence(allocated') /\ Len(allocated') = Len(allocated) - 1
        BY <1>0, <2>1, <2>2, AnySequenceFacts
    <2>4. Len(allocated) = 1 <=> allocated' = << >>
        <3>1. AnySequence(Tail(allocated)) /\ Len(Tail(allocated)) = Len(allocated) - 1
            BY <1>0, <2>2, AnySequenceFacts
        <3>2. Tail(allocated) = << >> <=> Len(Tail(allocated)) = 0
            BY <3>1, AnySequenceFacts
        <3> QED
            BY <1>0, <2>1, <3>1, <3>2
    <2>5. Phase'
        BY <1>0, <2>1, <2>2, <2>3, <2>4 DEF Phase, Working, Inserting, NoCall
    <2>6. Numbered'
        BY <2>1, <2>2 DEF Numbered, Working
    <2>7. First' = First /\ ~Inserting'
        BY <2>1 DEF First, Inserting
    <2>8. Reserved' \in Int /\ Reserved' <= Reserved
        BY <1>0, <2>3, <2>7 DEF Reserved
    <2>9. InRange'
        BY <1>0, <2>1, <2>8, RangeStays DEF Numbers
    <2> QED
        BY <2>5, <2>6, <2>9 DEF Numbers
<1>9. ASSUME NEW n \in EnqueueCounts, NEW isSingle \in BOOLEAN, EnqueueCall(n, isSingle)
      PROVE  Numbers'
    BY <1>9, NumbersCall
<1> QED
    BY <1>1, <1>2, <1>3, <1>4, <1>5, <1>6, <1>7, <1>8, <1>9 DEF Produce

(* Up to the claim and back from it: elements and blocks are left alone. *)
Asks(c) ==
    \/ LoadOvercommit(c) \/ LoadCount(c) \/ Claim(c) \/ Decide(c) \/ GiveBack(c)
    \/ \E n \in DequeueCounts : DequeueCall(c, n)

AskingPoints == {"idle", "over", "count", "claim", "decide", "give", "take"}

LEMMA AskFrame ==
    ASSUME NEW c \in Consumers, Asks(c)
    PROVE  /\ UNCHANGED <<producer, tailIndex, headIndex, enqueued, claimed, blocks,
                         blockIndex>>
           /\ cpc[c] \in AskingPoints \ {"take"}
           /\ \E p \in AskingPoints : cpc' = [cpc EXCEPT ![c] = p]
           /\ Locals => \A d \in Consumers : d # c =>
                /\ expect'[d] = expect[d] /\ left'[d] = left[d]
                /\ part'[d] = part[d] /\ at'[d] = at[d] /\ header'[d] = header[d]
                /\ slot'[d] = slot[d] /\ block'[d] = block[d]
<1> USE DEF indices, Goto, Leave, AskingPoints, Locals
<1>1. CASE LoadOvercommit(c) \/ Claim(c) \/ Decide(c)
    BY <1>1 DEF LoadOvercommit, Claim, Decide
<1>2. CASE LoadCount(c)
    BY <1>2 DEF LoadCount
<1>3. CASE GiveBack(c)
    BY <1>3 DEF GiveBack
<1>4. ASSUME NEW n \in DequeueCounts, DequeueCall(c, n)
      PROVE  /\ UNCHANGED <<producer, tailIndex, headIndex, enqueued, claimed, blocks,
                           blockIndex>>
             /\ cpc[c] \in AskingPoints \ {"take"}
             /\ \E p \in AskingPoints : cpc' = [cpc EXCEPT ![c] = p]
             /\ UNCHANGED <<expect, left, part, at, header, slot, block>>
    BY <1>4 DEF DequeueCall
<1> QED
    BY <1>1, <1>2, <1>3, <1>4 DEF Asks

(* What the consumers leave alone *)
LEMMA ConsumeFrame ==
    ASSUME NEW c \in Consumers, Consume(c)
    PROVE  /\ UNCHANGED producer /\ UNCHANGED <<tailIndex, enqueued, index, indexTail, key>>
           /\ Take(c) \/ UNCHANGED <<headIndex, claimed>>
<1> USE DEF producer, indices, blockIndex
<1>1. CASE Asks(c)
    BY <1>1, AskFrame
<1>2. CASE Take(c)
    BY <1>2 DEF Take
<1>3. CASE LoadIndex(c) \/ LoadTail(c) \/ LoadKey(c)
    BY <1>3 DEF LoadIndex, LoadTail, LoadKey
<1>4. CASE Move(c)
    BY <1>4 DEF Move
<1>5. CASE SetEmpty(c)
    BY <1>5 DEF SetEmpty
<1>6. CASE NullEntry(c) \/ Free(c)
    BY <1>6 DEF NullEntry, Free
<1> QED
    BY <1>1, <1>2, <1>3, <1>4, <1>5, <1>6 DEF Consume, Asks

LEMMA NumbersAlways == Spec => [](Numbers /\ ClaimsInv /\ Locals)
<1>1. ASSUME Numbers, ClaimsInv, ClaimsInv', Locals, [Next]_vars
      PROVE  Numbers'
    <2>1. CASE Produce
        BY <1>1, <2>1, NumbersProduce
    <2>2. CASE UNCHANGED vars
        <3>1. UNCHANGED <<ppc, call, todo, allocated, enqueued, claimed>>
            BY <2>2 DEF vars, producer, others
        <3>2. claimed <= claimed'
            BY <1>1, <3>1, ClaimsGive
        <3> QED
            BY <1>1, <3>1, <3>2, NumbersStay
    <2>3. ASSUME NEW c \in Consumers, Consume(c) PROVE Numbers'
        <3>1. UNCHANGED <<ppc, call, todo, allocated, enqueued>>
            BY <2>3, ConsumeFrame DEF producer
        <3>2. claimed <= claimed'
            <4>1. claimed \in Nat /\ (cpc[c] = "take" => left[c] \in Nat)
                BY <1>1, ClaimsGive
            <4>2. CASE Take(c)
                BY <4>1, <4>2 DEF Take
            <4>3. CASE claimed' = claimed
                BY <4>1, <4>3
            <4> QED
                BY <2>3, <4>2, <4>3, ConsumeFrame
        <3> QED
            BY <1>1, <3>1, <3>2, NumbersStay
    <2> QED
        BY <1>1, <2>1, <2>2, <2>3 DEF Next
<1> QED
    BY <1>1, NumbersInit, ClaimsAlways, PTL DEF Spec

-----------------------------------------------------------------------------
(* The ring. Block k has its entry in slot Slot(o, h, k) of the block index  *)
(* h; KeyOf(k) is the key of that entry, u the last block that has one, and  *)
(* B[k] the block itself from when the producer links it until the consumer  *)
(* that empties it takes it out.                                             *)

KeyOf(k) == Wrap(k * BlockSize)
Entry(ix, o, h, k) == ix[h][Slot(o, h, k)]
Here(ix, o, k) == Entry(ix, o, Len(ix), k)
Last == First - 1 + Len(allocated) + (IF ppc = "block" THEN 1 ELSE 0)

Shape(ix, o) ==
    /\ o \in [1 .. MaxIndexes -> Int]
    /\ AnySequence(ix) /\ Len(ix) \in 1 .. MaxIndexes
    /\ \A h \in 1 .. Len(ix) :
        /\ ix[h] \in [0 .. (Cap(h) - 1) -> 1 .. Cap(h)]
        /\ \A s, t \in 0 .. (Cap(h) - 1) : ix[h][s] = ix[h][t] => s = t

(* An entry of an earlier block index is in the same slot's place there. *)
Nested(ix, o) ==
    \A h \in 1 .. Len(ix), k \in Int :
        Here(ix, o, k) <= Cap(h) => Entry(ix, o, h, k) = Here(ix, o, k)

Tails(o) ==
    /\ indexTail \in Seq(Int) /\ Len(indexTail) = Len(index)
    /\ indexTail[Len(index)] = Slot(o, Len(index), Last)
    /\ \A h \in 1 .. (Len(index) - 1) :
        /\ indexTail[h] \in 0 .. (Cap(h) - 1)
        /\ key[index[h][indexTail[h]]] # InvalidBase

(* Whatever the key of an entry is, it is that of a block of its slot. *)
Keys(ix, o) ==
    /\ key \in [Entries -> 0 .. (IndexValues - 1)]
    /\ \A h \in 1 .. Len(ix) : \A s \in 0 .. (Cap(h) - 1) :
        key[ix[h][s]] # InvalidBase =>
            \E k \in Int : key[ix[h][s]] = KeyOf(k) /\ Slot(o, h, k) = s

Old == IF ppc = "reinsert" THEN Cap(Len(index) - 1) ELSE Cap(Len(index))

Fresh ==
    /\ \A e \in Entries : e > Old => key[e] = InvalidBase
    /\ ppc = "reinsert" =>
        /\ Len(index) > 1 /\ indexTail[Len(index)] = Old - 1
        /\ \A i \in Old .. (Cap(Len(index)) - 1) : index[Len(index)][i] = i + 1

Live(ix, o, u, B) ==
    /\ u \in Int /\ B \in [Int -> Blocks \union {Null}]
    /\ \A k \in Int : B[k] # Null =>
        /\ u - Cap(Len(ix)) < k /\ k <= u /\ 0 <= k
        /\ value[Here(ix, o, k)] = B[k]
        /\ \A j \in k .. u : key[Here(ix, o, j)] = KeyOf(j)
    /\ value \in [Entries -> Blocks \union {Null}]
    /\ \A e \in Entries : value[e] # Null =>
        \E k \in Int : B[k] # Null /\ Here(ix, o, k) = e

Top(o, u) ==
    /\ u >= Last
    /\ ppc # "undo" => u = Last
    /\ ppc = "undo" => \A j \in First .. u : key[Here(index, o, j)] = KeyOf(j)
    /\ ppc = "tail" => /\ key[Here(index, o, u + 1)] = KeyOf(u + 1)
                       /\ value[Here(index, o, u + 1)] = Null
    /\ ppc \in {"block", "link"} => /\ key[Here(index, o, u)] = KeyOf(u)
                                    /\ value[Here(index, o, u)] = Null

Ring(o, u, B) ==
    /\ Shape(index, o) /\ Nested(index, o) /\ Tails(o) /\ Keys(index, o)
    /\ Fresh /\ Live(index, o, u, B) /\ Top(o, u)

LEMMA KeyFacts ==
    ASSUME NEW k \in Int
    PROVE  KeyOf(k) \in 0 .. (IndexValues - 1) /\ KeyOf(k) # InvalidBase
<1>1. k * BlockSize \in Int
    BY Sizes
<1> QED
    BY <1>1, WrapFacts, WrapOfMultiple DEF KeyOf

LEMMA ShapeFacts ==
    ASSUME NEW ix, NEW o, Shape(ix, o), NEW h \in 1 .. Len(ix)
    PROVE  /\ Len(ix) \in Nat \ {0} /\ h \in Nat \ {0} /\ h \in 1 .. MaxIndexes
           /\ Len(ix) \in 1 .. Len(ix) /\ Len(ix) \in 1 .. MaxIndexes
           /\ Cap(h) \in Nat \ {0} /\ Cap(Len(ix)) \in Nat \ {0}
           /\ Cap(h) <= Cap(Len(ix))
           /\ 1 .. Cap(h) \subseteq Entries /\ 1 .. Cap(h) \subseteq 1 .. Cap(Len(ix))
           /\ DOMAIN ix[h] = 0 .. (Cap(h) - 1)
           /\ Cardinality(DOMAIN ix[h]) = Cap(h)
           /\ \A s \in 0 .. (Cap(h) - 1) : ix[h][s] \in 1 .. Cap(h) /\ ix[h][s] \in Entries
<1>1. /\ Len(ix) \in 1 .. MaxIndexes
      /\ ix[h] \in [0 .. (Cap(h) - 1) -> 1 .. Cap(h)]
    BY DEF Shape
<1>2. MaxIndexes \in Nat \ {0}
    BY Sizes
<1>3. h \in 1 .. MaxIndexes /\ Len(ix) \in Nat \ {0} /\ h <= Len(ix)
    BY <1>1, <1>2
<1>4. /\ Cap(h) \in Nat \ {0} /\ Cap(Len(ix)) \in Nat \ {0}
      /\ NumEntries = Cap(MaxIndexes) /\ Cap(h) <= NumEntries
    BY <1>1, <1>3, Sizes
<1>5. Cap(h) <= Cap(Len(ix))
    BY <1>1, <1>3, Sizes
<1>6. NumEntries \in Int
    BY <1>2, <1>4, Sizes
<1>7. 1 .. Cap(h) \subseteq Entries /\ 1 .. Cap(h) \subseteq 1 .. Cap(Len(ix))
    <2>1. PICK n \in Int : n = NumEntries
        BY <1>6
    <2>2. PICK c \in Nat : c = Cap(h)
        BY <1>4
    <2>3. PICK d \in Nat : d = Cap(Len(ix))
        BY <1>4
    <2>4. c <= n /\ c <= d
        BY <1>4, <1>5, <2>1, <2>2, <2>3
    <2>5. 1 .. c \subseteq 1 .. n /\ 1 .. c \subseteq 1 .. d
        BY <2>4
    <2> QED
        BY <2>1, <2>2, <2>3, <2>5 DEF Entries
<1>8. Cardinality(0 .. (Cap(h) - 1)) = Cap(h)
    <2>1. 0 \in Int /\ Cap(h) - 1 \in Int
        BY <1>4
    <2>2. Cardinality(0 .. (Cap(h) - 1)) =
            IF 0 > Cap(h) - 1 THEN 0 ELSE (Cap(h) - 1) - 0 + 1
        BY <2>1, FS_Interval
    <2> QED
        BY <1>4, <2>2
<1>9. DOMAIN ix[h] = 0 .. (Cap(h) - 1)
    BY <1>1
<1>10. \A s \in 0 .. (Cap(h) - 1) : ix[h][s] \in 1 .. Cap(h)
    BY <1>1
<1> QED
    BY <1>1, <1>3, <1>4, <1>5, <1>7, <1>8, <1>9, <1>10

LEMMA EntryFacts ==
    ASSUME NEW ix, NEW o, Shape(ix, o), NEW h \in 1 .. Len(ix), NEW k \in Int
    PROVE  /\ Entry(ix, o, h, k) \in 1 .. Cap(h) /\ Entry(ix, o, h, k) \in Entries
           /\ Here(ix, o, k) \in 1 .. Cap(Len(ix)) /\ Here(ix, o, k) \in Entries
           /\ \A s \in 0 .. (Cap(h) - 1) :
                ix[h][s] = Entry(ix, o, h, k) <=> s = Slot(o, h, k)
<1>1. /\ h \in 1 .. MaxIndexes /\ Len(ix) \in 1 .. Len(ix) /\ Len(ix) \in 1 .. MaxIndexes
      /\ o \in [1 .. MaxIndexes -> Int]
    BY ShapeFacts DEF Shape
<1>2. Slot(o, h, k) \in 0 .. (Cap(h) - 1) /\ Slot(o, Len(ix), k) \in 0 .. (Cap(Len(ix)) - 1)
    BY <1>1, SlotFacts
<1>3. /\ Entry(ix, o, h, k) \in 1 .. Cap(h) /\ Entry(ix, o, h, k) \in Entries
    BY <1>2, ShapeFacts DEF Entry
<1>4. Here(ix, o, k) \in 1 .. Cap(Len(ix)) /\ Here(ix, o, k) \in Entries
    BY <1>1, <1>2, ShapeFacts DEF Entry, Here
<1>5. \A s \in 0 .. (Cap(h) - 1) : ix[h][s] = Entry(ix, o, h, k) <=> s = Slot(o, h, k)
    BY <1>2 DEF Shape, Entry
<1> QED
    BY <1>3, <1>4, <1>5

LEMMA HereNear ==
    ASSUME NEW ix, NEW o, Shape(ix, o), NEW j \in Int, NEW k \in Int,
           j - k < Cap(Len(ix)), k - j < Cap(Len(ix)), Here(ix, o, j) = Here(ix, o, k)
    PROVE  j = k
<1> DEFINE n == Len(ix)
<1>1. /\ n \in 1 .. Len(ix) /\ n \in 1 .. MaxIndexes
      /\ o \in [1 .. MaxIndexes -> Int]
    <2>1. Len(ix) \in 1 .. Len(ix) /\ Len(ix) \in 1 .. MaxIndexes
        BY Sizes DEF Shape
    <2> QED
        BY <2>1 DEF Shape
<1>2. Slot(o, n, j) \in 0 .. (Cap(n) - 1)
    BY <1>1, SlotFacts
<1>3. Slot(o, n, j) = Slot(o, n, k)
    BY <1>1, <1>2, EntryFacts DEF Here, Entry
<1> QED
    BY <1>1, <1>3, SlotNear

LEMMA HereAround ==
    ASSUME NEW ix, NEW o, Shape(ix, o), NEW k \in Int
    PROVE  Here(ix, o, k - Cap(Len(ix))) = Here(ix, o, k)
<1>1. Len(ix) \in 1 .. MaxIndexes /\ o \in [1 .. MaxIndexes -> Int]
    BY DEF Shape
<1> QED
    BY <1>1, SlotAround DEF Here, Entry

-----------------------------------------------------------------------------
(* The blocks that the producer has allocated *)

Number(u, i) == (IF ppc = "block" THEN u - 1 ELSE u) - Len(allocated) + i
Unlinked == IF ppc = "link" THEN {Len(allocated)} ELSE {}
Freeing == {c \in Consumers : cpc[c] = "free"}

Allocated(u, B) ==
    /\ \A i \in 1 .. Len(allocated) :
        /\ allocated[i].block \in Blocks /\ emptied[allocated[i].block] = 0
        /\ allocated[i].base = KeyOf(Number(u, i))
        /\ i \notin Unlinked => B[Number(u, i)] = allocated[i].block
    /\ \A k \in Int : B[k] # Null /\ k >= First =>
        \E i \in 1 .. Len(allocated) : k = Number(u, i)

(* Every block is in one place. *)
Placed(B) ==
    /\ pool \subseteq Blocks
    /\ \A j, k \in Int : B[j] = B[k] /\ B[j] # Null => j = k
    /\ \A k \in Int : B[k] \notin pool
    /\ ppc = "link" => Newest \notin pool /\ \A k \in Int : B[k] # Newest
    /\ \A c \in Freeing :
        /\ block[c] \in Blocks \ pool
        /\ \A k \in Int : B[k] # block[c]
        /\ ppc = "link" => block[c] # Newest
        /\ \A d \in Freeing : block[d] = block[c] => d = c
    /\ \A b \in Blocks :
        \/ b \in pool
        \/ \E k \in Int : B[k] = b
        \/ ppc = "link" /\ b = Newest
        \/ \E c \in Freeing : block[c] = b

TailBlock(u, B) ==
    /\ tailBlock \in Blocks \union {Null}
    /\ ppc = "publish" => B[u] = tailBlock /\ B[u] # Null
    /\ ppc # "publish" => B[First - 1] \in {Null, tailBlock}

(* The elements that a consumer has claimed and not yet taken off its block,
   those that are still to be moved, and those of block k that are not yet
   taken off it *)
Holding == {"index", "tail", "key", "move", "empty", "null", "free"}
Loaded == {"tail", "key", "move", "empty", "null", "free"}
Moved == {"empty", "null", "free"}
Done(c) == IF cpc[c] = "empty" THEN expect[c] - part[c] ELSE expect[c]
Held(c) ==
    IF cpc[c] \in Holding THEN Done(c) .. (expect[c] + left[c] - 1) ELSE {}
Unmoved(c) ==
    IF cpc[c] \in Holding THEN expect[c] .. (expect[c] + left[c] - 1) ELSE {}
ElementsOf(k) == (k * BlockSize) .. (k * BlockSize + BlockSize - 1)
Open(k) ==
    {n \in ElementsOf(k) : n >= claimed \/ \E c \in Consumers : n \in Held(c)}
Mine(c) == Block(expect[c] - 1)

HoldsOne(c) ==
    cpc[c] \in Holding =>
        /\ expect[c] \in Nat /\ left[c] \in Nat
        /\ at[c] = Wrap(expect[c])
        /\ Held(c) \subseteq 0 .. (claimed - 1)
        /\ cpc[c] \in {"index", "tail", "key", "move"} => left[c] > 0
        /\ cpc[c] \in Moved =>
            /\ expect[c] > 0 /\ expect[c] <= claimed
            /\ left[c] > 0 => expect[c] % BlockSize = 0
        /\ cpc[c] = "empty" =>
            part[c] \in 1 .. BlockSize /\ Mine(c) * BlockSize <= expect[c] - part[c]

Holds ==
    /\ \A c \in Consumers : HoldsOne(c)
    /\ \A c, d \in Consumers : c # d => Held(c) \intersect Held(d) = {}

FindsOne(c, o, B) ==
    /\ cpc[c] \in Loaded =>
        /\ header[c] \in 1 .. Len(index)
        /\ \A k \in Int : B[k] # Null /\ k * BlockSize < expect[c] + left[c] =>
            Entry(index, o, header[c], k) = Here(index, o, k)
    /\ cpc[c] = "key" => /\ slot[c] \in 0 .. (Cap(header[c]) - 1)
                         /\ key[index[header[c]][slot[c]]] # InvalidBase
    /\ cpc[c] = "move" => slot[c] = Slot(o, header[c], Block(expect[c]))
    /\ cpc[c] \in Moved => slot[c] = Slot(o, header[c], Mine(c))

Finds(o, B) == \A c \in Consumers : FindsOne(c, o, B)

CountedOne(k, B) ==
    /\ Open(k) # {} => B[k] # Null
    /\ B[k] # Null => emptied[B[k]] = BlockSize - Cardinality(Open(k))
    /\ B[k] # Null /\ Open(k) = {} => \E c \in Consumers : cpc[c] = "null" /\ Mine(c) = k

Counted(B) ==
    /\ emptied \in [Blocks -> 0 .. BlockSize]
    /\ \A k \in Int : 0 <= k /\ k < First => CountedOne(k, B)
    /\ \A c \in Consumers : cpc[c] \in {"empty", "null"} =>
        block[c] = B[Mine(c)] /\ block[c] # Null
    /\ \A c \in Consumers : cpc[c] = "null" =>
        /\ Open(Mine(c)) = {}
        /\ \A d \in Consumers : cpc[d] = "null" /\ Mine(d) = Mine(c) => d = c

Filling == IF ppc = "publish" THEN call.count ELSE 0
Kept(n) ==
    \/ claimed <= n /\ n < enqueued + Filling
    \/ \E c \in Consumers : n \in Unmoved(c)

Contents(B) ==
    /\ content \in [Blocks -> [Places -> Nat]]
    /\ \A n \in Int : Kept(n) =>
        B[Block(n)] # Null /\ content[B[Block(n)]][n % BlockSize] = n + 1

Main(o, u, B) ==
    /\ Ring(o, u, B) /\ Allocated(u, B) /\ Placed(B) /\ TailBlock(u, B)
    /\ Holds /\ Finds(o, B) /\ Counted(B) /\ Contents(B)

-----------------------------------------------------------------------------
(* Steps that the elements of the consumers know nothing of *)

QuietOne(d) ==
    \/ cpc[d] \notin Holding /\ cpc'[d] \notin Holding
    \/ /\ cpc'[d] = cpc[d] /\ expect'[d] = expect[d] /\ left'[d] = left[d]
       /\ part'[d] = part[d] /\ at'[d] = at[d] /\ header'[d] = header[d]
       /\ slot'[d] = slot[d] /\ block'[d] = block[d]

Quiet == \A d \in Consumers : QuietOne(d)

LEMMA QuietConsumer == UNCHANGED consumer => Quiet
BY DEF consumer, Quiet, QuietOne

LEMMA QuietFacts ==
    ASSUME Quiet, claimed' = claimed
    PROVE  /\ \A d \in Consumers : Held(d)' = Held(d) /\ Unmoved(d)' = Unmoved(d)
           /\ \A d \in Consumers : cpc'[d] \in Holding <=> cpc[d] \in Holding
           /\ \A d \in Consumers : cpc'[d] \in Holding =>
                /\ cpc'[d] = cpc[d] /\ expect'[d] = expect[d] /\ left'[d] = left[d]
                /\ part'[d] = part[d] /\ at'[d] = at[d] /\ header'[d] = header[d]
                /\ slot'[d] = slot[d] /\ block'[d] = block[d] /\ Mine(d)' = Mine(d)
           /\ \A k : Open(k)' = Open(k)
           /\ Freeing' = Freeing
<1>1. ASSUME NEW d \in Consumers
      PROVE  /\ Held(d)' = Held(d) /\ Unmoved(d)' = Unmoved(d)
             /\ cpc'[d] \in Holding <=> cpc[d] \in Holding
             /\ cpc'[d] \in Holding =>
                /\ cpc'[d] = cpc[d] /\ expect'[d] = expect[d] /\ left'[d] = left[d]
                /\ part'[d] = part[d] /\ at'[d] = at[d] /\ header'[d] = header[d]
                /\ slot'[d] = slot[d] /\ block'[d] = block[d] /\ Mine(d)' = Mine(d)
    BY DEF Quiet, QuietOne, Held, Unmoved, Done, Mine
<1>2. ASSUME NEW k PROVE Open(k)' = Open(k)
    BY <1>1 DEF Open
<1>3. Freeing' = Freeing
    BY <1>1 DEF Freeing, Holding
<1> QED
    BY <1>1, <1>2, <1>3

LEMMA HoldsStay ==
    ASSUME Holds, Quiet, claimed' = claimed
    PROVE  Holds'
<1>1. ASSUME NEW d \in Consumers PROVE HoldsOne(d)'
    <2>1. CASE cpc'[d] \in Holding
        <3>1. /\ cpc'[d] = cpc[d] /\ expect'[d] = expect[d] /\ left'[d] = left[d]
              /\ part'[d] = part[d] /\ at'[d] = at[d] /\ Mine(d)' = Mine(d)
              /\ Held(d)' = Held(d)
            BY <2>1, QuietFacts
        <3> QED
            BY <3>1 DEF Holds, HoldsOne
    <2>2. CASE cpc'[d] \notin Holding
        BY <2>2 DEF HoldsOne
    <2> QED
        BY <2>1, <2>2
<1>2. \A c, d \in Consumers : c # d => Held(c)' \intersect Held(d)' = {}
    BY QuietFacts DEF Holds
<1> QED
    BY <1>1, <1>2 DEF Holds

LEMMA FindsStay ==
    ASSUME NEW o, NEW B, Finds(o, B), Quiet, claimed' = claimed, index' = index,
           \A e : key[e] # InvalidBase => key'[e] # InvalidBase
    PROVE  Finds(o, B)'
<1>1. ASSUME NEW d \in Consumers PROVE FindsOne(d, o, B)'
    <2>1. CASE cpc'[d] \in Holding
        <3>1. /\ cpc'[d] = cpc[d] /\ expect'[d] = expect[d] /\ left'[d] = left[d]
              /\ header'[d] = header[d] /\ slot'[d] = slot[d] /\ Mine(d)' = Mine(d)
            BY <2>1, QuietFacts
        <3>2. FindsOne(d, o, B)
            BY DEF Finds
        <3> QED
            BY <3>1, <3>2 DEF FindsOne
    <2>2. CASE cpc'[d] \notin Holding
        BY <2>2 DEF FindsOne, Holding, Loaded, Moved
    <2> QED
        BY <2>1, <2>2
<1> QED
    BY <1>1 DEF Finds

LEMMA CountedStay ==
    ASSUME NEW B, Counted(B), Quiet, claimed' = claimed, First' = First,
           emptied' \in [Blocks -> 0 .. BlockSize],
           \A k \in Int : B[k] # Null => emptied'[B[k]] = emptied[B[k]]
    PROVE  Counted(B)'
<1>1. ASSUME NEW k \in Int, 0 <= k, k < First' PROVE CountedOne(k, B)'
    <2>1. CountedOne(k, B) /\ Open(k)' = Open(k)
        BY <1>1, QuietFacts DEF Counted
    <2>2. B[k] # Null /\ Open(k) = {} => \E c \in Consumers : cpc'[c] = "null" /\ Mine(c)' = k
        BY <2>1, QuietFacts DEF CountedOne, Holding
    <2> QED
        BY <2>1, <2>2 DEF CountedOne
<1>2. ASSUME NEW c \in Consumers, cpc'[c] \in {"empty", "null"}
      PROVE  /\ block'[c] = B[Mine(c)'] /\ block'[c] # Null
             /\ cpc'[c] = cpc[c] /\ Mine(c)' = Mine(c)
    <2>1. cpc'[c] = cpc[c] /\ block'[c] = block[c] /\ Mine(c)' = Mine(c)
        BY <1>2, QuietFacts DEF Holding
    <2> QED
        BY <1>2, <2>1 DEF Counted
<1>3. ASSUME NEW c \in Consumers, cpc'[c] = "null"
      PROVE  /\ Open(Mine(c))' = {}
             /\ \A d \in Consumers : cpc'[d] = "null" /\ Mine(d)' = Mine(c)' => d = c
    <2>1. cpc[c] = "null" /\ Mine(c)' = Mine(c)
        BY <1>2, <1>3
    <2>2. \A d \in Consumers : cpc'[d] = "null" => cpc[d] = "null" /\ Mine(d)' = Mine(d)
        BY <1>2
    <2>3. Open(Mine(c)) = {}
        BY <2>1 DEF Counted
    <2> QED
        BY <2>1, <2>2, <2>3, QuietFacts DEF Counted
<1> QED
    BY <1>1, <1>2, <1>3 DEF Counted

LEMMA ContentsStay ==
    ASSUME NEW B, Contents(B), Quiet, UNCHANGED <<claimed, content>>,
           enqueued' + Filling' = enqueued + Filling
    PROVE  Contents(B)'
<1>1. \A n \in Int : Kept(n)' <=> Kept(n)
    BY QuietFacts DEF Kept
<1> QED
    BY <1>1 DEF Contents

LEMMA AllocatedStay ==
    ASSUME NEW u, NEW w, NEW B, Allocated(u, B), allocated' = allocated, First' = First,
           Unlinked' = Unlinked, \A i : Number(w, i)' = Number(u, i),
           \A i \in 1 .. Len(allocated) :
                emptied'[allocated[i].block] = emptied[allocated[i].block]
    PROVE  Allocated(w, B)'
BY DEF Allocated

LEMMA PlacedStay ==
    ASSUME NEW B, Placed(B), UNCHANGED <<pool, allocated>>,
           ppc' = "link" <=> ppc = "link", Freeing' = Freeing,
           \A c \in Freeing : block'[c] = block[c]
    PROVE  Placed(B)'
<1>1. Newest' = Newest
    BY DEF Newest
<1> QED
    BY <1>1 DEF Placed

LEMMA TailBlockStay ==
    ASSUME NEW u, NEW w, NEW B, TailBlock(u, B), UNCHANGED tailBlock, First' = First,
           ppc # "publish", ppc' # "publish"
    PROVE  TailBlock(w, B)'
BY DEF TailBlock

LEMMA IndexStays ==
    ASSUME NEW o, Shape(index, o), Nested(index, o), Keys(index, o), index' = index, key' = key
    PROVE  Shape(index, o)' /\ Nested(index, o)' /\ Keys(index, o)'
<1>1. Shape(index, o)'
    BY DEF Shape
<1>2. Nested(index, o)'
    BY DEF Nested
<1>3. Keys(index, o)'
    BY DEF Keys
<1> QED
    BY <1>1, <1>2, <1>3

LEMMA RingStay ==
    ASSUME NEW o, NEW u, NEW B, Ring(o, u, B), UNCHANGED <<index, indexTail, key, value>>,
           Last' = Last, ppc # "reinsert", ppc' # "reinsert", Top(o, u)'
    PROVE  Ring(o, u, B)'
<1>1. Shape(index, o)' /\ Nested(index, o)' /\ Keys(index, o)'
    BY IndexStays DEF Ring
<1>2. Live(index, o, u, B)'
    BY DEF Ring, Live
<1>3. Tails(o)'
    BY DEF Ring, Tails
<1>4. Fresh'
    BY DEF Ring, Fresh, Old
<1> QED
    BY <1>1, <1>2, <1>3, <1>4 DEF Ring

(* A step of the consumers, for what only the producer reads *)
LEMMA ProducerStay ==
    ASSUME NEW o, NEW u, NEW B, UNCHANGED <<producer, enqueued, index, indexTail, key>>
    PROVE  /\ First' = First /\ Last' = Last /\ Unlinked' = Unlinked /\ Filling' = Filling
           /\ \A i : Number(u, i)' = Number(u, i)
           /\ UNCHANGED <<ppc, allocated, tailBlock, call>>
           /\ TailBlock(u, B) => TailBlock(u, B)'
           /\ value' = value /\ Ring(o, u, B) => Ring(o, u, B)'
           /\ emptied' = emptied /\ Allocated(u, B) => Allocated(u, B)'
           /\ pool' = pool /\ Freeing' = Freeing /\ Placed(B)
                /\ (\A c \in Freeing : block'[c] = block[c]) => Placed(B)'
<1>1. /\ UNCHANGED <<ppc, allocated, tailBlock, call>>
      /\ First' = First /\ Last' = Last /\ Unlinked' = Unlinked /\ Filling' = Filling
      /\ \A i : Number(u, i)' = Number(u, i)
    BY DEF producer, First, Last, Unlinked, Filling, Number
<1>2. TailBlock(u, B) => TailBlock(u, B)'
    BY <1>1 DEF TailBlock
<1>3. ASSUME value' = value, Ring(o, u, B) PROVE Ring(o, u, B)'
    <2>1. Shape(index, o)' /\ Nested(index, o)' /\ Keys(index, o)'
        BY <1>3, IndexStays DEF Ring
    <2>2. Live(index, o, u, B)'
        BY <1>3 DEF Ring, Live
    <2>3. Tails(o)' /\ Fresh' /\ Top(o, u)'
        BY <1>1, <1>3 DEF Ring, Tails, Fresh, Old, Top
    <2> QED
        BY <2>1, <2>2, <2>3 DEF Ring
<1>4. ASSUME emptied' = emptied, Allocated(u, B) PROVE Allocated(u, B)'
    BY <1>1, <1>4, AllocatedStay
<1>5. ASSUME pool' = pool, Freeing' = Freeing, Placed(B),
             \A c \in Freeing : block'[c] = block[c]
      PROVE  Placed(B)'
    BY <1>1, <1>5, PlacedStay
<1> QED
    BY <1>1, <1>2, <1>3, <1>4, <1>5

-----------------------------------------------------------------------------
(* The steps of the consumers *)

LEMMA BlockBound ==
    ASSUME NEW n \in Int, NEW k \in Int
    PROVE  /\ Block(n) \in Int
           /\ n < k * BlockSize <=> Block(n) < k
           /\ k * BlockSize <= n <=> k <= Block(n)
<1> DEFINE b == Block(n)
           r == n % BlockSize
<1>1. BlockSize \in Nat \ {0, 1}
    BY Sizes
<1>2. b \in Int /\ r \in 0 .. (BlockSize - 1) /\ n = b * BlockSize + r
    BY BlockFacts
<1> HIDE DEF b, r
<1>3. ASSUME b < k PROVE n < k * BlockSize
    <2>1. (b + 1) * BlockSize <= k * BlockSize
        <3>1. (k - (b + 1)) * BlockSize >= 0
            BY <1>1, <1>2, <1>3
        <3>2. (k - (b + 1)) * BlockSize = k * BlockSize - (b + 1) * BlockSize
            BY <1>1, <1>2
        <3>3. k * BlockSize \in Int /\ (b + 1) * BlockSize \in Int
            BY <1>1, <1>2
        <3> QED
            BY <3>1, <3>2, <3>3
    <2>2. (b + 1) * BlockSize = b * BlockSize + BlockSize /\ b * BlockSize \in Int
        BY <1>1, <1>2
    <2>3. k * BlockSize \in Int
        BY <1>1
    <2> QED
        BY <1>1, <1>2, <2>1, <2>2, <2>3
<1>4. ASSUME k <= b PROVE k * BlockSize <= n
    <2>1. (b - k) * BlockSize >= 0
        BY <1>1, <1>2, <1>4
    <2>2. (b - k) * BlockSize = b * BlockSize - k * BlockSize
        BY <1>1, <1>2
    <2>3. k * BlockSize \in Int /\ b * BlockSize \in Int
        BY <1>1, <1>2
    <2> QED
        BY <1>2, <2>1, <2>2, <2>3
<1>5. k * BlockSize \in Int
    BY <1>1
<1> QED
    BY <1>2, <1>3, <1>4, <1>5 DEF b

LEMMA ElementsFacts ==
    ASSUME NEW n \in Int, NEW k \in Int
    PROVE  n \in ElementsOf(k) <=> Block(n) = k
<1>1. BlockSize \in Nat \ {0, 1}
    BY Sizes
<1>2. n \in ElementsOf(k) <=> k * BlockSize <= n /\ n < (k + 1) * BlockSize
    <2>1. (k + 1) * BlockSize = k * BlockSize + BlockSize /\ k * BlockSize \in Int
        BY <1>1
    <2> QED
        BY <1>1, <2>1 DEF ElementsOf
<1>3. /\ Block(n) \in Int
      /\ k * BlockSize <= n <=> k <= Block(n)
      /\ n < (k + 1) * BlockSize <=> Block(n) < k + 1
    BY BlockBound
<1> QED
    BY <1>2, <1>3

LEMMA HeldFacts ==
    ASSUME ClaimsInv, Holds, NEW c \in Consumers, NEW n \in Held(c)
    PROVE  /\ cpc[c] \in Holding /\ n \in Nat /\ n < claimed
           /\ Block(n) \in Nat /\ Block(n) < First /\ n \in Open(Block(n))
<1>1. cpc[c] \in Holding
    BY DEF Held
<1>2. n \in 0 .. (claimed - 1) /\ claimed \in Nat /\ enqueued \in Nat /\ claimed <= enqueued
    BY <1>1, ClaimsGive DEF Holds, HoldsOne
<1>3. n \in Nat /\ n < claimed /\ n < enqueued
    BY <1>2
<1>4. First \in Int /\ enqueued <= First * BlockSize
    BY <1>2, FilledFacts DEF First
<1>5. n < First * BlockSize /\ 0 * BlockSize <= n
    <2>1. BlockSize \in Nat
        BY Sizes
    <2>2. First * BlockSize \in Int
        BY <1>4, <2>1
    <2> QED
        BY <1>2, <1>3, <1>4, <2>1, <2>2
<1>6. Block(n) \in Int /\ Block(n) < First /\ 0 <= Block(n)
    BY <1>3, <1>4, <1>5, BlockBound
<1>7. n \in ElementsOf(Block(n))
    BY <1>3, <1>6, ElementsFacts
<1> QED
    BY <1>1, <1>3, <1>6, <1>7 DEF Open

LEMMA HeldIsLive ==
    ASSUME ClaimsInv, NEW B, Counted(B), Holds, NEW c \in Consumers, NEW n \in Held(c)
    PROVE  B[Block(n)] # Null
<1>1. /\ Block(n) \in Int /\ 0 <= Block(n) /\ Block(n) < First
      /\ Open(Block(n)) # {}
    BY HeldFacts
<1> QED
    BY <1>1 DEF Counted, CountedOne

LEMMA MainQuiet ==
    ASSUME NEW o, NEW u, NEW B, Main(o, u, B), Quiet,
           UNCHANGED <<producer, enqueued, claimed, index, indexTail, key, value, blocks>>
    PROVE  Main(o, u, B)'
<1>1. UNCHANGED <<content, emptied, pool>>
    BY DEF blocks
<1>2. Freeing' = Freeing /\ \A c \in Freeing : block'[c] = block[c]
    BY QuietFacts DEF Freeing, Holding
<1>3. First' = First /\ Filling' = Filling
    BY ProducerStay
<1>4. Ring(o, u, B)' /\ Allocated(u, B)' /\ Placed(B)' /\ TailBlock(u, B)'
    BY <1>1, <1>2, ProducerStay DEF Main
<1>5. Holds'
    BY HoldsStay DEF Main
<1>6. Finds(o, B)'
    BY FindsStay DEF Main
<1>7. Counted(B)'
    <2>1. Counted(B) /\ emptied' \in [Blocks -> 0 .. BlockSize]
        BY <1>1 DEF Main, Counted
    <2> QED
        BY <1>1, <1>3, <2>1, CountedStay
<1>8. Contents(B)'
    BY <1>1, <1>3, ContentsStay DEF Main
<1> QED
    BY <1>4, <1>5, <1>6, <1>7, <1>8 DEF Main

(* The variables of another consumer *)
SameOne(d) ==
    /\ cpc'[d] = cpc[d] /\ expect'[d] = expect[d] /\ left'[d] = left[d]
    /\ part'[d] = part[d] /\ at'[d] = at[d] /\ header'[d] = header[d]
    /\ slot'[d] = slot[d] /\ block'[d] = block[d]

LEMMA SameFacts ==
    ASSUME NEW d, SameOne(d)
    PROVE  /\ Held(d)' = Held(d) /\ Unmoved(d)' = Unmoved(d) /\ Mine(d)' = Mine(d)
           /\ claimed \in Int /\ claimed' \in Int /\ claimed <= claimed' /\ HoldsOne(d)
                => HoldsOne(d)'
           /\ \A o, B : index' = index /\ key' = key /\ FindsOne(d, o, B)
                => FindsOne(d, o, B)'
<1>1. Held(d)' = Held(d) /\ Unmoved(d)' = Unmoved(d) /\ Mine(d)' = Mine(d)
    BY DEF SameOne, Held, Unmoved, Mine, Done
<1>2. ASSUME claimed \in Int, claimed' \in Int, claimed <= claimed', HoldsOne(d)
      PROVE  HoldsOne(d)'
    <2>1. PICK x \in Int : x = claimed
        BY <1>2
    <2>2. PICK y \in Int : y = claimed'
        BY <1>2
    <2>3. 0 .. (x - 1) \subseteq 0 .. (y - 1)
        <3>1. x <= y
            BY <1>2, <2>1, <2>2
        <3> QED
            BY <3>1
    <2>4. cpc[d] \in Holding => Held(d) \subseteq 0 .. (claimed' - 1)
        BY <1>2, <2>1, <2>2, <2>3 DEF HoldsOne
    <2>5. cpc[d] \in Moved => expect[d] <= claimed'
        <3>1. ASSUME cpc[d] \in Moved PROVE expect[d] <= y
            <4>1. PICK e \in Nat : e = expect[d]
                BY <1>2, <3>1 DEF HoldsOne, Moved, Holding
            <4>2. e <= x /\ x <= y
                BY <1>2, <2>1, <2>2, <3>1, <4>1 DEF HoldsOne, Moved, Holding
            <4> QED
                BY <4>1, <4>2
        <3> QED
            BY <2>2, <3>1
    <2> QED
        BY <1>1, <1>2, <2>4, <2>5 DEF HoldsOne, SameOne
<1>3. ASSUME NEW o, NEW B, index' = index, key' = key, FindsOne(d, o, B)
      PROVE  FindsOne(d, o, B)'
    BY <1>1, <1>3 DEF FindsOne, SameOne
<1> QED
    BY <1>1, <1>2, <1>3

LEMMA MainTake ==
    ASSUME NEW o, NEW u, NEW B, Main(o, u, B), ClaimsInv, Locals,
           NEW c \in Consumers, Take(c)
    PROVE  Main(o, u, B)'
<1>1. /\ cpc[c] = "take" /\ cpc'[c] = "index" /\ expect'[c] = claimed
      /\ left'[c] = left[c] /\ at'[c] = headIndex /\ claimed' = claimed + left[c]
      /\ \A d \in Consumers : d # c => SameOne(d)
      /\ UNCHANGED <<producer, enqueued, index, indexTail, key, value, content, emptied, pool>>
    BY DEF Take, Goto, Locals, SameOne, blocks, blockIndex
<1>2. /\ enqueued \in Nat /\ claimed \in Nat /\ headIndex = Wrap(claimed)
      /\ left[c] \in Nat \ {0} /\ claimed + left[c] <= enqueued
    BY <1>1, ClaimsGive
<1>3. PICK m \in Nat \ {0} : m = left[c]
    BY <1>2
<1>4. PICK x \in Nat : x = claimed
    BY <1>2
<1>5. claimed' = x + m /\ claimed' \in Int /\ x <= claimed' /\ x + m <= enqueued
    BY <1>1, <1>2, <1>3, <1>4
<1>6. /\ Held(c) = {} /\ Unmoved(c) = {}
      /\ Held(c)' = x .. (x + m - 1) /\ Unmoved(c)' = x .. (x + m - 1)
    BY <1>1, <1>3, <1>4 DEF Held, Unmoved, Holding, Done
<1>7. \A d \in Consumers : d # c => Held(d)' = Held(d) /\ Unmoved(d)' = Unmoved(d)
    BY <1>1, SameFacts
<1>8. ASSUME NEW k \in Int PROVE Open(k)' = Open(k)
    <2>1. ASSUME NEW n \in ElementsOf(k)
          PROVE  (n >= claimed' \/ \E d \in Consumers : n \in Held(d)')
                    <=> (n >= claimed \/ \E d \in Consumers : n \in Held(d))
        <3>1. n \in Int
            BY DEF ElementsOf
        <3>2. n >= x <=> n >= x + m \/ n \in x .. (x + m - 1)
            BY <3>1
        <3> QED
            BY <1>4, <1>5, <1>6, <1>7, <3>2
    <2> QED
        BY <2>1 DEF Open
<1>9. ASSUME NEW n \in Int PROVE Kept(n)' => Kept(n)
    <2>1. Filling' = Filling /\ enqueued' = enqueued /\ (Filling \in Nat \/ Filling = 0)
        BY <1>1 DEF Filling, producer, Locals
    <2>2. PICK y \in Int : y = enqueued + Filling
        BY <1>2, <2>1
    <2>3. x + m <= y
        BY <1>2, <1>5, <2>1, <2>2
    <2>4. x + m <= n /\ n < y => x <= n /\ n < y
        OBVIOUS
    <2>5. n \in x .. (x + m - 1) => x <= n /\ n < y
        BY <2>3
    <2> QED
        BY <1>4, <1>5, <1>6, <1>7, <2>1, <2>2, <2>4, <2>5 DEF Kept
<1>10. Freeing' = Freeing /\ \A d \in Freeing : block'[d] = block[d]
    BY <1>1 DEF Freeing, SameOne
<1>11. Ring(o, u, B)' /\ Allocated(u, B)' /\ Placed(B)' /\ TailBlock(u, B)'
    BY <1>1, <1>10, ProducerStay DEF Main
<1>12. Holds'
    <2>1. HoldsOne(c)'
        <3>1. x .. (x + m - 1) \subseteq 0 .. (x + m - 1)
            OBVIOUS
        <3> QED
            BY <1>1, <1>2, <1>3, <1>4, <1>5, <1>6, <3>1 DEF HoldsOne, Moved
    <2>2. ASSUME NEW d \in Consumers PROVE HoldsOne(d)'
        <3>1. CASE d = c
            BY <2>1, <3>1
        <3>2. CASE d # c
            BY <1>1, <1>4, <1>5, <3>2, SameFacts DEF Main, Holds
        <3> QED
            BY <3>1, <3>2
    <2>3. ASSUME NEW d \in Consumers PROVE Held(d) \intersect (x .. (x + m - 1)) = {}
        <3>1. Held(d) \subseteq 0 .. (x - 1)
            BY <1>4 DEF Main, Holds, HoldsOne, Held
        <3>2. (0 .. (x - 1)) \intersect (x .. (x + m - 1)) = {}
            OBVIOUS
        <3> QED
            BY <3>1, <3>2
    <2>4. \A d, e \in Consumers : d # e => Held(d) \intersect Held(e) = {}
        BY DEF Main, Holds
    <2>5. ASSUME NEW d \in Consumers, NEW e \in Consumers, d # e
          PROVE  Held(d)' \intersect Held(e)' = {}
        <3>1. CASE d # c /\ e # c
            BY <1>7, <2>4, <2>5, <3>1
        <3>2. CASE d = c
            BY <1>6, <1>7, <2>3, <2>5, <3>2
        <3>3. CASE e = c
            BY <1>6, <1>7, <2>3, <2>5, <3>3
        <3> QED
            BY <3>1, <3>2, <3>3
    <2> QED
        BY <2>2, <2>5 DEF Holds
<1>13. Finds(o, B)'
    <2>1. FindsOne(c, o, B)'
        BY <1>1 DEF FindsOne, Loaded, Moved
    <2>2. ASSUME NEW d \in Consumers, d # c PROVE FindsOne(d, o, B)'
        BY <1>1, <2>2, SameFacts DEF Main, Finds
    <2> QED
        BY <2>1, <2>2 DEF Finds
<1>14. Counted(B)'
    <2>1. First' = First /\ emptied' = emptied
        BY <1>1, ProducerStay
    <2>2. \A d \in Consumers : cpc'[d] \in {"empty", "null"} =>
            cpc[d] = cpc'[d] /\ block'[d] = block[d] /\ Mine(d)' = Mine(d)
        BY <1>1, SameFacts DEF SameOne
    <2>3. \A d \in Consumers : cpc[d] = "null" => cpc'[d] = "null" /\ Mine(d)' = Mine(d)
        BY <1>1, SameFacts DEF SameOne
    <2>4. ASSUME NEW k \in Int, 0 <= k, k < First' PROVE CountedOne(k, B)'
        BY <1>8, <2>1, <2>3, <2>4 DEF Main, Counted, CountedOne
    <2>5. ASSUME NEW d \in Consumers, cpc'[d] \in {"empty", "null"}
          PROVE  block'[d] = B[Mine(d)'] /\ block'[d] # Null
        BY <2>2, <2>5 DEF Main, Counted
    <2>6. ASSUME NEW d \in Consumers, cpc'[d] = "null"
          PROVE  /\ Open(Mine(d))' = {}
                 /\ \A e \in Consumers : cpc'[e] = "null" /\ Mine(e)' = Mine(d)' => e = d
        <3>1. cpc[d] = "null" /\ Mine(d)' = Mine(d)
            BY <2>2, <2>6
        <3>2. /\ Open(Mine(d)) = {}
              /\ \A e \in Consumers : cpc[e] = "null" /\ Mine(e) = Mine(d) => e = d
            BY <3>1 DEF Main, Counted
        <3>3. Mine(d) \in Int
            <4>1. expect[d] \in Int
                BY <3>1 DEF Main, Holds, HoldsOne, Holding
            <4>2. expect[d] - 1 \in Int
                BY <4>1
            <4> QED
                BY <4>2, BlockFacts DEF Mine
        <3> QED
            BY <1>8, <2>2, <3>1, <3>2, <3>3
    <2> QED
        BY <2>1, <2>4, <2>5, <2>6 DEF Main, Counted
<1>15. Contents(B)'
    BY <1>1, <1>9 DEF Main, Contents
<1> QED
    BY <1>11, <1>12, <1>13, <1>14, <1>15 DEF Main

(* A step that only looks for the block of an element *)
LEMMA MainLooks ==
    ASSUME NEW o, NEW u, NEW B, Main(o, u, B), NEW c \in Consumers,
           cpc[c] \in {"index", "tail", "key"}, cpc'[c] \in {"tail", "key", "move"},
           expect'[c] = expect[c], left'[c] = left[c], at'[c] = at[c],
           \A d \in Consumers : d # c => SameOne(d),
           UNCHANGED <<producer, enqueued, claimed, index, indexTail, key, value, blocks>>,
           claimed \in Nat, FindsOne(c, o, B)'
    PROVE  Main(o, u, B)'
<1>1. UNCHANGED <<content, emptied, pool>>
    BY DEF blocks
<1>2. ASSUME NEW d \in Consumers
      PROVE  Held(d)' = Held(d) /\ Unmoved(d)' = Unmoved(d)
    <2>1. CASE d = c
        BY <2>1 DEF Held, Unmoved, Done, Holding
    <2>2. CASE d # c
        BY <2>2, SameFacts
    <2> QED
        BY <2>1, <2>2
<1>3. ASSUME NEW k PROVE Open(k)' = Open(k)
    BY <1>2 DEF Open
<1>4. Freeing' = Freeing /\ \A d \in Freeing : block'[d] = block[d]
    <2>1. \A d \in Consumers : cpc'[d] = "free" <=> cpc[d] = "free"
        BY DEF SameOne
    <2>2. Freeing' = Freeing
        BY <2>1 DEF Freeing
    <2>3. \A d \in Freeing : d # c /\ d \in Consumers
        BY DEF Freeing
    <2> QED
        BY <2>2, <2>3 DEF SameOne
<1>5. First' = First /\ Filling' = Filling /\ enqueued' = enqueued
    BY ProducerStay
<1>6. Ring(o, u, B)' /\ Allocated(u, B)' /\ Placed(B)' /\ TailBlock(u, B)'
    BY <1>1, <1>4, ProducerStay DEF Main
<1>7. Holds'
    <2>1. ASSUME NEW d \in Consumers PROVE HoldsOne(d)'
        <3>1. CASE d = c
            <4>1. HoldsOne(c)
                BY DEF Main, Holds
            <4> QED
                BY <1>2, <3>1, <4>1 DEF HoldsOne, Holding, Moved
        <3>2. CASE d # c
            <4>1. claimed <= claimed' /\ claimed \in Int /\ claimed' \in Int
                OBVIOUS
            <4> QED
                BY <3>2, <4>1, SameFacts DEF Main, Holds
        <3> QED
            BY <3>1, <3>2
    <2> QED
        BY <1>2, <2>1 DEF Main, Holds
<1>8. Finds(o, B)'
    <2>1. ASSUME NEW d \in Consumers, d # c PROVE FindsOne(d, o, B)'
        BY <2>1, SameFacts DEF Main, Finds
    <2> QED
        BY <2>1 DEF Finds
<1>9. Counted(B)'
    <2>1. ASSUME NEW d \in Consumers
          PROVE  /\ cpc'[d] = "empty" <=> cpc[d] = "empty"
                 /\ cpc'[d] = "null" <=> cpc[d] = "null"
                 /\ cpc[d] \in {"empty", "null"} =>
                        block'[d] = block[d] /\ Mine(d)' = Mine(d)
        <3>1. CASE d = c
            BY <3>1
        <3>2. CASE d # c
            BY <3>2, SameFacts DEF SameOne
        <3> QED
            BY <3>1, <3>2
    <2>2. ASSUME NEW k \in Int, 0 <= k, k < First' PROVE CountedOne(k, B)'
        <3>1. CountedOne(k, B)
            BY <1>5, <2>2 DEF Main, Counted
        <3>2. (\E d \in Consumers : cpc[d] = "null" /\ Mine(d) = k)
                => \E d \in Consumers : cpc'[d] = "null" /\ Mine(d)' = k
            BY <2>1
        <3> QED
            BY <1>1, <1>3, <3>1, <3>2 DEF CountedOne
    <2>3. ASSUME NEW d \in Consumers, cpc'[d] = "null"
          PROVE  /\ Open(Mine(d))' = {}
                 /\ \A e \in Consumers : cpc'[e] = "null" /\ Mine(e)' = Mine(d)' => e = d
        <3>1. cpc[d] = "null" /\ Mine(d)' = Mine(d)
            BY <2>1, <2>3
        <3>2. /\ Open(Mine(d)) = {}
              /\ \A e \in Consumers : cpc[e] = "null" /\ Mine(e) = Mine(d) => e = d
            BY <3>1 DEF Main, Counted
        <3> QED
            BY <1>3, <2>1, <3>1, <3>2
    <2>4. ASSUME NEW d \in Consumers, cpc'[d] \in {"empty", "null"}
          PROVE  block'[d] = B[Mine(d)'] /\ block'[d] # Null
        BY <2>1, <2>4 DEF Main, Counted
    <2> QED
        BY <1>1, <2>2, <2>3, <2>4 DEF Main, Counted
<1>10. Contents(B)'
    <2>1. \A n \in Int : Kept(n)' => Kept(n)
        BY <1>2, <1>5 DEF Kept
    <2> QED
        BY <1>1, <2>1 DEF Main, Contents
<1> QED
    BY <1>6, <1>7, <1>8, <1>9, <1>10 DEF Main

LEMMA HoldsFirst ==
    ASSUME ClaimsInv, NEW o, NEW u, NEW B, Main(o, u, B), NEW c \in Consumers,
           cpc[c] \in {"index", "tail", "key", "move"}
    PROVE  /\ expect[c] \in Nat /\ left[c] \in Nat \ {0} /\ at[c] = Wrap(expect[c])
           /\ expect[c] \in Held(c) /\ expect[c] \in Unmoved(c)
           /\ Block(expect[c]) \in Nat /\ Block(expect[c]) < First
           /\ B[Block(expect[c])] # Null
<1>1. HoldsOne(c) /\ cpc[c] \in Holding /\ cpc[c] # "empty"
    BY DEF Main, Holds, Holding
<1>2. expect[c] \in Nat /\ left[c] \in Nat \ {0} /\ at[c] = Wrap(expect[c])
    BY <1>1 DEF HoldsOne
<1>3. expect[c] \in expect[c] .. (expect[c] + left[c] - 1)
    BY <1>2
<1>4. expect[c] \in Held(c) /\ expect[c] \in Unmoved(c)
    BY <1>1, <1>3 DEF Held, Unmoved, Done
<1> QED
    BY <1>2, <1>4, HeldFacts, HeldIsLive DEF Main

LEMMA MainLoad ==
    ASSUME NEW o, NEW u, NEW B, Main(o, u, B), ClaimsInv, Phase, Locals,
           NEW c \in Consumers, LoadIndex(c) \/ LoadTail(c) \/ LoadKey(c)
    PROVE  Main(o, u, B)'
<1>1. /\ cpc[c] \in {"index", "tail", "key"} /\ cpc'[c] \in {"tail", "key", "move"}
      /\ expect'[c] = expect[c] /\ left'[c] = left[c] /\ at'[c] = at[c]
      /\ \A d \in Consumers : d # c => SameOne(d)
      /\ UNCHANGED <<producer, enqueued, claimed, index, indexTail, key, value, blocks>>
    BY DEF LoadIndex, LoadTail, LoadKey, Goto, Locals, SameOne, blockIndex
<1>2. claimed \in Nat
    BY ClaimsGive
<1>3. /\ FindsOne(c, o, B) /\ HoldsOne(c) /\ Shape(index, o) /\ Tails(o) /\ Keys(index, o)
      /\ Live(index, o, u, B) /\ Top(o, u)
    BY DEF Main, Finds, Holds, Ring
<1>4. /\ expect[c] \in Nat /\ left[c] \in Nat \ {0} /\ at[c] = Wrap(expect[c])
      /\ Block(expect[c]) \in Nat /\ Block(expect[c]) < First
      /\ B[Block(expect[c])] # Null
    BY <1>1, HoldsFirst
<1>5. FindsOne(c, o, B)'
    <2>1. CASE LoadIndex(c)
        <3>1. cpc'[c] = "tail" /\ header'[c] = Len(index)
            BY <2>1 DEF LoadIndex, Goto, Locals, Current
        <3>2. Len(index) \in 1 .. Len(index)
            BY <1>3, ShapeFacts DEF Shape
        <3>3. \A k \in Int : Entry(index, o, Len(index), k) = Here(index, o, k)
            BY DEF Here
        <3> QED
            BY <1>1, <3>1, <3>2, <3>3 DEF FindsOne, Moved
    <2>2. CASE LoadTail(c)
        <3> DEFINE h == header[c]
        <3>1. /\ cpc[c] = "tail" /\ cpc'[c] = "key" /\ slot'[c] = indexTail[h]
              /\ header'[c] = h
            BY <2>2 DEF LoadTail, Goto, Locals
        <3>2. h \in 1 .. Len(index)
            BY <1>3, <3>1 DEF FindsOne, Loaded
        <3>3. indexTail[h] \in 0 .. (Cap(h) - 1) /\ key[index[h][indexTail[h]]] # InvalidBase
            <4>1. CASE h \in 1 .. (Len(index) - 1)
                BY <1>3, <4>1 DEF Tails
            <4>2. CASE h = Len(index)
                <5>1. Last \in Int /\ First - 1 <= Last /\ Last <= u /\ u \in Int
                    <6>1. First \in Nat /\ Len(allocated) \in Nat
                        BY NumberFacts
                    <6> QED
                        BY <1>3, <6>1 DEF Last, Top, Live
                <5>2. Last \in Block(expect[c]) .. u
                    <6>1. First \in Nat
                        BY NumberFacts
                    <6> QED
                        BY <1>4, <5>1, <6>1
                <5>3. key[Here(index, o, Last)] = KeyOf(Last)
                    BY <1>3, <1>4, <5>2 DEF Live
                <5>4. indexTail[h] = Slot(o, Len(index), Last)
                    BY <1>3, <4>2 DEF Tails
                <5>5. h \in 1 .. MaxIndexes /\ o \in [1 .. MaxIndexes -> Int]
                    BY <1>3, <3>2, ShapeFacts DEF Shape
                <5>6. indexTail[h] \in 0 .. (Cap(h) - 1)
                    BY <4>2, <5>1, <5>4, <5>5, SlotFacts
                <5> QED
                    BY <4>2, <5>1, <5>3, <5>4, <5>6, KeyFacts DEF Here, Entry
            <4> QED
                BY <1>3, <3>2, <4>1, <4>2, ShapeFacts
        <3> QED
            BY <1>1, <1>3, <3>1, <3>3 DEF FindsOne, Loaded, Moved
    <2>3. CASE LoadKey(c)
        <3> DEFINE h == header[c]
                   s == slot[c]
        <3>1. /\ cpc[c] = "key" /\ cpc'[c] = "move" /\ slot'[c] = SlotOf(h, s, at[c])
              /\ header'[c] = h
            BY <2>3 DEF LoadKey, Goto, Locals
        <3>2. /\ h \in 1 .. Len(index) /\ s \in 0 .. (Cap(h) - 1)
              /\ key[index[h][s]] # InvalidBase
            BY <1>3, <3>1 DEF FindsOne, Loaded
        <3>3. PICK k \in Int : key[index[h][s]] = KeyOf(k) /\ Slot(o, h, k) = s
            BY <1>3, <3>2 DEF Keys
        <3>4. h \in 1 .. MaxIndexes /\ o \in [1 .. MaxIndexes -> Int] /\ Capacity(h) = Cap(h)
            BY <1>3, <3>2, ShapeFacts DEF Shape, Capacity
        <3>5. SlotOf(h, s, at[c]) = Slot(o, h, Block(expect[c]))
            <4>1. (Slot(o, h, k) + Wrap(Base(Wrap(expect[c])) - Wrap(k * BlockSize))
                        \div BlockSize) % Cap(h) = Slot(o, h, Block(expect[c]))
                BY <1>4, <3>4, SlotIsFound
            <4> QED
                BY <1>4, <3>3, <3>4, <4>1 DEF SlotOf, KeyOf
        <3> QED
            BY <1>1, <1>3, <3>1, <3>5 DEF FindsOne, Loaded, Moved
    <2> QED
        BY <2>1, <2>2, <2>3
<1> QED
    BY <1>1, <1>2, <1>5, MainLooks

LEMMA SamePlace ==
    ASSUME NEW j \in Int, NEW m \in Int, Block(j) = Block(m), j % BlockSize = m % BlockSize
    PROVE  j = m
<1>1. /\ j = Block(j) * BlockSize + (j % BlockSize)
      /\ m = Block(m) * BlockSize + (m % BlockSize)
    BY BlockFacts
<1> QED
    BY <1>1

LEMMA WrapPlace ==
    ASSUME NEW e \in Int, NEW i \in Int
    PROVE  (Wrap(e) + i) % BlockSize = (e + i) % BlockSize
<1> DEFINE v == Wrap(e) + i
           w == e + i
<1>1. v \in Int /\ w \in Int /\ Wrap(v) = Wrap(w)
    <2>1. Wrap(e) \in Int
        BY WrapFacts
    <2>2. Wrap(Wrap(e) + i) = Wrap(e + i)
        BY WrapOfWraps
    <2> QED
        BY <2>1, <2>2
<1> HIDE DEF v, w
<1>2. v % BlockSize = w % BlockSize
    BY <1>1, WrapOfIndex
<1> QED
    BY <1>2 DEF v, w

(* The part of a claim that is in the block of its first element *)
LEMMA PartFacts ==
    ASSUME NEW e \in Nat, NEW l \in Nat \ {0}, NEW n,
           n = Minimum(l, BlockSize - (e % BlockSize))
    PROVE  /\ n \in 1 .. BlockSize /\ n <= l
           /\ n < l => (e + n) % BlockSize = 0
           /\ Block(e) * BlockSize <= e /\ Block(e) \in Int
           /\ \A i \in 0 .. (n - 1) :
                Block(e + i) = Block(e) /\ (e + i) % BlockSize = (e % BlockSize) + i
<1>1. BlockSize \in Nat \ {0, 1} /\ e \in Int
    BY Sizes
<1>2. /\ Block(e) \in Int /\ e % BlockSize \in 0 .. (BlockSize - 1)
      /\ e = Block(e) * BlockSize + (e % BlockSize)
    BY BlockFacts
<1>3. PICK r \in 0 .. (BlockSize - 1) : r = e % BlockSize
    BY <1>2
<1>4. PICK k \in Int : k = Block(e)
    BY <1>2
<1>5. PICK K \in Int : K = k * BlockSize
    BY <1>1
<1>6. e = K + r /\ (k + 1) * BlockSize = K + BlockSize /\ r \in Int
    BY <1>1, <1>2, <1>3, <1>4, <1>5
<1>7. n = IF l < BlockSize - r THEN l ELSE BlockSize - r
    BY <1>3 DEF Minimum
<1>8. n \in 1 .. BlockSize /\ n <= l
    BY <1>1, <1>3, <1>7
<1>9. ASSUME n < l PROVE (e + n) % BlockSize = 0
    <2>1. e + n = (k + 1) * BlockSize /\ e + n \in Int /\ k + 1 \in Int
        BY <1>1, <1>3, <1>6, <1>7, <1>9
    <2>2. PICK m \in Int : m = e + n
        BY <2>1
    <2>3. Divided(m, BlockSize, k + 1, 0) /\ 0 \in 0 .. (BlockSize - 1)
        BY <1>1, <2>1, <2>2 DEF Divided
    <2>4. Mod(m, BlockSize) = 0
        BY <1>1, <2>1, <2>2, <2>3, DivisionIs
    <2> QED
        BY <2>2, <2>4 DEF Mod
<1>10. ASSUME NEW i \in 0 .. (n - 1)
       PROVE  Block(e + i) = k /\ (e + i) % BlockSize = r + i
    <2>1. PICK m \in Int : m = e + i
        BY <1>1
    <2>2. /\ K <= m /\ m < K + BlockSize /\ r + i \in 0 .. (BlockSize - 1)
          /\ m = K + (r + i)
        BY <1>1, <1>3, <1>6, <1>7, <1>8, <2>1
    <2>3. Block(m) = k
        BY <1>5, <2>2, BlockIs
    <2>4. m = Block(m) * BlockSize + (m % BlockSize) /\ m % BlockSize \in Int
        BY BlockFacts
    <2>5. m % BlockSize = r + i
        BY <1>5, <2>2, <2>3, <2>4
    <2> QED
        BY <2>1, <2>3, <2>5
<1>11. K <= e
    BY <1>1, <1>6
<1> QED
    BY <1>3, <1>4, <1>5, <1>8, <1>9, <1>10, <1>11

LEMMA UnmovedIsHeld ==
    ASSUME NEW c, HoldsOne(c)
    PROVE  Unmoved(c) \subseteq Held(c)
<1>1. CASE cpc[c] = "empty"
    <2>1. /\ expect[c] \in Nat /\ left[c] \in Nat /\ part[c] \in 1 .. BlockSize
          /\ BlockSize \in Nat
        BY <1>1, Sizes DEF HoldsOne, Holding
    <2>2. PICK e \in Nat : e = expect[c]
        BY <2>1
    <2>3. PICK l \in Nat : l = left[c]
        BY <2>1
    <2>4. PICK p \in 1 .. BlockSize : p = part[c]
        BY <2>1
    <2>5. e .. (e + l - 1) \subseteq (e - p) .. (e + l - 1)
        BY <2>1
    <2> QED
        BY <1>1, <2>2, <2>3, <2>4, <2>5 DEF Unmoved, Held, Done, Holding
<1>2. CASE cpc[c] # "empty"
    BY <1>2 DEF Unmoved, Held, Done
<1> QED
    BY <1>1, <1>2

(* An element that is still in its block is one of those not yet taken off it. *)
LEMMA KeptIsOpen ==
    ASSUME NEW B, Holds, NEW n \in Int, Kept(n)
    PROVE  Block(n) \in Int /\ n \in Open(Block(n))
<1>1. Block(n) \in Int
    BY BlockFacts
<1>2. n \in ElementsOf(Block(n))
    BY <1>1, ElementsFacts
<1>3. claimed <= n \/ \E d \in Consumers : n \in Held(d)
    BY UnmovedIsHeld DEF Kept, Holds
<1> QED
    BY <1>1, <1>2, <1>3 DEF Open

LEMMA MainMove ==
    ASSUME NEW o, NEW u, NEW B, Main(o, u, B), ClaimsInv, Locals,
           NEW c \in Consumers, Move(c)
    PROVE  Main(o, u, B)'
<1>1. /\ cpc[c] = "move" /\ cpc'[c] = "empty"
      /\ part'[c] = PartOf(c) /\ left'[c] = left[c] - PartOf(c)
      /\ at'[c] = Wrap(at[c] + PartOf(c)) /\ expect'[c] = expect[c] + PartOf(c)
      /\ block'[c] = value[EntryOf(c)] /\ header'[c] = header[c] /\ slot'[c] = slot[c]
      /\ content' = [content EXCEPT ![value[EntryOf(c)]] =
            [i \in Places |-> IF i \in PlacesOf(c) THEN 0
                              ELSE content[value[EntryOf(c)]][i]]]
      /\ \A d \in Consumers : d # c => SameOne(d)
      /\ UNCHANGED <<producer, enqueued, claimed, index, indexTail, key, value, emptied, pool>>
    BY DEF Move, Goto, Locals, SameOne, blockIndex
<1>2. claimed \in Nat
    BY ClaimsGive
<1>3. /\ expect[c] \in Nat /\ left[c] \in Nat \ {0} /\ at[c] = Wrap(expect[c])
      /\ Block(expect[c]) \in Nat /\ Block(expect[c]) < First
      /\ B[Block(expect[c])] # Null
    BY <1>1, HoldsFirst
<1>4. /\ FindsOne(c, o, B) /\ HoldsOne(c) /\ Live(index, o, u, B)
      /\ Holds /\ Placed(B) /\ Contents(B) /\ Counted(B)
    BY DEF Main, Finds, Holds, Ring
<1>5. PICK e \in Nat : e = expect[c]
    BY <1>3
<1>6. PICK l \in Nat \ {0} : l = left[c]
    BY <1>3
<1>7. PICK n : n = PartOf(c)
    OBVIOUS
<1>8. PICK k \in Nat : k = Block(e)
    BY <1>3, <1>5
<1>9. n = Minimum(l, BlockSize - (e % BlockSize))
    BY <1>3, <1>5, <1>6, <1>7, WrapOfIndex DEF PartOf
<1>10. /\ n \in 1 .. BlockSize /\ n <= l /\ BlockSize \in Nat
       /\ n < l => (e + n) % BlockSize = 0
       /\ k * BlockSize <= e /\ k * BlockSize \in Int
       /\ \A i \in 0 .. (n - 1) :
            Block(e + i) = k /\ (e + i) % BlockSize = (e % BlockSize) + i
    <2>1. BlockSize \in Nat
        BY Sizes
    <2>2. k * BlockSize \in Int
        BY <2>1
    <2>3. /\ n \in 1 .. BlockSize /\ n <= l
          /\ n < l => (e + n) % BlockSize = 0
          /\ Block(e) * BlockSize <= e
          /\ \A i \in 0 .. (n - 1) :
                Block(e + i) = Block(e) /\ (e + i) % BlockSize = (e % BlockSize) + i
        BY <1>9, PartFacts
    <2> QED
        BY <1>8, <2>1, <2>2, <2>3
<1>11. value[EntryOf(c)] = B[k] /\ B[k] # Null /\ slot[c] = Slot(o, header[c], k)
    <2>1. slot[c] = Slot(o, header[c], k)
        BY <1>1, <1>4, <1>5, <1>8 DEF FindsOne
    <2>2. k * BlockSize < e + l
        BY <1>10
    <2>3. Entry(index, o, header[c], k) = Here(index, o, k)
        BY <1>1, <1>3, <1>4, <1>5, <1>6, <1>8, <2>2 DEF FindsOne, Loaded
    <2> QED
        BY <1>3, <1>4, <1>5, <1>8, <2>1, <2>3 DEF Live, EntryOf, Entry
<1>12. /\ Held(c) = e .. (e + l - 1) /\ Unmoved(c) = e .. (e + l - 1)
       /\ Held(c)' = e .. (e + l - 1) /\ Unmoved(c)' = (e + n) .. (e + l - 1)
       /\ left'[c] = l - n /\ expect'[c] = e + n /\ part'[c] = n
    <2>1. left'[c] = l - n /\ expect'[c] = e + n /\ part'[c] = n
        BY <1>1, <1>5, <1>6, <1>7
    <2>2. (e + n) - n = e /\ (e + n) + (l - n) - 1 = e + l - 1
        BY <1>10
    <2> QED
        BY <1>1, <1>5, <1>6, <2>1, <2>2 DEF Held, Unmoved, Done, Holding
<1>13. \A d \in Consumers : d # c => Held(d)' = Held(d) /\ Unmoved(d)' = Unmoved(d)
    BY <1>1, SameFacts
<1>14. \A d \in Consumers : Held(d)' = Held(d)
    BY <1>12, <1>13
<1>15. \A j : Open(j)' = Open(j)
    BY <1>1, <1>14 DEF Open
<1>16. Mine(c)' = k
    <2>1. Mine(c)' = Block((e + n) - 1)
        BY <1>12 DEF Mine
    <2>2. (e + n) - 1 = e + (n - 1) /\ n - 1 \in 0 .. (n - 1)
        BY <1>10
    <2> QED
        BY <1>10, <2>1, <2>2
<1>17. Freeing' = Freeing /\ \A d \in Freeing : block'[d] = block[d]
    BY <1>1 DEF Freeing, SameOne
<1>18. First' = First /\ Filling' = Filling
    BY <1>1, ProducerStay
<1>19. Ring(o, u, B)' /\ Allocated(u, B)' /\ Placed(B)' /\ TailBlock(u, B)'
    BY <1>1, <1>17, ProducerStay DEF Main
<1>20. Holds'
    <2>1. HoldsOne(c)'
        <3>1. at'[c] = Wrap(e + n)
            <4>1. e \in Int /\ n \in Int
                BY <1>10
            <4> QED
                BY <1>1, <1>3, <1>5, <1>7, <4>1, WrapOfWraps
        <3>2. e + n \in Nat /\ l - n \in Nat /\ e + n > 0
            BY <1>10
        <3>3. l - n > 0 => (e + n) % BlockSize = 0
            BY <1>10
        <3>4. k * BlockSize <= (e + n) - n
            BY <1>10
        <3>5. Held(c)' \subseteq 0 .. (claimed - 1)
            BY <1>1, <1>4, <1>14 DEF HoldsOne, Holding
        <3>6. e + n <= claimed
            <4>1. e + l - 1 \in Held(c)
                BY <1>12
            <4>2. e + l - 1 \in 0 .. (claimed - 1)
                BY <1>1, <1>4, <4>1 DEF HoldsOne, Holding
            <4>3. e + l <= claimed
                BY <1>2, <4>2
            <4> QED
                BY <1>2, <1>10, <4>3
        <3> QED
            BY <1>1, <1>10, <1>12, <1>16, <3>1, <3>2, <3>3, <3>4, <3>5, <3>6
            DEF HoldsOne, Moved
    <2>2. ASSUME NEW d \in Consumers, d # c PROVE HoldsOne(d)'
        <3>1. claimed <= claimed' /\ claimed \in Int /\ claimed' \in Int
            BY <1>1, <1>2
        <3> QED
            BY <1>1, <1>4, <2>2, <3>1, SameFacts DEF Holds
    <2> QED
        BY <1>4, <1>14, <2>1, <2>2 DEF Holds
<1>21. Finds(o, B)'
    <2>1. FindsOne(c, o, B)'
        <3>1. expect'[c] + left'[c] = expect[c] + left[c]
            BY <1>5, <1>6, <1>10, <1>12
        <3> QED
            BY <1>1, <1>4, <1>11, <1>16, <3>1 DEF FindsOne, Loaded, Moved
    <2>2. ASSUME NEW d \in Consumers, d # c PROVE FindsOne(d, o, B)'
        BY <1>1, <2>2, SameFacts DEF Main, Finds
    <2> QED
        BY <2>1, <2>2 DEF Finds
<1>22. Counted(B)'
    <2>1. ASSUME NEW d \in Consumers, d # c
          PROVE  cpc'[d] = cpc[d] /\ block'[d] = block[d] /\ Mine(d)' = Mine(d)
        BY <1>1, <2>1, SameFacts DEF SameOne
    <2>2. ASSUME NEW j \in Int, 0 <= j, j < First' PROVE CountedOne(j, B)'
        <3>1. CountedOne(j, B)
            BY <1>4, <1>18, <2>2 DEF Counted
        <3>2. (\E d \in Consumers : cpc[d] = "null" /\ Mine(d) = j)
                => \E d \in Consumers : cpc'[d] = "null" /\ Mine(d)' = j
            BY <1>1, <2>1
        <3> QED
            BY <1>1, <1>15, <3>1, <3>2 DEF CountedOne
    <2>3. ASSUME NEW d \in Consumers, cpc'[d] \in {"empty", "null"}
          PROVE  block'[d] = B[Mine(d)'] /\ block'[d] # Null
        <3>1. CASE d = c
            BY <1>1, <1>11, <1>16, <3>1
        <3>2. CASE d # c
            BY <1>4, <2>1, <2>3, <3>2 DEF Counted
        <3> QED
            BY <3>1, <3>2
    <2>4. ASSUME NEW d \in Consumers, cpc'[d] = "null"
          PROVE  /\ Open(Mine(d))' = {}
                 /\ \A f \in Consumers : cpc'[f] = "null" /\ Mine(f)' = Mine(d)' => f = d
        <3>1. d # c /\ cpc[d] = "null" /\ Mine(d)' = Mine(d)
            BY <1>1, <2>1, <2>4
        <3>2. /\ Open(Mine(d)) = {}
              /\ \A f \in Consumers : cpc[f] = "null" /\ Mine(f) = Mine(d) => f = d
            BY <1>4, <3>1 DEF Counted
        <3> QED
            BY <1>1, <1>15, <2>1, <3>1, <3>2
    <2> QED
        BY <1>1, <1>4, <2>2, <2>3, <2>4 DEF Counted
<1>23. Contents(B)'
    <2> DEFINE b == B[k]
               f == [i \in Places |-> IF i \in PlacesOf(c) THEN 0 ELSE content[b][i]]
    <2>1. b \in Blocks /\ content \in [Blocks -> [Places -> Nat]]
          /\ content' = [content EXCEPT ![b] = f]
        BY <1>1, <1>4, <1>11 DEF Live, Contents
    <2>2. f \in [Places -> Nat]
        BY <2>1
    <2>3. content' \in [Blocks -> [Places -> Nat]]
        <3> HIDE DEF b, f
        <3> QED
            BY <2>1, <2>2
    <2>4. ASSUME NEW m \in Int, Kept(m)'
          PROVE  /\ B[Block(m)] # Null
                 /\ content'[B[Block(m)]][m % BlockSize] = m + 1
        <3>1. Kept(m) /\ m \notin e .. (e + n - 1)
            <4>1. CASE claimed <= m /\ m < enqueued + Filling
                <5>1. Held(c) \subseteq 0 .. (claimed - 1)
                    BY <1>1, <1>4 DEF HoldsOne, Holding
                <5>2. m \notin Held(c)
                    BY <1>2, <4>1, <5>1
                <5>3. e .. (e + n - 1) \subseteq e .. (e + l - 1)
                    BY <1>10
                <5> QED
                    BY <1>12, <4>1, <5>2, <5>3 DEF Kept
            <4>2. ASSUME NEW d \in Consumers, m \in Unmoved(d)', d # c
                  PROVE  Kept(m) /\ m \notin e .. (e + n - 1)
                <5>1. m \in Unmoved(d) /\ m \in Held(d)
                    BY <1>4, <1>13, <4>2, UnmovedIsHeld DEF Holds
                <5>2. m \notin Held(c)
                    BY <1>4, <4>2, <5>1 DEF Holds
                <5>3. e .. (e + n - 1) \subseteq e .. (e + l - 1)
                    BY <1>10
                <5> QED
                    BY <1>12, <5>1, <5>2, <5>3 DEF Kept
            <4>3. CASE m \in Unmoved(c)'
                <5>1. m \in (e + n) .. (e + l - 1)
                    BY <1>12, <4>3
                <5>2. m \in e .. (e + l - 1) /\ m \notin e .. (e + n - 1)
                    BY <1>10, <5>1
                <5> QED
                    BY <1>12, <5>2 DEF Kept
            <4> QED
                BY <1>1, <1>18, <2>4, <4>1, <4>2, <4>3 DEF Kept
        <3>2. /\ B[Block(m)] # Null /\ content[B[Block(m)]][m % BlockSize] = m + 1
              /\ Block(m) \in Int /\ m % BlockSize \in Places
            BY <1>4, <3>1, BlockFacts DEF Contents, Places
        <3>3. B[Block(m)] \in Blocks
            BY <1>4, <3>2 DEF Live
        <3>4. CASE B[Block(m)] # b
            <4>1. content'[B[Block(m)]] = content[B[Block(m)]]
                <5> HIDE DEF b, f
                <5> QED
                    BY <2>1, <3>3, <3>4
            <4> QED
                BY <3>2, <4>1
        <3>5. CASE B[Block(m)] = b
            <4>1. Block(m) = k
                BY <1>4, <1>11, <3>2, <3>5 DEF Placed
            <4>2. m % BlockSize \notin PlacesOf(c)
                <5>1. ASSUME NEW i \in 0 .. (n - 1), m % BlockSize = (at[c] + i) % BlockSize
                      PROVE  FALSE
                    <6>1. i \in Int /\ (Wrap(e) + i) % BlockSize = (e + i) % BlockSize
                        BY <1>10, WrapPlace
                    <6>2. m % BlockSize = (e + i) % BlockSize /\ Block(m) = Block(e + i)
                        BY <1>3, <1>5, <1>10, <4>1, <5>1, <6>1
                    <6>3. PICK j \in Int : j = e + i
                        BY <6>1
                    <6>4. m = j
                        BY <6>2, <6>3, SamePlace
                    <6>5. m \in e .. (e + n - 1)
                        BY <1>10, <6>3, <6>4
                    <6> QED
                        BY <3>1, <6>5
                <5> QED
                    BY <1>7, <5>1 DEF PlacesOf
            <4>3. content'[b] = f
                <5> HIDE DEF b, f
                <5> QED
                    BY <2>1
            <4>4. f[m % BlockSize] = content[b][m % BlockSize]
                BY <3>2, <4>2
            <4> QED
                <5> HIDE DEF b, f
                <5> QED
                    BY <3>2, <3>5, <4>3, <4>4
        <3> QED
            BY <3>4, <3>5
    <2> QED
        BY <2>3, <2>4 DEF Contents
<1> QED
    BY <1>19, <1>20, <1>21, <1>22, <1>23 DEF Main

LEMMA RangeSize ==
    ASSUME NEW m \in Int, NEW n \in Int, m <= n
    PROVE  IsFiniteSet(m .. (n - 1)) /\ Cardinality(m .. (n - 1)) = n - m
<1>1. n - 1 \in Int
    OBVIOUS
<1>2. /\ IsFiniteSet(m .. (n - 1))
      /\ Cardinality(m .. (n - 1)) = IF m > n - 1 THEN 0 ELSE (n - 1) - m + 1
    BY <1>1, FS_Interval
<1> QED
    BY <1>2

LEMMA OpenFacts ==
    ASSUME NEW k \in Int
    PROVE  /\ IsFiniteSet(Open(k)) /\ Cardinality(Open(k)) \in 0 .. BlockSize
           /\ Cardinality(Open(k)) = 0 <=> Open(k) = {}
           /\ Open(k) = ElementsOf(k) <=> Cardinality(Open(k)) = BlockSize
           /\ Open(k) \subseteq ElementsOf(k) /\ Open(k) \subseteq Int
<1>1. BlockSize \in Nat \ {0, 1}
    BY Sizes
<1>2. PICK x \in Int : x = k * BlockSize
    BY <1>1
<1>3. ElementsOf(k) = x .. ((x + BlockSize) - 1)
    BY <1>1, <1>2 DEF ElementsOf
<1>4. IsFiniteSet(ElementsOf(k)) /\ Cardinality(ElementsOf(k)) = BlockSize
    <2>1. x + BlockSize \in Int /\ x <= x + BlockSize /\ (x + BlockSize) - x = BlockSize
        BY <1>1
    <2>2. /\ IsFiniteSet(x .. ((x + BlockSize) - 1))
          /\ Cardinality(x .. ((x + BlockSize) - 1)) = (x + BlockSize) - x
        BY <2>1, RangeSize
    <2> QED
        BY <1>3, <2>1, <2>2
<1>5. Open(k) \subseteq ElementsOf(k) /\ ElementsOf(k) \subseteq Int
    BY <1>3 DEF Open
<1>6. /\ IsFiniteSet(Open(k)) /\ Cardinality(Open(k)) <= BlockSize
      /\ Cardinality(ElementsOf(k)) = Cardinality(Open(k)) => ElementsOf(k) = Open(k)
    BY <1>4, <1>5, FS_Subset
<1>7. Cardinality(Open(k)) \in Nat
    BY <1>6, FS_CardinalityType
<1>8. Cardinality(Open(k)) = 0 <=> Open(k) = {}
    BY <1>6, FS_EmptySet
<1> QED
    BY <1>1, <1>4, <1>5, <1>6, <1>7, <1>8

LEMMA NumberIs ==
    ASSUME Phase, ClaimsInv, NEW o, NEW u \in Int, Top(o, u),
           NEW i \in 1 .. Len(allocated)
    PROVE  Number(u, i) \in Int /\ First <= Number(u, i) /\ Number(u, i) <= u
<1>1. First \in Nat /\ Len(allocated) \in Nat
    BY NumberFacts
<1>2. u >= First - 1 + Len(allocated) + (IF ppc = "block" THEN 1 ELSE 0)
    BY DEF Top, Last
<1> QED
    BY <1>1, <1>2 DEF Number

(* The blocks that the producer is about to publish are not those in which
   elements are. *)
LEMMA NewBlocksApart ==
    ASSUME Phase, ClaimsInv, NEW o, NEW u, NEW B, Main(o, u, B),
           NEW k \in Int, k < First, B[k] # Null,
           NEW i \in 1 .. Len(allocated)
    PROVE  allocated[i].block # B[k] /\ Number(u, i) # k
<1>1. u \in Int /\ Top(o, u) /\ Allocated(u, B) /\ Placed(B)
    BY DEF Main, Ring, Live
<1>2. Number(u, i) \in Int /\ First <= Number(u, i) /\ First \in Int
    BY <1>1, NumberIs, NumberFacts
<1>3. Number(u, i) # k
    BY <1>2
<1>4. CASE i \notin Unlinked
    BY <1>1, <1>2, <1>3, <1>4 DEF Allocated, Placed
<1>5. CASE i \in Unlinked
    <2>1. ppc = "link" /\ i = Len(allocated)
        BY <1>5 DEF Unlinked
    <2>2. B[k] # Newest
        BY <1>1, <2>1 DEF Placed
    <2> QED
        BY <1>3, <2>1, <2>2 DEF Newest
<1> QED
    BY <1>3, <1>4, <1>5

(* To the next block, or out of the call *)
LEMMA NextBlockFacts ==
    ASSUME NEW o, NEW B, NEW c \in Consumers, Shape(index, o), HoldsOne(c),
           FindsOne(c, o, B), cpc[c] \in Moved, NextBlock(c), Locals,
           UNCHANGED <<index, key, claimed>>
    PROVE  /\ cpc'[c] \in {"idle", "move"}
           /\ \A d \in Consumers : d # c => SameOne(d)
           /\ Held(c)' = Unmoved(c) /\ Unmoved(c)' = Unmoved(c)
           /\ HoldsOne(c)' /\ FindsOne(c, o, B)'
<1> DEFINE e == expect[c]
           l == left[c]
           h == header[c]
<1>1. /\ e \in Nat /\ l \in Nat /\ at[c] = Wrap(e) /\ e > 0
      /\ l > 0 => e % BlockSize = 0
      /\ Unmoved(c) = e .. (e + l - 1) /\ Held(c) \subseteq 0 .. (claimed - 1)
    BY DEF HoldsOne, Moved, Holding, Unmoved
<1>2. CASE l = 0
    <2>1. Leave(c)
        BY <1>2 DEF NextBlock
    <2>2. cpc'[c] = "idle" /\ \A d \in Consumers : d # c => SameOne(d)
        BY <2>1 DEF Leave, Goto, Locals, SameOne
    <2>3. Held(c)' = {} /\ Unmoved(c)' = {}
        BY <2>2 DEF Held, Unmoved, Holding
    <2>4. Unmoved(c) = {}
        BY <1>1, <1>2
    <2>5. HoldsOne(c)' /\ FindsOne(c, o, B)'
        BY <2>2 DEF HoldsOne, FindsOne, Holding, Loaded, Moved
    <2> QED
        BY <2>2, <2>3, <2>4, <2>5
<1>3. CASE l # 0
    <2>1. /\ slot'[c] = (slot[c] + 1) % Capacity(h) /\ cpc'[c] = "move"
          /\ UNCHANGED <<left, at, header, expect>>
          /\ \A d \in Consumers : d # c => SameOne(d)
        BY <1>3 DEF NextBlock, Goto, Locals, SameOne
    <2>2. Held(c)' = Unmoved(c) /\ Unmoved(c)' = Unmoved(c)
        BY <2>1 DEF Held, Unmoved, Holding, Done, Moved
    <2>3. Unmoved(c) \subseteq 0 .. (claimed - 1)
        BY <1>1, UnmovedIsHeld
    <2>4. HoldsOne(c)'
        BY <1>1, <1>3, <2>1, <2>2, <2>3 DEF HoldsOne, Moved
    <2>5. h \in 1 .. Len(index) /\ slot[c] = Slot(o, h, Mine(c))
        BY DEF FindsOne, Moved, Loaded
    <2>6. /\ h \in 1 .. MaxIndexes /\ o \in [1 .. MaxIndexes -> Int]
          /\ Capacity(h) = Cap(h)
        BY <2>5, ShapeFacts DEF Shape, Capacity
    <2>7. Mine(c) \in Int /\ Mine(c) + 1 = Block(e)
        <3>1. e \in Int /\ e % BlockSize = 0
            BY <1>1, <1>3
        <3>2. Filled(e) = Block(e)
            BY <3>1, FilledFacts
        <3>3. PICK m \in Int : m = e - 1
            BY <1>1
        <3> QED
            BY <3>2, <3>3, BlockFacts DEF Filled, Mine
    <2>8. slot'[c] = Slot(o, h, Block(e))
        BY <2>1, <2>5, <2>6, <2>7, SlotFacts
    <2>9. FindsOne(c, o, B)'
        BY <2>1, <2>8 DEF FindsOne, Loaded, Moved
    <2> QED
        BY <2>1, <2>2, <2>4, <2>9
<1> QED
    BY <1>2, <1>3

LEMMA MainSetEmpty ==
    ASSUME NEW o, NEW u, NEW B, Main(o, u, B), ClaimsInv, Phase, Locals,
           NEW c \in Consumers, SetEmpty(c)
    PROVE  Main(o, u, B)'
<1>1. /\ cpc[c] = "empty"
      /\ emptied' = [emptied EXCEPT ![block[c]] = @ + part[c]]
      /\ IF emptied[block[c]] + part[c] = BlockSize THEN Emptied(c) ELSE NextBlock(c)
      /\ UNCHANGED <<producer, enqueued, claimed, index, indexTail, key, value, content, pool>>
    BY DEF SetEmpty, blockIndex, indices
<1>2. claimed \in Nat /\ First \in Nat
    BY ClaimsGive, NumberFacts
<1>3. /\ FindsOne(c, o, B) /\ HoldsOne(c) /\ Live(index, o, u, B) /\ Shape(index, o)
      /\ Holds /\ Placed(B) /\ Contents(B) /\ Counted(B) /\ Allocated(u, B)
      /\ Finds(o, B)
    BY DEF Main, Finds, Holds, Ring
<1>4. /\ expect[c] \in Nat /\ expect[c] > 0 /\ left[c] \in Nat
      /\ part[c] \in 1 .. BlockSize /\ BlockSize \in Nat
      /\ Mine(c) * BlockSize <= expect[c] - part[c]
    BY <1>1, <1>3, Sizes DEF HoldsOne, Moved, Holding
<1>5. PICK e \in Nat : e = expect[c]
    BY <1>4
<1>6. PICK l \in Nat : l = left[c]
    BY <1>4
<1>7. PICK n \in 1 .. BlockSize : n = part[c]
    BY <1>4
<1>8. PICK k \in Int : k = Mine(c)
    <2>1. e - 1 \in Int
        OBVIOUS
    <2> QED
        BY <1>5, <2>1, BlockFacts DEF Mine
<1>9. /\ e > 0 /\ k * BlockSize <= e - n /\ k = Block(e - 1) /\ k * BlockSize \in Int
      /\ n \in Int
    <2>1. k * BlockSize \in Int
        BY <1>4
    <2> QED
        BY <1>4, <1>5, <1>7, <1>8, <2>1 DEF Mine
<1>10. /\ Held(c) = (e - n) .. (e + l - 1) /\ Unmoved(c) = e .. (e + l - 1)
    BY <1>1, <1>5, <1>6, <1>7 DEF Held, Unmoved, Done, Holding
<1>11. e - 1 \in Held(c)
    BY <1>9, <1>10
<1>12. /\ 0 <= k /\ k < First /\ B[k] # Null /\ e - 1 \in Open(k)
       /\ block[c] = B[k]
    <2>1. /\ Block(e - 1) \in Nat /\ Block(e - 1) < First /\ e - 1 \in Open(Block(e - 1))
          /\ B[Block(e - 1)] # Null
        BY <1>3, <1>11, HeldFacts, HeldIsLive
    <2>2. block[c] = B[Mine(c)]
        BY <1>1, <1>3 DEF Counted
    <2>3. k = Block(e - 1)
        BY <1>9
    <2> QED
        BY <1>8, <2>1, <2>2, <2>3
<1>13. PICK b \in Blocks : b = B[k]
    BY <1>3, <1>12 DEF Live
<1>14. /\ Held(c)' = e .. (e + l - 1) /\ Unmoved(c)' = Unmoved(c)
       /\ \A d \in Consumers : d # c => SameOne(d)
       /\ cpc'[c] \in {"idle", "move", "null"} /\ HoldsOne(c)' /\ FindsOne(c, o, B)'
       /\ cpc'[c] = "null" <=> emptied[b] + n = BlockSize
       /\ cpc'[c] = "null" => block'[c] = block[c] /\ Mine(c)' = k
    <2>1. CASE emptied[b] + n = BlockSize
        <3>1. /\ cpc'[c] = "null" /\ expect'[c] = e /\ left'[c] = l /\ at'[c] = at[c]
              /\ header'[c] = header[c] /\ slot'[c] = slot[c] /\ block'[c] = block[c]
              /\ \A d \in Consumers : d # c => SameOne(d)
            BY <1>1, <1>5, <1>6, <1>7, <1>12, <1>13, <2>1
            DEF Emptied, Goto, Locals, SameOne
        <3>2. Mine(c)' = k
            BY <1>9, <3>1 DEF Mine
        <3>3. Held(c)' = e .. (e + l - 1) /\ Unmoved(c)' = Unmoved(c)
            BY <1>10, <3>1 DEF Held, Unmoved, Done, Holding
        <3>4. Held(c)' \subseteq 0 .. (claimed - 1)
            <4>1. Unmoved(c) \subseteq Held(c) /\ Held(c) \subseteq 0 .. (claimed - 1)
                BY <1>1, <1>3, UnmovedIsHeld DEF HoldsOne, Holding
            <4> QED
                BY <1>10, <3>3, <4>1
        <3>5. HoldsOne(c)'
            BY <1>1, <1>3, <1>5, <1>6, <3>1, <3>4 DEF HoldsOne, Moved, Holding
        <3>6. FindsOne(c, o, B)'
            BY <1>1, <1>3, <1>5, <1>6, <1>8, <3>1, <3>2 DEF FindsOne, Moved, Loaded
        <3> QED
            BY <2>1, <3>1, <3>2, <3>3, <3>5, <3>6
    <2>2. CASE emptied[b] + n # BlockSize
        <3>1. NextBlock(c)
            BY <1>1, <1>7, <1>12, <1>13, <2>2
        <3> QED
            BY <1>1, <1>3, <1>10, <2>2, <3>1, NextBlockFacts DEF Moved
    <2> QED
        BY <2>1, <2>2
<1>15. \A d \in Consumers : d # c => Held(d)' = Held(d) /\ Unmoved(d)' = Unmoved(d)
    BY <1>14, SameFacts
<1>16. \A d \in Consumers : Held(d)' \subseteq Held(d) /\ Unmoved(d)' = Unmoved(d)
    BY <1>9, <1>10, <1>14, <1>15
<1> DEFINE P == (e - n) .. (e - 1)
<1>17. ASSUME NEW j \in Int PROVE Open(j)' = Open(j) \ P
    <2>1. ASSUME NEW m \in ElementsOf(j)
          PROVE  (m >= claimed' \/ \E d \in Consumers : m \in Held(d)')
                    <=> /\ m >= claimed \/ \E d \in Consumers : m \in Held(d)
                        /\ m \notin P
        <3>1. m \in Int
            BY DEF ElementsOf
        <3>2. /\ P \subseteq Held(c)
              /\ m \in Held(c)' <=> m \in Held(c) /\ m \notin P
            <4>1. P \subseteq Held(c)
                BY <1>9, <1>10
            <4>2. m \in e .. (e + l - 1) <=> m \in (e - n) .. (e + l - 1) /\ m \notin P
                BY <1>9, <3>1
            <4> QED
                BY <1>10, <1>14, <4>1, <4>2
        <3> HIDE DEF P
        <3>3. m \in P => ~ (m >= claimed)
            <4>1. Held(c) \subseteq 0 .. (claimed - 1)
                BY <1>1, <1>3 DEF HoldsOne, Holding
            <4> QED
                BY <1>2, <3>2, <4>1
        <3>4. \A d \in Consumers : d # c => (m \in P => m \notin Held(d))
            BY <1>3, <3>2 DEF Holds
        <3> QED
            BY <1>1, <1>15, <3>2, <3>3, <3>4
    <2> HIDE DEF P
    <2> QED
        BY <2>1 DEF Open
<1>18. P \subseteq Open(k)
    <2>1. ASSUME NEW m \in P PROVE m \in Open(k)
        <3>1. m \in Int /\ k * BlockSize <= m /\ m <= e - 1
            BY <1>9
        <3>2. k <= Block(m) /\ Block(m) \in Int
            BY <3>1, BlockBound
        <3>3. e - 1 < (k + 1) * BlockSize
            <4>1. e - 1 \in Int /\ k + 1 \in Int
                BY <1>9
            <4>2. Block(e - 1) < k + 1
                BY <1>9
            <4> QED
                BY <4>1, <4>2, BlockBound
        <3>4. (k + 1) * BlockSize \in Int
            BY <1>4
        <3>5. m < (k + 1) * BlockSize
            BY <1>9, <3>1, <3>3, <3>4
        <3>6. Block(m) < k + 1
            BY <3>1, <3>5, BlockBound
        <3>7. Block(m) = k
            BY <3>2, <3>6
        <3>8. m \in Held(c)
            BY <1>9, <1>10, <3>1
        <3> QED
            BY <3>1, <3>7, <3>8, ElementsFacts DEF Open
    <2> QED
        BY <2>1
<1>19. \A j \in Int : j # k => Open(j)' = Open(j)
    <2>1. ASSUME NEW j \in Int, j # k PROVE Open(j) \intersect P = {}
        <3>1. ASSUME NEW m \in P, m \in Open(j) PROVE FALSE
            <4>1. m \in Int /\ m \in ElementsOf(j) /\ m \in ElementsOf(k)
                BY <1>18, <3>1, OpenFacts
            <4> QED
                BY <2>1, <4>1, ElementsFacts
        <3> QED
            BY <3>1
    <2> QED
        BY <1>17, <2>1
<1>20. /\ Cardinality(Open(k)') = Cardinality(Open(k)) - n
       /\ Cardinality(Open(k)) \in Nat /\ Cardinality(Open(k)') \in Nat
       /\ Cardinality(Open(k)') = 0 <=> Open(k)' = {}
    <2>1. IsFiniteSet(Open(k)) /\ Cardinality(Open(k)) \in Nat
        BY OpenFacts
    <2>2. Cardinality(P) = n
        <3>1. e - n \in Int /\ e - n <= e /\ e - (e - n) = n
            BY <1>9
        <3> QED
            BY <3>1, RangeSize
    <2>3. Open(k)' = Open(k) \ P /\ Open(k) \cap P = P
        BY <1>17, <1>18
    <2>4. /\ Cardinality(Open(k) \ P) = Cardinality(Open(k)) - Cardinality(Open(k) \cap P)
          /\ IsFiniteSet(Open(k) \ P)
        <3> HIDE DEF P
        <3> QED
            BY <2>1, FS_Difference
    <2>5. /\ Cardinality(Open(k) \ P) \in Nat
          /\ Cardinality(Open(k) \ P) = 0 <=> Open(k) \ P = {}
        BY <2>4, FS_CardinalityType, FS_EmptySet
    <2> QED
        BY <2>1, <2>2, <2>3, <2>4, <2>5
<1>21. /\ emptied[b] = BlockSize - Cardinality(Open(k))
       /\ emptied' = [emptied EXCEPT ![b] = BlockSize - Cardinality(Open(k)')]
       /\ emptied \in [Blocks -> 0 .. BlockSize]
       /\ cpc'[c] = "null" <=> Open(k)' = {}
    <2>1. emptied[b] = BlockSize - Cardinality(Open(k))
        BY <1>3, <1>12, <1>13 DEF Counted, CountedOne
    <2>2. emptied' = [emptied EXCEPT ![b] = emptied[b] + n]
        BY <1>1, <1>7, <1>12, <1>13
    <2>3. emptied[b] + n = BlockSize - Cardinality(Open(k)')
        BY <1>4, <1>9, <1>20, <2>1
    <2>4. cpc'[c] = "null" <=> Cardinality(Open(k)') = 0
        BY <1>4, <1>14, <1>20, <2>3
    <2> QED
        BY <1>3, <1>20, <2>1, <2>2, <2>3, <2>4 DEF Counted
<1>22. Ring(o, u, B)' /\ Placed(B)' /\ TailBlock(u, B)'
    <2>1. Freeing' = Freeing /\ \A d \in Freeing : block'[d] = block[d]
        <3>1. \A d \in Consumers : cpc'[d] = "free" <=> cpc[d] = "free"
            BY <1>1, <1>14 DEF SameOne
        <3>2. \A d \in Freeing : d # c /\ d \in Consumers
            BY <1>1 DEF Freeing
        <3> QED
            BY <1>14, <3>1, <3>2 DEF Freeing, SameOne
    <2> QED
        BY <1>1, <2>1, ProducerStay DEF Main
<1>23. Allocated(u, B)'
    <2>1. \A i \in 1 .. Len(allocated) : allocated[i].block # b
        BY <1>12, <1>13, NewBlocksApart
    <2>2. \A i \in 1 .. Len(allocated) :
            emptied'[allocated[i].block] = emptied[allocated[i].block]
        BY <1>3, <1>21, <2>1 DEF Allocated
    <2>3. /\ First' = First /\ Unlinked' = Unlinked /\ allocated' = allocated
          /\ \A i : Number(u, i)' = Number(u, i)
        BY <1>1, ProducerStay
    <2> QED
        BY <1>3, <2>2, <2>3, AllocatedStay
<1>24. Holds'
    <2>1. ASSUME NEW d \in Consumers, d # c PROVE HoldsOne(d)'
        <3>1. claimed <= claimed' /\ claimed \in Int /\ claimed' \in Int
            BY <1>1, <1>2
        <3> QED
            BY <1>3, <1>14, <2>1, <3>1, SameFacts DEF Holds
    <2>2. \A d, f \in Consumers : d # f => Held(d)' \intersect Held(f)' = {}
        BY <1>3, <1>16 DEF Holds
    <2> QED
        BY <1>14, <2>1, <2>2 DEF Holds
<1>25. Finds(o, B)'
    <2>1. ASSUME NEW d \in Consumers, d # c PROVE FindsOne(d, o, B)'
        BY <1>1, <1>3, <1>14, <2>1, SameFacts DEF Finds
    <2> QED
        BY <1>14, <2>1 DEF Finds
<1>26. Counted(B)'
    <2>1. ASSUME NEW d \in Consumers, d # c
          PROVE  cpc'[d] = cpc[d] /\ block'[d] = block[d] /\ Mine(d)' = Mine(d)
        BY <1>14, <2>1, SameFacts DEF SameOne
    <2>2. emptied' \in [Blocks -> 0 .. BlockSize]
        <3>1. BlockSize - Cardinality(Open(k)') \in 0 .. BlockSize
            <4>1. PICK y \in Nat : y = Cardinality(Open(k)')
                BY <1>20
            <4>2. PICK x \in 0 .. BlockSize : x = Cardinality(Open(k))
                BY OpenFacts
            <4>3. y = x - n
                BY <1>20, <4>1, <4>2
            <4> QED
                BY <1>4, <1>9, <4>1, <4>2, <4>3
        <3> QED
            BY <1>21, <3>1
    <2>3. First' = First
        BY <1>1, ProducerStay
    <2>4. ASSUME NEW j \in Int, 0 <= j, j < First', j # k PROVE CountedOne(j, B)'
        <3>1. CountedOne(j, B)
            BY <1>3, <2>3, <2>4 DEF Counted
        <3>2. (\E d \in Consumers : cpc[d] = "null" /\ Mine(d) = j)
                => \E d \in Consumers : cpc'[d] = "null" /\ Mine(d)' = j
            BY <1>1, <2>1
        <3>3. B[j] # Null => B[j] # b /\ B[j] \in Blocks
            BY <1>3, <1>12, <1>13, <2>4 DEF Placed, Live
        <3>4. B[j] # Null => emptied'[B[j]] = emptied[B[j]]
            BY <1>21, <3>3
        <3> QED
            BY <1>19, <2>4, <3>1, <3>2, <3>4 DEF CountedOne
    <2>5. CountedOne(k, B)'
        <3>1. emptied'[b] = BlockSize - Cardinality(Open(k)')
            BY <1>21
        <3>2. Open(k)' = {} => cpc'[c] = "null" /\ Mine(c)' = k
            BY <1>14, <1>21
        <3> QED
            BY <1>12, <1>13, <3>1, <3>2 DEF CountedOne
    <2>6. ASSUME NEW d \in Consumers, cpc'[d] \in {"empty", "null"}
          PROVE  block'[d] = B[Mine(d)'] /\ block'[d] # Null
        <3>1. CASE d = c
            BY <1>12, <1>14, <2>6, <3>1
        <3>2. CASE d # c
            BY <1>3, <2>1, <2>6, <3>2 DEF Counted
        <3> QED
            BY <3>1, <3>2
    <2>7. ASSUME NEW d \in Consumers, d # c, cpc'[d] = "null"
          PROVE  Mine(d)' = Mine(d) /\ Mine(d) # k /\ cpc[d] = "null" /\ Mine(d) \in Int
                 /\ Open(Mine(d)) = {}
        <3>1. cpc[d] = "null" /\ Mine(d)' = Mine(d) /\ Open(Mine(d)) = {}
            BY <1>3, <2>1, <2>7 DEF Counted
        <3>2. Mine(d) # k
            BY <1>12, <3>1
        <3>3. Mine(d) \in Int
            <4>1. expect[d] \in Nat
                BY <1>3, <3>1 DEF Holds, HoldsOne, Holding
            <4>2. expect[d] - 1 \in Int
                BY <4>1
            <4> QED
                BY <4>2, BlockFacts DEF Mine
        <3> QED
            BY <3>1, <3>2, <3>3
    <2>8. ASSUME NEW d \in Consumers, cpc'[d] = "null"
          PROVE  /\ Open(Mine(d))' = {}
                 /\ \A f \in Consumers : cpc'[f] = "null" /\ Mine(f)' = Mine(d)' => f = d
        <3>1. CASE d = c
            <4>1. Mine(d)' = k /\ Open(k)' = {}
                BY <1>14, <1>21, <2>8, <3>1
            <4>2. Open(Mine(d))' = Open(k)'
                BY <4>1 DEF Open
            <4> QED
                BY <2>7, <3>1, <4>1, <4>2
        <3>2. CASE d # c
            <4>1. /\ Mine(d)' = Mine(d) /\ Mine(d) # k /\ cpc[d] = "null" /\ Mine(d) \in Int
                  /\ Open(Mine(d)) = {}
                BY <2>7, <2>8, <3>2
            <4>2. Open(Mine(d))' = {}
                BY <1>19, <4>1
            <4>3. \A f \in Consumers : cpc[f] = "null" /\ Mine(f) = Mine(d) => f = d
                BY <1>3, <4>1 DEF Counted
            <4> QED
                BY <1>14, <2>7, <4>1, <4>2, <4>3
        <3> QED
            BY <3>1, <3>2
    <2> QED
        BY <2>2, <2>4, <2>5, <2>6, <2>8 DEF Counted
<1>27. Contents(B)'
    <2>1. \A m \in Int : Kept(m)' => Kept(m)
        <3>1. Filling' = Filling
            BY <1>1, ProducerStay
        <3> QED
            BY <1>1, <1>16, <3>1 DEF Kept
    <2> QED
        BY <1>1, <1>3, <2>1 DEF Contents
<1> QED
    BY <1>22, <1>23, <1>24, <1>25, <1>26, <1>27 DEF Main

(* The block that holds the next element to publish, or the last one, is not
   one of which every element is taken off. *)
LEMMA TopIsOpen ==
    ASSUME Phase, Numbered, ClaimsInv, ppc = "publish", allocated = << >>
    PROVE  Open(First - 1) # {}
<1>1. /\ First \in Nat /\ Len(allocated) = 0 /\ enqueued \in Nat /\ claimed \in Nat
      /\ claimed <= enqueued /\ call.count \in Nat /\ (First - 1) * BlockSize < enqueued
      /\ BlockSize \in Nat
    BY NumberFacts DEF Phase
<1>2. Working /\ todo = << >>
    BY DEF Working, Phase
<1>3. call.count >= 1 /\ First = Filled(enqueued + call.count)
    <2>1. /\ call.count >= 1
          /\ First + Len(allocated) + Len(todo) = Filled(enqueued + call.count)
        BY <1>2 DEF Numbered
    <2> QED
        BY <1>1, <1>2, <2>1
<1>4. PICK e \in Nat : e = enqueued
    BY <1>1
<1>5. PICK m \in Nat : m = e + call.count
    BY <1>1
<1>6. Filled(m) = Filled(e) /\ e + 1 <= m
    <2>1. enqueued + call.count = m
        BY <1>4, <1>5
    <2>2. e + 1 <= m
        <3>1. PICK n \in Nat : n = call.count
            BY <1>1
        <3>2. n >= 1
            BY <1>3, <3>1
        <3> QED
            BY <1>5, <3>1, <3>2
    <2> QED
        BY <1>3, <1>4, <2>1, <2>2 DEF First
<1>7. m <= Filled(e) * BlockSize /\ Filled(e) \in Int
    BY <1>6, FilledFacts
<1>8. PICK f \in Int : f = Filled(e)
    BY <1>7
<1>9. f * BlockSize \in Int /\ e < f * BlockSize /\ (f - 1) * BlockSize <= e
      /\ (f - 1) * BlockSize \in Int
    <2>1. f * BlockSize \in Int /\ (f - 1) * BlockSize \in Int
        BY <1>1
    <2>2. (f - 1) * BlockSize < e
        BY <1>1, <1>4, <1>8 DEF First
    <2> QED
        BY <1>6, <1>7, <1>8, <2>1, <2>2
<1>10. Block(e) < f /\ f - 1 <= Block(e) /\ Block(e) \in Int
    <2>1. e \in Int /\ f - 1 \in Int
        OBVIOUS
    <2> QED
        BY <1>9, <2>1, BlockBound
<1>11. Block(e) = f - 1
    BY <1>10
<1>12. e \in ElementsOf(f - 1)
    <2>1. e \in Int /\ f - 1 \in Int
        OBVIOUS
    <2> QED
        BY <1>11, <2>1, ElementsFacts
<1>13. e \in Open(f - 1)
    BY <1>1, <1>4, <1>12 DEF Open
<1> QED
    BY <1>4, <1>8, <1>13 DEF First

LEMMA MainNull ==
    ASSUME NEW o, NEW u, NEW B, Main(o, u, B), ClaimsInv, Phase, Numbered, Locals,
           NEW c \in Consumers, NullEntry(c)
    PROVE  \E B2 : Main(o, u, B2)'
<1>1. /\ cpc[c] = "null" /\ cpc'[c] = "free"
      /\ value' = [value EXCEPT ![EntryOf(c)] = Null]
      /\ UNCHANGED <<want, over, mine, left, at, header, slot, block, part, expect>>
      /\ \A d \in Consumers : d # c => SameOne(d)
      /\ UNCHANGED <<producer, enqueued, claimed, index, indexTail, key, content,
                     emptied, pool>>
    BY DEF NullEntry, Goto, Locals, SameOne, blocks
<1>2. claimed \in Nat /\ First \in Nat /\ Len(allocated) \in Nat
    BY ClaimsGive, NumberFacts
<1>3. /\ FindsOne(c, o, B) /\ HoldsOne(c) /\ Live(index, o, u, B) /\ Shape(index, o)
      /\ Holds /\ Placed(B) /\ Contents(B) /\ Counted(B) /\ Allocated(u, B)
      /\ Finds(o, B) /\ Ring(o, u, B) /\ Top(o, u) /\ TailBlock(u, B)
    BY DEF Main, Finds, Holds, Ring
<1>4. /\ expect[c] \in Nat /\ expect[c] > 0 /\ left[c] \in Nat
      /\ block[c] = B[Mine(c)] /\ block[c] # Null /\ Open(Mine(c)) = {}
      /\ \A d \in Consumers : cpc[d] = "null" /\ Mine(d) = Mine(c) => d = c
    BY <1>1, <1>3 DEF HoldsOne, Moved, Holding, Counted
<1>5. PICK k \in Int : k = Mine(c)
    <2>1. expect[c] - 1 \in Int
        BY <1>4
    <2> QED
        BY <2>1, BlockFacts DEF Mine
<1>6. k * BlockSize < expect[c] + left[c] /\ k < First /\ 0 <= k
    <2>1. PICK m \in Nat : m = expect[c] - 1
        BY <1>4
    <2>2. k * BlockSize <= m
        BY <1>5, <2>1, BlockFacts, BlockBound DEF Mine
    <2>3. k * BlockSize \in Int
        BY Sizes
    <2>4. k * BlockSize < expect[c] + left[c]
        BY <1>4, <2>1, <2>2, <2>3
    <2>5. m < enqueued /\ enqueued \in Nat
        <3>1. expect[c] <= claimed
            BY <1>1, <1>3 DEF HoldsOne, Moved, Holding
        <3>2. claimed <= enqueued /\ enqueued \in Nat
            BY ClaimsGive
        <3> QED
            BY <1>2, <1>4, <2>1, <3>1, <3>2
    <2>6. m < First * BlockSize
        <3>1. enqueued <= First * BlockSize /\ First * BlockSize \in Int
            <4>1. enqueued <= First * BlockSize
                BY NumberFacts
            <4>2. BlockSize \in Int /\ First \in Int
                BY <1>2, Sizes
            <4>3. First * BlockSize \in Int
                BY <4>2
            <4> QED
                BY <4>1, <4>3
        <3>2. PICK e \in Nat : e = enqueued
            BY <2>5
        <3>3. PICK f \in Int : f = First * BlockSize
            BY <3>1
        <3>4. m < e /\ e <= f
            BY <2>5, <3>1, <3>2, <3>3
        <3>5. m < f
            BY <2>1, <3>4
        <3>6. First \in Int /\ BlockSize \in Int
            BY <1>2, Sizes
        <3> QED
            BY <2>1, <3>3, <3>5, <3>6
    <2>7. k = Block(m) /\ k < First
        <3>1. m \in Int /\ First \in Int
            BY <1>2, <2>1
        <3>2. m < First * BlockSize <=> Block(m) < First
            BY <3>1, BlockBound
        <3> QED
            BY <1>5, <2>1, <2>6, <3>2 DEF Mine
    <2>8. 0 <= k
        <3>1. B[k] # Null
            BY <1>4, <1>5
        <3> QED
            BY <1>3, <3>1 DEF Live
    <2> QED
        BY <2>4, <2>7, <2>8
<1>7. PICK b \in Blocks : b = B[k] /\ b = block[c]
    BY <1>3, <1>4, <1>5 DEF Live
<1>8. B[k] # Null /\ b # Null
    BY <1>4, <1>5, <1>7
<1>9. EntryOf(c) = Here(index, o, k)
    <2>1. slot[c] = Slot(o, header[c], k)
        BY <1>1, <1>3, <1>5 DEF FindsOne, Moved
    <2>2. Entry(index, o, header[c], k) = Here(index, o, k)
        BY <1>1, <1>3, <1>6, <1>8 DEF FindsOne, Loaded
    <2> QED
        BY <2>1, <2>2 DEF EntryOf, Entry
<1>10. value' = [value EXCEPT ![Here(index, o, k)] = Null]
    BY <1>1, <1>9
<1> DEFINE B2 == [B EXCEPT ![k] = Null]
<1>11. /\ B2 \in [Int -> Blocks \union {Null}] /\ B2[k] = Null
       /\ \A j \in Int : j # k => B2[j] = B[j]
       /\ B \in [Int -> Blocks \union {Null}]
    BY <1>3 DEF Live
<1>12. PICK C : C = B2
    OBVIOUS
<1> HIDE DEF B2
<1>13. /\ C \in [Int -> Blocks \union {Null}] /\ C[k] = Null
       /\ \A j \in Int : j # k => C[j] = B[j]
    BY <1>11, <1>12
<1>14. \A d \in Consumers : Held(d)' = Held(d) /\ Unmoved(d)' = Unmoved(d)
    <2>1. Held(c)' = Held(c) /\ Unmoved(c)' = Unmoved(c)
        BY <1>1 DEF Held, Unmoved, Done, Holding
    <2> QED
        BY <1>1, <2>1, SameFacts
<1>15. \A j : Open(j)' = Open(j)
    BY <1>1, <1>14 DEF Open
<1>16. Mine(c)' = k
    BY <1>1, <1>5 DEF Mine
<1>17. /\ First' = First /\ Last' = Last /\ Unlinked' = Unlinked /\ Filling' = Filling
       /\ UNCHANGED <<ppc, allocated, tailBlock, call>>
       /\ \A i : Number(u, i)' = Number(u, i)
    BY <1>1, ProducerStay
<1>18. Live(index, o, u, C)'
    <2>1. ASSUME NEW j \in Int, C[j] # Null
          PROVE  /\ j # k /\ B[j] # Null /\ C[j] = B[j] /\ Here(index, o, j) # Here(index, o, k)
        <3>1. j # k /\ C[j] = B[j] /\ B[j] # Null
            BY <1>13, <2>1
        <3>2. /\ u - Cap(Len(index)) < j /\ j <= u /\ u \in Int
              /\ u - Cap(Len(index)) < k /\ k <= u
            BY <1>3, <1>8, <3>1 DEF Live
        <3>3. Cap(Len(index)) \in Int
            BY <1>3, Sizes DEF Shape
        <3>4. j - k < Cap(Len(index)) /\ k - j < Cap(Len(index))
            BY <3>2, <3>3
        <3> QED
            BY <1>3, <3>1, <3>4, HereNear
    <2>2. value' \in [Entries -> Blocks \union {Null}]
        BY <1>3, <1>10 DEF Live
    <2>3. Here(index, o, k) \in Entries /\ \A j \in Int : Here(index, o, j) \in Entries
        <3>1. Len(index) \in 1 .. Len(index)
            BY <1>3, ShapeFacts DEF Shape
        <3> QED
            BY <1>3, <3>1, EntryFacts
    <2>4. ASSUME NEW j \in Int, C[j] # Null
          PROVE  /\ u - Cap(Len(index)) < j /\ j <= u /\ 0 <= j
                 /\ value'[Here(index, o, j)] = C[j]
                 /\ \A i \in j .. u : key[Here(index, o, i)] = KeyOf(i)
        <3>1. value'[Here(index, o, j)] = value[Here(index, o, j)]
            BY <1>3, <1>10, <2>1, <2>3, <2>4 DEF Live
        <3> QED
            BY <1>3, <2>1, <2>4, <3>1 DEF Live
    <2>5. ASSUME NEW x \in Entries, value'[x] # Null
          PROVE  \E j \in Int : C[j] # Null /\ Here(index, o, j) = x
        <3>1. x # Here(index, o, k) /\ value[x] # Null
            BY <1>3, <1>10, <2>5 DEF Live
        <3>2. PICK j \in Int : B[j] # Null /\ Here(index, o, j) = x
            BY <1>3, <3>1 DEF Live
        <3> QED
            BY <1>13, <3>1, <3>2
    <2>6. Live(index, o, u, C)' <=>
            /\ u \in Int /\ C \in [Int -> Blocks \union {Null}]
            /\ \A j \in Int : C[j] # Null =>
                /\ u - Cap(Len(index)) < j /\ j <= u /\ 0 <= j
                /\ value'[Here(index, o, j)] = C[j]
                /\ \A i \in j .. u : key[Here(index, o, i)] = KeyOf(i)
            /\ value' \in [Entries -> Blocks \union {Null}]
            /\ \A x \in Entries : value'[x] # Null =>
                \E j \in Int : C[j] # Null /\ Here(index, o, j) = x
        BY <1>1 DEF Live
    <2> QED
        BY <1>3, <1>13, <2>2, <2>4, <2>5, <2>6 DEF Live
<1>19. Ring(o, u, C)'
    <2>1. Shape(index, o)' /\ Nested(index, o)' /\ Keys(index, o)' /\ Tails(o)' /\ Fresh'
        <3>1. Shape(index, o)' /\ Nested(index, o)' /\ Keys(index, o)'
            BY <1>1, <1>3, IndexStays DEF Ring
        <3>2. Tails(o)'
            BY <1>1, <1>3, <1>17 DEF Ring, Tails
        <3>3. Fresh'
            BY <1>1, <1>3, <1>17 DEF Ring, Fresh, Old
        <3> QED
            BY <3>1, <3>2, <3>3
    <2>2. \A x \in Entries : value[x] = Null => value'[x] = Null
        BY <1>3, <1>10 DEF Live
    <2>3. \A j \in Int : Here(index, o, j) \in Entries
        <3>1. Len(index) \in 1 .. Len(index)
            BY <1>3, ShapeFacts DEF Shape
        <3> QED
            BY <1>3, <3>1, EntryFacts
    <2>4. u \in Int /\ u + 1 \in Int
        BY <1>3 DEF Live
    <2>5. Top(o, u)'
        BY <1>1, <1>3, <1>17, <2>2, <2>3, <2>4 DEF Top
    <2> QED
        BY <1>18, <2>1, <2>5 DEF Ring
<1>20. Allocated(u, C)'
    <2>1. \A i \in 1 .. Len(allocated) : Number(u, i) \in Int /\ Number(u, i) # k
        <3>1. u \in Int
            BY <1>3 DEF Live
        <3> QED
            BY <1>3, <1>6, <1>8, <3>1, NewBlocksApart, NumberIs
    <2>2. Allocated(u, C)
        BY <1>3, <1>13, <2>1 DEF Allocated
    <2> QED
        BY <1>1, <1>17, <2>2, AllocatedStay
<1>21. Placed(C)'
    <2>1. Freeing' = Freeing \union {c} /\ c \notin Freeing
        BY <1>1 DEF Freeing, SameOne
    <2>2. /\ pool' = pool /\ block' = block /\ Newest' = Newest /\ ppc' = ppc
          /\ b \notin pool /\ \A j \in Int : B[j] = b => j = k
          /\ ppc = "link" => Newest # b
          /\ \A d \in Freeing : block[d] # b
        <3>1. pool' = pool /\ block' = block /\ Newest' = Newest /\ ppc' = ppc
            BY <1>1, <1>17 DEF Newest
        <3>2. b \notin pool /\ \A j \in Int : B[j] = b => j = k
            BY <1>3, <1>7, <1>8 DEF Placed
        <3>3. ppc = "link" => Newest # b
            BY <1>3, <1>7 DEF Placed
        <3>4. \A d \in Freeing : block[d] # b
            BY <1>3, <1>7 DEF Placed
        <3> QED
            BY <3>1, <3>2, <3>3, <3>4
    <2>3. pool' \subseteq Blocks
        BY <1>3, <2>2 DEF Placed
    <2>4. \A i, j \in Int : C[i] = C[j] /\ C[i] # Null => i = j
        BY <1>3, <1>13 DEF Placed
    <2>5. \A j \in Int : C[j] \notin pool /\ C[j] # b
        <3>1. Null \notin pool
            BY <1>3, BlocksAssumption DEF Placed
        <3> QED
            BY <1>3, <1>8, <1>13, <2>2, <3>1 DEF Placed
    <2>6. ppc = "link" => Newest \notin pool /\ \A j \in Int : C[j] # Newest
        <3>1. ASSUME ppc = "link" PROVE Newest \in Blocks
            <4>1. Len(allocated) \in 1 .. Len(allocated)
                BY <1>2, <3>1, AnySequenceFacts DEF Phase
            <4> QED
                BY <1>3, <4>1 DEF Allocated, Newest
        <3> QED
            BY <1>3, <1>13, <3>1, BlocksAssumption DEF Placed
    <2>7. ASSUME NEW d \in Freeing'
          PROVE  /\ block[d] \in Blocks \ pool
                 /\ \A j \in Int : C[j] # block[d]
                 /\ ppc = "link" => block[d] # Newest
                 /\ \A f \in Freeing' : block[f] = block[d] => f = d
        <3>1. CASE d = c
            BY <1>7, <2>1, <2>2, <2>5, <3>1
        <3>2. CASE d # c
            <4>1. /\ d \in Freeing /\ block[d] \in Blocks \ pool
                  /\ \A j \in Int : B[j] # block[d]
                  /\ ppc = "link" => block[d] # Newest
                  /\ \A f \in Freeing : block[f] = block[d] => f = d
                BY <1>3, <2>1, <3>2 DEF Placed
            <4> QED
                BY <1>7, <1>13, <2>1, <2>2, <4>1, BlocksAssumption
        <3> QED
            BY <3>1, <3>2
    <2>8. ASSUME NEW a \in Blocks
          PROVE  \/ a \in pool \/ \E j \in Int : C[j] = a
                 \/ ppc = "link" /\ a = Newest
                 \/ \E d \in Freeing' : block[d] = a
        <3>1. CASE a = b
            BY <1>7, <2>1, <3>1
        <3>2. ASSUME NEW j \in Int, B[j] = a, a # b PROVE C[j] = a
            BY <1>7, <1>13, <3>2
        <3> QED
            BY <1>3, <2>1, <3>1, <3>2 DEF Placed
    <2> QED
        BY <2>2, <2>3, <2>4, <2>5, <2>6, <2>7, <2>8 DEF Placed
<1>22. TailBlock(u, C)'
    <2>1. u \in Int /\ First - 1 \in Int /\ tailBlock \in Blocks \union {Null}
        BY <1>2, <1>3 DEF Live, TailBlock
    <2>2. ppc = "publish" => u # k
        <3>1. ASSUME ppc = "publish", u = k PROVE FALSE
            <4>1. u = First - 1 + Len(allocated)
                BY <1>2, <1>3, <3>1 DEF Top, Last
            <4>2. Len(allocated) = 0 /\ u = First - 1
                BY <1>2, <1>6, <3>1, <4>1
            <4>3. allocated = << >>
                BY <4>2, AnySequenceFacts DEF Phase
            <4> QED
                BY <1>4, <1>5, <3>1, <4>2, <4>3, TopIsOpen
        <3> QED
            BY <3>1
    <2>3. ppc = "publish" => C[u] = tailBlock /\ C[u] # Null
        BY <1>3, <1>13, <2>1, <2>2 DEF TailBlock
    <2>4. ppc # "publish" => C[First - 1] \in {Null, tailBlock}
        BY <1>3, <1>13, <2>1 DEF TailBlock
    <2> QED
        BY <1>17, <2>1, <2>3, <2>4 DEF TailBlock
<1>23. Holds'
    <2>1. HoldsOne(c)'
        BY <1>1, <1>3, <1>14 DEF HoldsOne, Moved, Holding
    <2>2. ASSUME NEW d \in Consumers, d # c PROVE HoldsOne(d)'
        <3>1. claimed <= claimed' /\ claimed \in Int /\ claimed' \in Int
            BY <1>1, <1>2
        <3> QED
            BY <1>1, <1>3, <2>2, <3>1, SameFacts DEF Holds
    <2> QED
        BY <1>3, <1>14, <2>1, <2>2 DEF Holds
<1>24. Finds(o, C)'
    <2>1. ASSUME NEW d \in Consumers PROVE FindsOne(d, o, C)
        BY <1>3, <1>13 DEF Finds, FindsOne
    <2>2. FindsOne(c, o, C)'
        BY <1>1, <1>5, <1>16, <2>1 DEF FindsOne, Loaded, Moved
    <2>3. ASSUME NEW d \in Consumers, d # c PROVE FindsOne(d, o, C)'
        BY <1>1, <2>1, <2>3, SameFacts
    <2> QED
        BY <2>2, <2>3 DEF Finds
<1>25. Counted(C)'
    <2>1. ASSUME NEW d \in Consumers, d # c
          PROVE  cpc'[d] = cpc[d] /\ block'[d] = block[d] /\ Mine(d)' = Mine(d)
        BY <1>1, <2>1, SameFacts DEF SameOne
    <2>2. emptied' = emptied
        BY <1>1
    <2>3. ASSUME NEW j \in Int, 0 <= j, j < First' PROVE CountedOne(j, C)'
        <3>1. CountedOne(j, B)
            BY <1>3, <1>17, <2>3 DEF Counted
        <3>2. CASE j = k
            BY <1>4, <1>5, <1>13, <1>15, <3>2 DEF CountedOne
        <3>3. CASE j # k
            <4>1. (\E d \in Consumers : cpc[d] = "null" /\ Mine(d) = j)
                    => \E d \in Consumers : cpc'[d] = "null" /\ Mine(d)' = j
                BY <1>5, <2>1, <3>3
            <4> QED
                BY <1>13, <1>15, <2>2, <3>1, <3>3, <4>1 DEF CountedOne
        <3> QED
            BY <3>2, <3>3
    <2>4. ASSUME NEW d \in Consumers, cpc'[d] \in {"empty", "null"}
          PROVE  /\ d # c /\ cpc[d] = cpc'[d] /\ Mine(d)' = Mine(d) /\ Mine(d) \in Int
                 /\ Mine(d) # k
        <3>1. d # c /\ cpc[d] = cpc'[d] /\ Mine(d)' = Mine(d)
            BY <1>1, <2>1, <2>4
        <3>2. /\ expect[d] \in Nat /\ left[d] \in Nat /\ expect[d] > 0
              /\ cpc[d] = "empty" => part[d] \in 1 .. BlockSize
            BY <1>3, <2>4, <3>1 DEF Holds, HoldsOne, Moved, Holding
        <3>3. PICK m \in Nat : m = expect[d] - 1
            BY <3>2
        <3>4. Mine(d) = Block(m) /\ Mine(d) \in Int
            BY <3>3, BlockFacts DEF Mine
        <3>5. CASE cpc[d] = "null"
            BY <1>4, <1>5, <3>1, <3>4, <3>5
        <3>6. CASE cpc[d] = "empty"
            <4>1. m \in (expect[d] - part[d]) .. (expect[d] + left[d] - 1)
                BY <3>2, <3>3, <3>6, Sizes
            <4>2. m \in Held(d)
                BY <3>6, <4>1 DEF Held, Done, Holding
            <4>3. m \in Open(Mine(d))
                BY <1>3, <3>4, <4>2, HeldFacts
            <4> QED
                BY <1>4, <1>5, <3>1, <3>4, <4>3
        <3> QED
            BY <2>4, <3>1, <3>4, <3>5, <3>6
    <2>5. ASSUME NEW d \in Consumers, cpc'[d] \in {"empty", "null"}
          PROVE  block'[d] = C[Mine(d)'] /\ block'[d] # Null
        BY <1>3, <1>13, <2>1, <2>4, <2>5 DEF Counted
    <2>6. ASSUME NEW d \in Consumers, cpc'[d] = "null"
          PROVE  /\ Open(Mine(d))' = {}
                 /\ \A f \in Consumers : cpc'[f] = "null" /\ Mine(f)' = Mine(d)' => f = d
        <3>1. d # c /\ cpc[d] = "null" /\ Mine(d)' = Mine(d)
            BY <2>4, <2>6
        <3>2. /\ Open(Mine(d)) = {}
              /\ \A f \in Consumers : cpc[f] = "null" /\ Mine(f) = Mine(d) => f = d
            BY <1>3, <3>1 DEF Counted
        <3> QED
            BY <1>15, <2>4, <3>1, <3>2
    <2> QED
        BY <1>3, <2>2, <2>3, <2>5, <2>6 DEF Counted
<1>26. Contents(C)'
    <2>1. ASSUME NEW m \in Int, Kept(m)'
          PROVE  C[Block(m)] # Null /\ content[C[Block(m)]][m % BlockSize] = m + 1
        <3>1. Kept(m)
            BY <1>1, <1>14, <1>17, <2>1 DEF Kept
        <3>2. Block(m) \in Int /\ m \in Open(Block(m))
            BY <1>3, <3>1, KeptIsOpen
        <3>3. Block(m) # k
            BY <1>4, <1>5, <3>2
        <3> QED
            BY <1>3, <1>13, <3>1, <3>2, <3>3 DEF Contents
    <2> QED
        BY <1>1, <1>3, <2>1 DEF Contents
<1>27. Main(o, u, C)'
    BY <1>19, <1>20, <1>21, <1>22, <1>23, <1>24, <1>25, <1>26 DEF Main
<1> QED
    BY <1>27

LEMMA MainFree ==
    ASSUME NEW o, NEW u, NEW B, Main(o, u, B), ClaimsInv, Phase, Locals,
           NEW c \in Consumers, Free(c)
    PROVE  Main(o, u, B)'
<1>1. /\ cpc[c] = "free" /\ NextBlock(c) /\ pool' = pool \union {block[c]}
      /\ UNCHANGED <<producer, enqueued, claimed, index, indexTail, key, value, content,
                     emptied>>
    BY DEF Free, blockIndex, indices
<1>2. claimed \in Nat /\ First \in Nat
    BY ClaimsGive, NumberFacts
<1>3. /\ FindsOne(c, o, B) /\ HoldsOne(c) /\ Live(index, o, u, B) /\ Shape(index, o)
      /\ Holds /\ Placed(B) /\ Contents(B) /\ Counted(B) /\ Finds(o, B)
    BY DEF Main, Finds, Holds, Ring
<1>4. /\ cpc'[c] \in {"idle", "move"} /\ \A d \in Consumers : d # c => SameOne(d)
      /\ Held(c)' = Unmoved(c) /\ Unmoved(c)' = Unmoved(c)
      /\ HoldsOne(c)' /\ FindsOne(c, o, B)'
    BY <1>1, <1>3, NextBlockFacts DEF Moved
<1>5. Unmoved(c) = Held(c)
    BY <1>1 DEF Unmoved, Held, Done
<1>6. \A d \in Consumers : Held(d)' = Held(d) /\ Unmoved(d)' = Unmoved(d)
    BY <1>4, <1>5, SameFacts
<1>7. \A j : Open(j)' = Open(j)
    BY <1>1, <1>6 DEF Open
<1>8. /\ First' = First /\ Filling' = Filling /\ ppc' = ppc /\ allocated' = allocated
    BY <1>1, ProducerStay
<1>9. Ring(o, u, B)' /\ Allocated(u, B)' /\ TailBlock(u, B)'
    BY <1>1, ProducerStay DEF Main
<1>10. Placed(B)'
    <2>1. c \in Freeing /\ Freeing' = Freeing \ {c}
        BY <1>1, <1>4 DEF Freeing, SameOne
    <2>2. \A d \in Freeing' : d \in Freeing /\ d # c /\ block'[d] = block[d]
        BY <1>4, <2>1 DEF SameOne, Freeing
    <2>3. Newest' = Newest
        BY <1>8 DEF Newest
    <2>4. /\ block[c] \in Blocks \ pool /\ \A j \in Int : B[j] # block[c]
          /\ ppc = "link" => block[c] # Newest
          /\ \A d \in Freeing : block[d] = block[c] => d = c
        BY <1>3, <2>1 DEF Placed
    <2>5. pool' \subseteq Blocks /\ \A k \in Int : B[k] \notin pool'
        BY <1>1, <1>3, <2>4 DEF Placed
    <2>6. ppc' = "link" => Newest' \notin pool' /\ \A k \in Int : B[k] # Newest'
        BY <1>1, <1>3, <1>8, <2>3, <2>4 DEF Placed
    <2>7. ASSUME NEW d \in Freeing'
          PROVE  /\ block'[d] \in Blocks \ pool'
                 /\ \A k \in Int : B[k] # block'[d]
                 /\ ppc' = "link" => block'[d] # Newest'
                 /\ \A f \in Freeing' : block'[f] = block'[d] => f = d
        <3>1. /\ d \in Freeing /\ d # c /\ block'[d] = block[d]
            BY <2>2
        <3>2. /\ block[d] \in Blocks \ pool
              /\ \A k \in Int : B[k] # block[d]
              /\ ppc = "link" => block[d] # Newest
              /\ \A f \in Freeing : block[f] = block[d] => f = d
            BY <1>3, <3>1 DEF Placed
        <3> QED
            BY <1>1, <1>8, <2>2, <2>3, <2>4, <3>1, <3>2
    <2>8. ASSUME NEW a \in Blocks
          PROVE  \/ a \in pool' \/ \E k \in Int : B[k] = a
                 \/ ppc' = "link" /\ a = Newest'
                 \/ \E d \in Freeing' : block'[d] = a
        <3>1. CASE a = block[c]
            BY <1>1, <3>1
        <3>2. CASE a # block[c]
            <4>1. ASSUME NEW d \in Freeing, block[d] = a
                  PROVE  d \in Freeing' /\ block'[d] = a
                <5>1. d \in Freeing' /\ d # c
                    BY <2>1, <3>2, <4>1
                <5> QED
                    BY <2>2, <4>1, <5>1
            <4> QED
                BY <1>1, <1>3, <1>8, <2>3, <4>1 DEF Placed
        <3> QED
            BY <3>1, <3>2
    <2>9. \A j, k \in Int : B[j] = B[k] /\ B[j] # Null => j = k
        BY <1>3 DEF Placed
    <2> QED
        BY <2>5, <2>6, <2>7, <2>8, <2>9 DEF Placed
<1>11. Holds'
    <2>1. ASSUME NEW d \in Consumers, d # c PROVE HoldsOne(d)'
        <3>1. claimed <= claimed' /\ claimed \in Int /\ claimed' \in Int
            BY <1>1, <1>2
        <3> QED
            BY <1>3, <1>4, <2>1, <3>1, SameFacts DEF Holds
    <2> QED
        BY <1>3, <1>4, <1>6, <2>1 DEF Holds
<1>12. Finds(o, B)'
    <2>1. ASSUME NEW d \in Consumers, d # c PROVE FindsOne(d, o, B)'
        BY <1>1, <1>3, <1>4, <2>1, SameFacts DEF Finds
    <2> QED
        BY <1>4, <2>1 DEF Finds
<1>13. Counted(B)'
    <2>1. ASSUME NEW d \in Consumers
          PROVE  /\ cpc'[d] = "empty" <=> cpc[d] = "empty"
                 /\ cpc'[d] = "null" <=> cpc[d] = "null"
                 /\ cpc[d] \in {"empty", "null"} =>
                        block'[d] = block[d] /\ Mine(d)' = Mine(d)
        <3>1. CASE d = c
            BY <1>1, <1>4, <3>1
        <3>2. CASE d # c
            BY <1>4, <3>2, SameFacts DEF SameOne
        <3> QED
            BY <3>1, <3>2
    <2>2. ASSUME NEW k \in Int, 0 <= k, k < First' PROVE CountedOne(k, B)'
        <3>1. CountedOne(k, B)
            BY <1>3, <1>8, <2>2 DEF Counted
        <3>2. (\E d \in Consumers : cpc[d] = "null" /\ Mine(d) = k)
                => \E d \in Consumers : cpc'[d] = "null" /\ Mine(d)' = k
            BY <2>1
        <3> QED
            BY <1>1, <1>7, <3>1, <3>2 DEF CountedOne
    <2>3. ASSUME NEW d \in Consumers, cpc'[d] = "null"
          PROVE  /\ Open(Mine(d))' = {}
                 /\ \A f \in Consumers : cpc'[f] = "null" /\ Mine(f)' = Mine(d)' => f = d
        <3>1. cpc[d] = "null" /\ Mine(d)' = Mine(d)
            BY <2>1, <2>3
        <3>2. /\ Open(Mine(d)) = {}
              /\ \A f \in Consumers : cpc[f] = "null" /\ Mine(f) = Mine(d) => f = d
            BY <1>3, <3>1 DEF Counted
        <3> QED
            BY <1>7, <2>1, <3>1, <3>2
    <2>4. ASSUME NEW d \in Consumers, cpc'[d] \in {"empty", "null"}
          PROVE  block'[d] = B[Mine(d)'] /\ block'[d] # Null
        BY <1>3, <2>1, <2>4 DEF Counted
    <2> QED
        BY <1>1, <1>3, <2>2, <2>3, <2>4 DEF Counted
<1>14. Contents(B)'
    <2>1. \A m \in Int : Kept(m)' => Kept(m)
        BY <1>1, <1>6, <1>8 DEF Kept
    <2> QED
        BY <1>1, <1>3, <2>1 DEF Contents
<1> QED
    BY <1>9, <1>10, <1>11, <1>12, <1>13, <1>14 DEF Main

(* Every step of a consumer *)
LEMMA MainConsume ==
    ASSUME NEW o, NEW u, NEW B, Main(o, u, B), ClaimsInv, Numbers, Locals,
           NEW c \in Consumers, Consume(c)
    PROVE  \E B2 : Main(o, u, B2)'
<1>1. Phase /\ Numbered
    BY DEF Numbers
<1>2. ASSUME Asks(c)
      PROVE  Main(o, u, B)'
    <2>1. UNCHANGED <<producer, enqueued, claimed, index, indexTail, key, value, blocks>>
        BY <1>2, AskFrame DEF blockIndex
    <2>2. /\ cpc[c] \notin Holding /\ cpc'[c] \notin Holding
          /\ \A d \in Consumers : d # c => cpc'[d] = cpc[d]
        <3>1. PICK p \in AskingPoints : cpc' = [cpc EXCEPT ![c] = p]
            BY <1>2, AskFrame
        <3>2. cpc[c] \in AskingPoints
            BY <1>2, AskFrame
        <3> QED
            BY <3>1, <3>2 DEF Locals, Holding, AskingPoints
    <2>3. ASSUME NEW d \in Consumers, d # c
          PROVE  /\ cpc'[d] = cpc[d] /\ expect'[d] = expect[d] /\ left'[d] = left[d]
                 /\ part'[d] = part[d] /\ at'[d] = at[d] /\ header'[d] = header[d]
                 /\ slot'[d] = slot[d] /\ block'[d] = block[d]
        BY <1>2, <2>2, <2>3, AskFrame
    <2>4. Quiet
        BY <2>2, <2>3 DEF Quiet, QuietOne
    <2> QED
        BY <2>1, <2>4, MainQuiet
<1>3. CASE Take(c)
    BY <1>3, MainTake
<1>4. CASE LoadIndex(c) \/ LoadTail(c) \/ LoadKey(c)
    BY <1>1, <1>4, MainLoad
<1>5. CASE Move(c)
    BY <1>5, MainMove
<1>6. CASE SetEmpty(c)
    BY <1>1, <1>6, MainSetEmpty
<1>7. CASE NullEntry(c)
    BY <1>1, <1>7, MainNull
<1>8. CASE Free(c)
    BY <1>1, <1>8, MainFree
<1> QED
    BY <1>2, <1>3, <1>4, <1>5, <1>6, <1>7, <1>8 DEF Consume, Asks

-----------------------------------------------------------------------------
(* The steps of the producer. What the consumers rely on is about blocks     *)
(* below First.                                                              *)

LEMMA BelowFirst ==
    ASSUME ClaimsInv, NEW n \in Int, n < enqueued
    PROVE  Block(n) \in Int /\ Block(n) < First /\ First \in Int
<1>1. enqueued \in Int /\ BlockSize \in Int
    BY ClaimsGive, Sizes
<1>2. First \in Int /\ enqueued <= First * BlockSize
    BY <1>1, FilledFacts DEF First
<1>3. First * BlockSize \in Int
    BY <1>1, <1>2
<1>4. n < First * BlockSize
    BY <1>1, <1>2, <1>3
<1> QED
    BY <1>2, <1>4, BlockBound

LEMMA HoldsLow ==
    ASSUME ClaimsInv, NEW c, HoldsOne(c), cpc[c] \in Holding
    PROVE  /\ expect[c] \in Nat /\ left[c] \in Nat /\ expect[c] + left[c] <= claimed
           /\ \A k \in Int : k * BlockSize < expect[c] + left[c] => k < First
           /\ cpc[c] \in Moved => Mine(c) \in Nat /\ Mine(c) < First
<1>1. /\ expect[c] \in Nat /\ left[c] \in Nat /\ Held(c) \subseteq 0 .. (claimed - 1)
      /\ claimed \in Nat /\ enqueued \in Nat /\ claimed <= enqueued
      /\ cpc[c] = "empty" => part[c] \in 1 .. BlockSize /\ BlockSize \in Nat
      /\ BlockSize \in Nat
    BY ClaimsGive, Sizes DEF HoldsOne
<1>2. PICK e \in Nat : e = expect[c]
    BY <1>1
<1>3. PICK l \in Nat : l = left[c]
    BY <1>1
<1>4. e + l <= claimed
    <2>1. CASE l > 0
        <3>1. e + l - 1 \in Unmoved(c)
            BY <1>2, <1>3, <2>1 DEF Unmoved
        <3>2. e + l - 1 \in 0 .. (claimed - 1)
            BY <1>1, <3>1, UnmovedIsHeld
        <3> QED
            BY <1>1, <3>2
    <2>2. CASE l = 0
        <3>1. cpc[c] \in Moved
            BY <1>3, <2>2 DEF HoldsOne, Moved, Holding
        <3>2. e <= claimed
            BY <1>2, <3>1 DEF HoldsOne
        <3> QED
            BY <2>2, <3>2
    <2> QED
        BY <1>3, <2>1, <2>2
<1>5. ASSUME NEW k \in Int, k * BlockSize < e + l PROVE k < First
    <2>1. PICK m \in Int : m = k * BlockSize
        BY <1>1
    <2>2. m < enqueued
        BY <1>1, <1>4, <1>5, <2>1
    <2>3. Block(m) \in Int /\ Block(m) < First /\ First \in Int
        BY <2>2, BelowFirst
    <2>4. k <= Block(m)
        <3>1. k * BlockSize <= m
            BY <2>1
        <3> QED
            BY <3>1, BlockBound
    <2> QED
        BY <2>3, <2>4
<1>6. ASSUME cpc[c] \in Moved PROVE Mine(c) \in Nat /\ Mine(c) < First
    <2>1. e > 0
        BY <1>2, <1>6 DEF HoldsOne
    <2>2. PICK m \in Nat : m = e - 1
        BY <2>1
    <2>3. m < enqueued
        BY <1>1, <1>4, <2>2
    <2>4. Block(m) \in Int /\ Block(m) < First
        BY <2>3, BelowFirst
    <2>5. 0 <= Block(m)
        <3>1. 0 \in Int /\ 0 * BlockSize <= m
            BY <1>1
        <3> QED
            BY <3>1, BlockBound
    <2> QED
        BY <1>2, <2>2, <2>4, <2>5 DEF Mine
<1> QED
    BY <1>1, <1>2, <1>3, <1>4, <1>5, <1>6

LEMMA KeptLow ==
    ASSUME ClaimsInv, Holds, Filling = 0, NEW n \in Int, Kept(n)
    PROVE  Block(n) \in Int /\ Block(n) < First
<1>1. claimed \in Nat /\ enqueued \in Nat /\ claimed <= enqueued
    BY ClaimsGive
<1>2. ASSUME NEW c \in Consumers, n \in Unmoved(c) PROVE n < enqueued
    <2>1. cpc[c] \in Holding /\ HoldsOne(c)
        BY <1>2 DEF Unmoved, Holds
    <2>2. n \in 0 .. (claimed - 1)
        BY <1>2, <2>1, UnmovedIsHeld DEF HoldsOne
    <2> QED
        BY <1>1, <2>2
<1>3. n < enqueued
    BY <1>1, <1>2 DEF Kept
<1> QED
    BY <1>3, BelowFirst

(* What holds of the consumers stays when the producer changes neither what
   they look at nor the blocks below First. *)
LEMMA ConsumersStay ==
    ASSUME NEW o, NEW u, NEW B, NEW C, Main(o, u, B), ClaimsInv,
           UNCHANGED <<consumer, claimed, enqueued, index, content>>,
           \A k \in Int : k < First => C[k] = B[k],
           \A e : key[e] # InvalidBase => key'[e] # InvalidBase,
           emptied' \in [Blocks -> 0 .. BlockSize],
           \A k \in Int : k < First /\ B[k] # Null => emptied'[B[k]] = emptied[B[k]],
           ppc # "publish", ppc' # "publish"
    PROVE  Holds' /\ Finds(o, C)' /\ Counted(C)' /\ Contents(C)'
<1>1. Quiet /\ Holds /\ Finds(o, B) /\ Counted(B) /\ Contents(B)
    BY QuietConsumer DEF Main
<1>2. /\ First' = First /\ Filling = 0 /\ Filling' = 0
      /\ UNCHANGED <<cpc, left, at, header, slot, block, part, expect>>
    BY DEF First, Filling, consumer
<1>3. /\ \A d \in Consumers : Held(d)' = Held(d) /\ Unmoved(d)' = Unmoved(d)
      /\ \A k : Open(k)' = Open(k)
    BY <1>1, QuietFacts
<1>4. \A d : Mine(d)' = Mine(d)
    BY <1>2 DEF Mine
<1>5. Holds'
    BY <1>1, HoldsStay
<1>6. Finds(o, C)'
    <2>1. ASSUME NEW d \in Consumers PROVE FindsOne(d, o, C)'
        <3>1. FindsOne(d, o, B)
            BY <1>1 DEF Finds
        <3>2. ASSUME cpc[d] \in Loaded, NEW k \in Int, C[k] # Null,
                     k * BlockSize < expect[d] + left[d]
              PROVE  Entry(index, o, header[d], k) = Here(index, o, k)
            <4>1. k < First
                BY <1>1, <3>2, HoldsLow DEF Holds, Loaded, Holding
            <4> QED
                BY <3>1, <3>2, <4>1 DEF FindsOne
        <3> QED
            BY <1>2, <1>4, <3>1, <3>2 DEF FindsOne
    <2> QED
        BY <2>1 DEF Finds
<1>7. Counted(C)'
    <2>1. ASSUME NEW k \in Int, 0 <= k, k < First' PROVE CountedOne(k, C)'
        BY <1>1, <1>2, <1>3, <1>4, <2>1 DEF Counted, CountedOne
    <2>2. ASSUME NEW d \in Consumers, cpc[d] \in {"empty", "null"}
          PROVE  block[d] = C[Mine(d)] /\ block[d] # Null
        <3>1. Mine(d) \in Int /\ Mine(d) < First
            BY <1>1, <2>2, HoldsLow DEF Holds, Moved, Holding
        <3> QED
            BY <1>1, <2>2, <3>1 DEF Counted
    <2>3. ASSUME NEW d \in Consumers, cpc[d] = "null"
          PROVE  /\ Open(Mine(d))' = {}
                 /\ \A f \in Consumers : cpc[f] = "null" /\ Mine(f) = Mine(d) => f = d
        BY <1>1, <1>3, <1>4, <2>3 DEF Counted
    <2> QED
        BY <1>2, <1>4, <2>1, <2>2, <2>3 DEF Counted
<1>8. Contents(C)'
    <2>1. ASSUME NEW n \in Int, Kept(n)'
          PROVE  C[Block(n)] # Null /\ content[C[Block(n)]][n % BlockSize] = n + 1
        <3>1. Kept(n)
            BY <1>2, <1>3, <2>1 DEF Kept
        <3>2. Block(n) \in Int /\ Block(n) < First
            BY <1>1, <1>2, <3>1, KeptLow
        <3> QED
            BY <1>1, <3>1, <3>2 DEF Contents
    <2> QED
        BY <1>1, <2>1 DEF Contents
<1> QED
    BY <1>5, <1>6, <1>7, <1>8

LEMMA FirstIsAllocated ==
    ASSUME ClaimsInv, Phase, NEW o, NEW u, NEW B, Main(o, u, B), u = Last,
           ppc \notin {"block", "link"}, allocated # << >>
    PROVE  \A j \in First .. u : key[Here(index, o, j)] = KeyOf(j)
<1>1. /\ First \in Nat /\ Len(allocated) \in Nat \ {0}
    BY NumberFacts, AnySequenceFacts DEF Phase
<1>2. Allocated(u, B) /\ Live(index, o, u, B)
    BY DEF Main, Ring
<1>3. u = First - 1 + Len(allocated) /\ Number(u, 1) = First /\ 1 \in 1 .. Len(allocated)
    BY <1>1 DEF Last, Number
<1>4. B[First] # Null
    <2>1. 1 \notin Unlinked
        BY DEF Unlinked
    <2>2. B[First] = allocated[1].block /\ allocated[1].block \in Blocks
        BY <1>2, <1>3, <2>1 DEF Allocated
    <2> QED
        BY <2>2, BlocksAssumption
<1>5. First \in Int
    BY <1>1
<1> QED
    BY <1>2, <1>4, <1>5 DEF Live

(* A step of the producer that changes nothing but where it is *)
LEMMA MainStill ==
    ASSUME NEW o, NEW u, NEW B, Main(o, u, B), ClaimsInv, Phase,
           UNCHANGED <<consumer, claimed, enqueued, blocks, blockIndex, tailBlock, allocated>>,
           ppc \in {"idle", "room", "insert", "construct"},
           ppc' \in {"idle", "room", "insert", "construct", "undo"},
           ppc' = "undo" => allocated # << >>
    PROVE  Main(o, u, B)'
<1>1. UNCHANGED <<index, indexTail, key, value, content, emptied, pool, cpc, block>>
    BY DEF blocks, blockIndex, consumer
<1>2. /\ First' = First /\ Last' = Last /\ Unlinked' = Unlinked
      /\ \A i : Number(u, i)' = Number(u, i)
    BY DEF First, Last, Unlinked, Number
<1>3. Ring(o, u, B) /\ Allocated(u, B) /\ Placed(B) /\ TailBlock(u, B) /\ Top(o, u)
      /\ Counted(B)
    BY DEF Main, Ring
<1>4. u = Last
    BY <1>3 DEF Top
<1>5. Top(o, u)'
    <2>1. ppc' = "undo" => \A j \in First .. u : key[Here(index, o, j)] = KeyOf(j)
        BY <1>4, FirstIsAllocated
    <2> QED
        BY <1>1, <1>2, <1>3, <1>4, <2>1 DEF Top
<1>6. Ring(o, u, B)'
    BY <1>1, <1>2, <1>3, <1>5, RingStay
<1>7. Allocated(u, B)'
    BY <1>1, <1>2, <1>3, AllocatedStay
<1>8. Placed(B)'
    BY <1>1, <1>3, PlacedStay DEF Freeing
<1>9. TailBlock(u, B)'
    BY <1>2, <1>3, TailBlockStay
<1>10. Holds' /\ Finds(o, B)' /\ Counted(B)' /\ Contents(B)'
    <2>1. emptied' \in [Blocks -> 0 .. BlockSize]
        BY <1>1, <1>3 DEF Counted
    <2> QED
        BY <1>1, <2>1, ConsumersStay
<1> QED
    BY <1>6, <1>7, <1>8, <1>9, <1>10 DEF Main

LEMMA MainFails ==
    ASSUME NEW o, NEW u, NEW B, Main(o, u, B), ClaimsInv, Numbers,
           \/ Room \/ InsertFails \/ ConstructFails
           \/ \E n \in EnqueueCounts, isSingle \in BOOLEAN : EnqueueCall(n, isSingle)
    PROVE  Main(o, u, B)'
<1>1. Phase
    BY DEF Numbers
<1>2. CASE Room \/ InsertFails \/ ConstructFails
    <2>1. UNCHANGED <<consumer, claimed, enqueued, blocks, blockIndex, tailBlock, allocated>>
        BY <1>2 DEF Room, InsertFails, ConstructFails, others
    <2>2. /\ ppc \in {"room", "insert", "construct"}
          /\ ppc' \in {"idle", "insert", "undo"}
          /\ ppc' = "undo" => allocated # << >>
        BY <1>2 DEF Room, InsertFails, ConstructFails, Fail
    <2> QED
        BY <1>1, <2>1, <2>2, MainStill
<1>3. ASSUME NEW n \in EnqueueCounts, NEW isSingle \in BOOLEAN, EnqueueCall(n, isSingle)
      PROVE  Main(o, u, B)'
    <2>1. /\ UNCHANGED <<consumer, claimed, enqueued, blocks, blockIndex, tailBlock>>
          /\ ppc = "idle" /\ ppc' \in {"room", "construct"} /\ allocated' = << >>
        BY <1>3 DEF EnqueueCall, others
    <2>2. allocated = << >>
        BY <1>1, <2>1 DEF Phase
    <2> QED
        BY <1>1, <2>1, <2>2, MainStill
<1> QED
    BY <1>2, <1>3

(* The entry after the last one is that of block u + 1. *)
LEMMA NextIs ==
    ASSUME NEW o, NEW u, NEW B, Main(o, u, B), u = Last
    PROVE  /\ NextSlot = Slot(o, Len(index), u + 1)
           /\ NextEntry = Here(index, o, u + 1)
           /\ Here(index, o, u + 1) \in Entries /\ u + 1 \in Int
           /\ \A j \in Int : j <= u /\ u - Cap(Len(index)) + 1 < j =>
                Here(index, o, j) # Here(index, o, u + 1)
           /\ \A j \in Int : Here(index, o, j) \in Entries
           /\ Here(index, o, u + 1 - Cap(Len(index))) = Here(index, o, u + 1)
           /\ Cap(Len(index)) \in Nat \ {0} /\ u + 1 - Cap(Len(index)) \in Int
<1> DEFINE n == Len(index)
<1>1. /\ Shape(index, o) /\ Tails(o) /\ u \in Int
    BY DEF Main, Ring, Live
<1>2. /\ n \in 1 .. n /\ n \in 1 .. MaxIndexes /\ o \in [1 .. MaxIndexes -> Int]
      /\ Cap(n) \in Nat \ {0}
    <2>1. n \in 1 .. n
        BY <1>1 DEF Shape
    <2> QED
        BY <1>1, <2>1, ShapeFacts DEF Shape
<1>3. Capacity(n) = Cap(n)
    BY <1>1, <1>2, ShapeFacts DEF Capacity
<1>4. indexTail[n] = Slot(o, n, u)
    BY <1>1 DEF Tails
<1>5. NextSlot = Slot(o, n, u + 1)
    BY <1>1, <1>2, <1>3, <1>4, SlotFacts DEF NextSlot, Current
<1>6. NextEntry = Here(index, o, u + 1)
    BY <1>5 DEF NextEntry, Here, Entry, Current
<1>7. u + 1 \in Int /\ \A j \in Int : Here(index, o, j) \in Entries
    BY <1>1, <1>2, EntryFacts
<1>8. ASSUME NEW j \in Int, j <= u, u - Cap(n) + 1 < j
      PROVE  Here(index, o, j) # Here(index, o, u + 1)
    <2>1. PICK p \in Int : p = u + 1
        BY <1>1
    <2>2. p - j < Cap(n) /\ j - p < Cap(n) /\ j # p
        BY <1>1, <1>2, <1>8, <2>1
    <2>3. Here(index, o, j) # Here(index, o, p)
        BY <1>1, <2>2, HereNear
    <2> QED
        BY <2>1, <2>3
<1>9. Here(index, o, u + 1 - Cap(n)) = Here(index, o, u + 1)
    <2>1. PICK p \in Int : p = u + 1
        BY <1>7
    <2>2. Here(index, o, p - Cap(n)) = Here(index, o, p)
        BY <1>1, HereAround
    <2>3. p - Cap(n) = u + 1 - Cap(n)
        BY <1>1, <1>2, <2>1
    <2> QED
        BY <2>1, <2>2, <2>3
<1>10. u + 1 - Cap(n) \in Int
    BY <1>1, <1>2
<1> QED
    BY <1>2, <1>5, <1>6, <1>7, <1>8, <1>9, <1>10

(* In a new block index the slot after the last entry has an entry that no
   block index had before. *)
LEMMA ReinsertIsFree ==
    ASSUME NEW o, NEW u, NEW B, Main(o, u, B), ppc = "reinsert"
    PROVE  key[NextEntry] = InvalidBase
<1> DEFINE n == Len(index)
<1>1. /\ Shape(index, o) /\ Fresh
    BY DEF Main, Ring
<1>2. /\ n > 1 /\ indexTail[n] = Cap(n - 1) - 1
      /\ \A i \in Cap(n - 1) .. (Cap(n) - 1) : index[n][i] = i + 1
      /\ \A e \in Entries : e > Cap(n - 1) => key[e] = InvalidBase
    BY <1>1 DEF Fresh, Old
<1>3. /\ n \in 1 .. n /\ n \in 1 .. MaxIndexes /\ Cap(n) \in Nat \ {0}
      /\ Capacity(n) = Cap(n)
    <2>1. n \in 1 .. n
        BY <1>1 DEF Shape
    <2> QED
        BY <1>1, <2>1, ShapeFacts DEF Capacity
<1>4. Cap(n) = 2 * Cap(n - 1) /\ Cap(n - 1) \in Nat \ {0}
    <2>1. PICK m \in Nat : m = MaxIndexes
        BY Sizes
    <2>2. PICK k \in 1 .. m : k = n
        BY <1>3, <2>1
    <2>3. k - 1 \in 1 .. m /\ k - 1 = n - 1
        BY <1>2, <2>2
    <2>4. n - 1 \in 1 .. MaxIndexes
        BY <2>1, <2>3
    <2> QED
        BY <1>2, <1>3, <2>4, Sizes
<1>5. PICK c \in Nat \ {0} : c = Cap(n - 1)
    BY <1>4
<1>6. c % (2 * c) = c
    <2>1. 2 * c \in Nat \ {0} /\ c \in 0 .. (2 * c - 1)
        BY <1>5
    <2> QED
        BY <2>1, SmallRemainder DEF Mod
<1>7. NextSlot = c
    <2>1. indexTail[n] + 1 = c
        BY <1>2, <1>5
    <2> QED
        BY <1>3, <1>4, <1>5, <1>6, <2>1 DEF NextSlot, Current
<1>8. NextEntry = c + 1
    <2>1. c \in Cap(n - 1) .. (Cap(n) - 1)
        BY <1>4, <1>5
    <2> QED
        BY <1>2, <1>7, <2>1 DEF NextEntry, Current
<1>9. NextEntry \in Entries
    <2>1. c \in 0 .. (Cap(n) - 1)
        BY <1>4, <1>5
    <2> QED
        BY <1>1, <1>3, <1>7, <2>1, ShapeFacts DEF NextEntry, Current
<1> QED
    BY <1>2, <1>5, <1>8, <1>9

LEMMA HeadIs ==
    ASSUME Numbers, ClaimsInv, ppc \in {"insert", "reinsert"}, NEW u, u = Last
    PROVE  Head(todo) = KeyOf(u + 1) /\ u + 1 = First + Len(allocated)
<1>1. /\ First \in Nat /\ Len(allocated) \in Nat
      /\ todo \in Seq(Int) /\ todo # << >>
      /\ \A i \in 1 .. Len(todo) :
            todo[i] = Wrap((First + Len(allocated) + i - 1) * BlockSize)
    BY NumberFacts DEF Numbers, Phase, Numbered, Inserting
<1>2. u = First - 1 + Len(allocated) /\ u + 1 = First + Len(allocated)
    BY <1>1 DEF Last
<1>3. 1 \in 1 .. Len(todo) /\ Head(todo) = todo[1]
    BY <1>1
<1>4. First + Len(allocated) + 1 - 1 = u + 1
    BY <1>1, <1>2
<1> QED
    BY <1>1, <1>2, <1>3, <1>4 DEF KeyOf

LEMMA MainInsert ==
    ASSUME NEW o, NEW u, NEW B, Main(o, u, B), ClaimsInv, Numbers, Insert \/ Reinsert
    PROVE  Main(o, u, B)'
<1> DEFINE n == Len(index)
           N == Here(index, o, u + 1)
<1>1. /\ ppc \in {"insert", "reinsert"} /\ ppc' = "tail"
      /\ key' = [key EXCEPT ![NextEntry] = Head(todo)]
      /\ UNCHANGED <<consumer, claimed, enqueued, blocks, index, indexTail, value,
                     tailBlock, allocated>>
    BY DEF Insert, Reinsert, others
<1>2. /\ Ring(o, u, B) /\ Allocated(u, B) /\ Placed(B) /\ TailBlock(u, B) /\ Top(o, u)
      /\ Counted(B) /\ Shape(index, o) /\ Nested(index, o) /\ Tails(o) /\ Keys(index, o)
      /\ Fresh /\ Live(index, o, u, B)
    BY DEF Main, Ring
<1>3. UNCHANGED <<content, emptied, pool, cpc, block>>
    BY <1>1 DEF blocks, consumer
<1>4. /\ First' = First /\ Last' = Last /\ Unlinked' = Unlinked
      /\ \A i : Number(u, i)' = Number(u, i)
    BY <1>1 DEF First, Last, Unlinked, Number
<1>5. u = Last /\ u \in Int
    BY <1>1, <1>2 DEF Top, Live
<1>6. /\ NextEntry = N /\ N \in Entries /\ u + 1 \in Int
      /\ \A j \in Int : j <= u /\ u - Cap(n) + 1 < j => Here(index, o, j) # N
      /\ \A j \in Int : Here(index, o, j) \in Entries
      /\ Here(index, o, u + 1 - Cap(n)) = N
      /\ Cap(n) \in Nat \ {0} /\ u + 1 - Cap(n) \in Int
    BY <1>5, NextIs
<1>7. Head(todo) = KeyOf(u + 1) /\ KeyOf(u + 1) \in 0 .. (IndexValues - 1)
      /\ KeyOf(u + 1) # InvalidBase
    BY <1>1, <1>5, <1>6, HeadIs, KeyFacts
<1> HIDE DEF N, n
<1>8. key' = [key EXCEPT ![N] = KeyOf(u + 1)]
      /\ key \in [Entries -> 0 .. (IndexValues - 1)]
    BY <1>1, <1>2, <1>6, <1>7 DEF Keys
<1>9. /\ key' \in [Entries -> 0 .. (IndexValues - 1)] /\ key'[N] = KeyOf(u + 1)
      /\ \A e \in Entries : e # N => key'[e] = key[e]
    BY <1>6, <1>7, <1>8
<1>10. \A k \in Int : B[k] # Null => Here(index, o, k) # N /\ u - Cap(n) + 1 < k
    <2>1. ASSUME NEW k \in Int, B[k] # Null PROVE Here(index, o, k) # N
        <3>1. k \in k .. u
            BY <1>2, <2>1 DEF Live
        <3>2. key[Here(index, o, k)] = KeyOf(k) /\ value[Here(index, o, k)] # Null
            BY <1>2, <2>1, <3>1 DEF Live
        <3>3. key[Here(index, o, k)] # InvalidBase
            BY <3>2, KeyFacts
        <3>4. CASE Insert
            BY <1>6, <3>2, <3>3, <3>4 DEF Insert
        <3>5. CASE Reinsert
            <4>1. key[N] = InvalidBase
                BY <1>6, <3>5, ReinsertIsFree DEF Reinsert
            <4> QED
                BY <3>3, <4>1
        <3> QED
            BY <3>4, <3>5
    <2>2. ASSUME NEW k \in Int, B[k] # Null PROVE u - Cap(n) + 1 < k
        <3>1. u - Cap(n) < k
            BY <1>2, <2>2 DEF Live, n
        <3>2. k # u + 1 - Cap(n)
            BY <1>6, <2>1, <2>2
        <3> QED
            BY <1>5, <1>6, <3>1, <3>2
    <2> QED
        BY <2>1, <2>2
<1>11. value[N] = Null
    <2>1. ASSUME value[N] # Null PROVE FALSE
        <3>1. PICK k \in Int : B[k] # Null /\ Here(index, o, k) = N
            BY <1>2, <1>6, <2>1 DEF Live
        <3> QED
            BY <1>10, <3>1
    <2> QED
        BY <2>1
<1>12. \A e \in Entries : key[e] # InvalidBase => key'[e] # InvalidBase
    BY <1>7, <1>9
<1>13. Shape(index, o)' /\ Nested(index, o)'
    BY <1>1, <1>2 DEF Shape, Nested
<1>14. Tails(o)'
    <2>1. ASSUME NEW h \in 1 .. (Len(index) - 1)
          PROVE  key'[index[h][indexTail[h]]] # InvalidBase
        <3>1. h \in 1 .. Len(index) /\ indexTail[h] \in 0 .. (Cap(h) - 1)
            BY <1>2 DEF Tails, Shape
        <3>2. index[h][indexTail[h]] \in Entries
            BY <1>2, <3>1, ShapeFacts
        <3> QED
            BY <1>2, <1>12, <2>1, <3>2 DEF Tails
    <2> QED
        BY <1>1, <1>2, <1>4, <2>1 DEF Tails
<1>15. Keys(index, o)'
    <2>1. ASSUME NEW h \in 1 .. Len(index), NEW s \in 0 .. (Cap(h) - 1),
                 key'[index[h][s]] # InvalidBase
          PROVE  \E k \in Int : key'[index[h][s]] = KeyOf(k) /\ Slot(o, h, k) = s
        <3>1. index[h][s] \in Entries /\ index[h][s] \in 1 .. Cap(h) /\ Cap(h) \in Nat
            BY <1>2, ShapeFacts
        <3>2. CASE index[h][s] # N
            <4>1. key'[index[h][s]] = key[index[h][s]]
                BY <1>9, <3>1, <3>2
            <4> QED
                BY <1>2, <2>1, <4>1 DEF Keys
        <3>3. CASE index[h][s] = N
            <4>1. PICK p \in Int : p = u + 1
                BY <1>6
            <4>2. Here(index, o, p) = N /\ N <= Cap(h)
                BY <3>1, <3>3, <4>1 DEF N
            <4>3. Entry(index, o, h, p) = N
                BY <1>2, <4>2 DEF Nested
            <4>4. s = Slot(o, h, p)
                <5>1. \A t \in 0 .. (Cap(h) - 1) :
                        index[h][t] = Entry(index, o, h, p) <=> t = Slot(o, h, p)
                    BY <1>2, <4>1, EntryFacts
                <5> QED
                    BY <3>3, <4>3, <5>1
            <4> QED
                BY <1>9, <3>3, <4>1, <4>4
        <3> QED
            BY <3>2, <3>3
    <2> QED
        BY <1>1, <1>9, <2>1 DEF Keys
<1>16. Fresh'
    <2>1. ASSUME NEW e \in Entries, e > Cap(Len(index)) PROVE key'[e] = InvalidBase
        <3>1. N \in 1 .. Cap(Len(index))
            <4>1. Len(index) \in 1 .. Len(index)
                BY <1>2 DEF Shape
            <4> QED
                BY <1>2, <1>6, <4>1, EntryFacts DEF N
        <3>2. e \in Int /\ Cap(Len(index)) \in Int
            BY <1>6 DEF Entries, n
        <3>3. e # N
            BY <2>1, <3>1, <3>2
        <3>4. e > Old
            <4>1. CASE ppc = "insert"
                BY <2>1, <4>1 DEF Old
            <4>2. CASE ppc = "reinsert"
                <5>1. Len(index) > 1 /\ Len(index) \in 1 .. MaxIndexes
                    BY <1>2, <4>2 DEF Fresh, Shape
                <5>2. Len(index) - 1 \in 1 .. MaxIndexes
                    <6>1. PICK m \in Nat : m = MaxIndexes
                        BY Sizes
                    <6>2. PICK k \in 1 .. m : k = Len(index)
                        BY <5>1, <6>1
                    <6>3. k - 1 \in 1 .. m /\ k - 1 = Len(index) - 1
                        BY <5>1, <6>2
                    <6> QED
                        BY <6>1, <6>3
                <5>3. Cap(Len(index) - 1) <= Cap(Len(index)) /\ Cap(Len(index) - 1) \in Int
                    BY <5>1, <5>2, Sizes
                <5> QED
                    BY <2>1, <3>2, <4>2, <5>3 DEF Old
            <4> QED
                BY <1>1, <4>1, <4>2
        <3> QED
            BY <1>2, <1>9, <3>3, <3>4 DEF Fresh
    <2> QED
        BY <1>1, <2>1 DEF Fresh, Old
<1>17. Live(index, o, u, B)'
    <2>1. ASSUME NEW k \in Int, B[k] # Null, NEW j \in k .. u
          PROVE  key'[Here(index, o, j)] = KeyOf(j)
        <3>1. j \in Int /\ j <= u /\ u - Cap(n) + 1 < j
            BY <1>5, <1>6, <1>10, <2>1
        <3>2. Here(index, o, j) # N /\ Here(index, o, j) \in Entries
            BY <1>6, <3>1
        <3>3. key[Here(index, o, j)] = KeyOf(j)
            BY <1>2, <2>1 DEF Live
        <3> QED
            BY <1>9, <3>2, <3>3
    <2> QED
        BY <1>1, <1>2, <2>1 DEF Live
<1>18. Top(o, u)'
    BY <1>1, <1>4, <1>5, <1>9, <1>11 DEF Top, N
<1>19. Ring(o, u, B)'
    BY <1>13, <1>14, <1>15, <1>16, <1>17, <1>18 DEF Ring
<1>20. Allocated(u, B)'
    BY <1>1, <1>2, <1>3, <1>4, AllocatedStay
<1>21. Placed(B)'
    BY <1>1, <1>2, <1>3, PlacedStay DEF Freeing
<1>22. TailBlock(u, B)'
    BY <1>1, <1>2, <1>4, TailBlockStay
<1>23. Holds' /\ Finds(o, B)' /\ Counted(B)' /\ Contents(B)'
    <2>1. emptied' \in [Blocks -> 0 .. BlockSize]
        BY <1>2, <1>3 DEF Counted
    <2>2. \A e : key[e] # InvalidBase => key'[e] # InvalidBase
        BY <1>7, <1>8
    <2> QED
        BY <1>1, <1>3, <2>1, <2>2, ConsumersStay
<1> QED
    BY <1>19, <1>20, <1>21, <1>22, <1>23 DEF Main

LEMMA MainInsertTail ==
    ASSUME NEW o, NEW u, NEW B, Main(o, u, B), ClaimsInv, Numbers, InsertTail
    PROVE  \E w : Main(o, w, B)'
<1> DEFINE n == Len(index)
<1>1. /\ ppc = "tail" /\ ppc' = "block"
      /\ indexTail' = [indexTail EXCEPT ![n] = NextSlot]
      /\ UNCHANGED <<consumer, claimed, enqueued, blocks, index, key, value,
                     tailBlock, allocated>>
    BY DEF InsertTail, others, Current
<1>2. /\ Ring(o, u, B) /\ Allocated(u, B) /\ Placed(B) /\ TailBlock(u, B) /\ Top(o, u)
      /\ Counted(B) /\ Shape(index, o) /\ Nested(index, o) /\ Tails(o) /\ Keys(index, o)
      /\ Fresh /\ Live(index, o, u, B)
    BY DEF Main, Ring
<1>3. UNCHANGED <<content, emptied, pool, cpc, block>>
    BY <1>1 DEF blocks, consumer
<1>4. u = Last /\ u \in Int
    BY <1>1, <1>2 DEF Top, Live
<1>5. PICK w \in Int : w = u + 1
    BY <1>4
<1>6. /\ NextSlot = Slot(o, n, w) /\ Here(index, o, w - Cap(n)) = Here(index, o, w)
      /\ Cap(n) \in Nat \ {0} /\ w - Cap(n) \in Int
    BY <1>4, <1>5, NextIs
<1>7. key[Here(index, o, w)] = KeyOf(w) /\ value[Here(index, o, w)] = Null
    BY <1>1, <1>2, <1>5 DEF Top
<1>8. First' = First /\ Unlinked' = Unlinked /\ First \in Nat /\ Len(allocated) \in Nat
      /\ Len(allocated') = Len(allocated)
    BY <1>1, NumberFacts DEF First, Unlinked, Numbers
<1>9. Last' = w /\ \A i : Number(w, i)' = Number(u, i)
    BY <1>1, <1>4, <1>5, <1>8 DEF Last, Number
<1>10. n \in 1 .. n /\ n \in Nat
    BY <1>2, ShapeFacts DEF Shape
<1> HIDE DEF n
<1>11. Shape(index, o)' /\ Nested(index, o)' /\ Keys(index, o)' /\ Fresh'
    <2>1. Shape(index, o)' /\ Nested(index, o)' /\ Keys(index, o)'
        BY <1>1, <1>2, IndexStays
    <2> QED
        BY <1>1, <1>2, <2>1 DEF Fresh, Old
<1>12. Tails(o)'
    <2>1. /\ indexTail \in Seq(Int) /\ Len(indexTail) = n
          /\ \A h \in 1 .. (n - 1) : /\ indexTail[h] \in 0 .. (Cap(h) - 1)
                                     /\ key[index[h][indexTail[h]]] # InvalidBase
        BY <1>2 DEF Tails, n
    <2>2. Slot(o, n, w) \in Int
        <3>1. n \in 1 .. MaxIndexes /\ o \in [1 .. MaxIndexes -> Int]
            BY <1>2 DEF Shape, n
        <3> QED
            BY <3>1, SlotFacts
    <2>3. indexTail' = [indexTail EXCEPT ![n] = Slot(o, n, w)]
        BY <1>1, <1>6
    <2>4. /\ indexTail' \in Seq(Int) /\ Len(indexTail') = n /\ indexTail'[n] = Slot(o, n, w)
          /\ \A h \in 1 .. (n - 1) : indexTail'[h] = indexTail[h]
        BY <1>10, <2>1, <2>2, <2>3
    <2>5. n' = n
        BY <1>1 DEF n
    <2> QED
        BY <1>1, <1>9, <2>1, <2>4, <2>5 DEF Tails, n
<1>13. Live(index, o, w, B)'
    <2>1. ASSUME NEW k \in Int, B[k] # Null
          PROVE  /\ w - Cap(n) < k /\ k <= w /\ 0 <= k
                 /\ value[Here(index, o, k)] = B[k]
                 /\ \A j \in k .. w : key[Here(index, o, j)] = KeyOf(j)
        <3>1. /\ u - Cap(n) < k /\ k <= u /\ 0 <= k
              /\ value[Here(index, o, k)] = B[k]
              /\ \A j \in k .. u : key[Here(index, o, j)] = KeyOf(j)
            BY <1>2, <2>1 DEF Live, n
        <3>2. k # w - Cap(n)
            BY <1>6, <1>7, <2>1, <3>1
        <3>3. w - Cap(n) < k /\ k <= w
            BY <1>4, <1>5, <1>6, <3>1, <3>2
        <3>4. ASSUME NEW j \in k .. w PROVE key[Here(index, o, j)] = KeyOf(j)
            <4>1. j = w \/ j \in k .. u
                BY <1>4, <1>5
            <4> QED
                BY <1>7, <3>1, <4>1
        <3> QED
            BY <3>1, <3>3, <3>4
    <2> QED
        BY <1>1, <1>2, <1>5, <2>1 DEF Live, n
<1>14. Top(o, w)'
    BY <1>1, <1>5, <1>7, <1>9 DEF Top
<1>15. Ring(o, w, B)'
    BY <1>11, <1>12, <1>13, <1>14 DEF Ring
<1>16. Allocated(w, B)'
    BY <1>1, <1>2, <1>3, <1>8, <1>9, AllocatedStay
<1>17. Placed(B)'
    BY <1>1, <1>2, <1>3, PlacedStay DEF Freeing
<1>18. TailBlock(w, B)'
    BY <1>1, <1>2, <1>8, TailBlockStay
<1>19. Holds' /\ Finds(o, B)' /\ Counted(B)' /\ Contents(B)'
    <2>1. emptied' \in [Blocks -> 0 .. BlockSize]
        BY <1>2, <1>3 DEF Counted
    <2> QED
        BY <1>1, <1>3, <2>1, ConsumersStay
<1> QED
    BY <1>15, <1>16, <1>17, <1>18, <1>19 DEF Main

LEMMA MainGetBlock ==
    ASSUME NEW o, NEW u, NEW B, Main(o, u, B), ClaimsInv, Numbers, GetBlock
    PROVE  Main(o, u, B)'
<1>1. PICK b \in pool :
        /\ pool' = pool \ {b}
        /\ emptied' = [emptied EXCEPT ![b] = 0]
        /\ allocated' = Append(allocated, [base |-> Head(todo), block |-> b])
    BY DEF GetBlock
<1>2. /\ ppc = "block" /\ ppc' = "link"
      /\ UNCHANGED <<consumer, claimed, enqueued, content, index, indexTail, key, value,
                     tailBlock>>
    BY DEF GetBlock, others, blockIndex
<1>3. /\ Ring(o, u, B) /\ Allocated(u, B) /\ Placed(B) /\ TailBlock(u, B) /\ Top(o, u)
      /\ Counted(B) /\ Live(index, o, u, B)
    BY DEF Main, Ring
<1>4. UNCHANGED <<cpc, block>> /\ b \in Blocks /\ b # Null
    BY <1>1, <1>2, <1>3, BlocksAssumption DEF consumer, Placed
<1>5. u = Last /\ u \in Int
    BY <1>2, <1>3 DEF Top, Live
<1>6. PICK l \in Nat : l = Len(allocated)
    BY NumberFacts DEF Numbers
<1>7. /\ Len(allocated') = l + 1
      /\ allocated'[l + 1] = [base |-> Head(todo), block |-> b]
      /\ \A i \in 1 .. l : allocated'[i] = allocated[i]
    BY <1>1, <1>6, AnyAppend DEF Numbers, Phase
<1>8. First' = First /\ First \in Nat /\ Unlinked = {} /\ Unlinked' = {l + 1}
    BY <1>2, <1>7, NumberFacts DEF First, Unlinked, Numbers
<1>9. u = First + l /\ Last' = u
    BY <1>2, <1>5, <1>6, <1>7, <1>8 DEF Last
<1>10. /\ \A i \in Int : Number(u, i) = u - 1 - l + i /\ Number(u, i)' = u - 1 - l + i
    BY <1>2, <1>5, <1>6, <1>7 DEF Number
<1>11. Head(todo) = KeyOf(u)
    <2>1. /\ todo \in Seq(Int) /\ todo # << >>
          /\ \A i \in 1 .. Len(todo) : todo[i] = Wrap((First + l + i - 1) * BlockSize)
        BY <1>2, <1>6 DEF Numbers, Phase, Numbered, Inserting
    <2>2. 1 \in 1 .. Len(todo) /\ Head(todo) = todo[1]
        BY <2>1
    <2>3. First + l + 1 - 1 = u
        BY <1>8, <1>9
    <2> QED
        BY <2>1, <2>2, <2>3 DEF KeyOf
<1>12. \A k \in Int : B[k] # b
    BY <1>1, <1>3 DEF Placed
<1>13. \A e \in Blocks : e # b => emptied'[e] = emptied[e]
    BY <1>1, <1>3 DEF Counted
<1>14. Ring(o, u, B)'
    <2>1. Last' = Last
        BY <1>5, <1>9
    <2>2. Top(o, u)'
        BY <1>2, <1>3, <1>5, <1>9 DEF Top
    <2> QED
        BY <1>2, <1>3, <2>1, <2>2, RingStay
<1>15. Allocated(u, B)'
    <2>1. ASSUME NEW i \in 1 .. (l + 1)
          PROVE  /\ allocated'[i].block \in Blocks /\ emptied'[allocated'[i].block] = 0
                 /\ allocated'[i].base = KeyOf(Number(u, i)')
                 /\ i \notin Unlinked' => B[Number(u, i)'] = allocated'[i].block
        <3>1. CASE i = l + 1
            <4>1. Number(u, i)' = u
                BY <1>5, <1>6, <1>10, <3>1
            <4>2. allocated'[i].block = b /\ allocated'[i].base = KeyOf(u)
                BY <1>7, <1>11, <3>1
            <4>3. emptied'[b] = 0
                BY <1>1, <1>3, <1>4 DEF Counted
            <4> QED
                BY <1>4, <1>8, <3>1, <4>1, <4>2, <4>3
        <3>2. CASE i \in 1 .. l
            <4>1. /\ allocated[i].block \in Blocks /\ emptied[allocated[i].block] = 0
                  /\ allocated[i].base = KeyOf(Number(u, i))
                  /\ B[Number(u, i)] = allocated[i].block
                BY <1>3, <1>6, <1>8, <3>2 DEF Allocated
            <4>2. Number(u, i)' = Number(u, i) /\ Number(u, i) \in Int
                <5>1. i \in Int /\ u - 1 - l + i \in Int
                    BY <1>5, <1>6, <3>2
                <5> QED
                    BY <1>10, <5>1
            <4>3. allocated[i].block # b
                BY <1>12, <4>1, <4>2
            <4> QED
                BY <1>7, <1>13, <3>2, <4>1, <4>2, <4>3
        <3> QED
            BY <1>6, <3>1, <3>2
    <2>2. ASSUME NEW k \in Int, B[k] # Null, k >= First
          PROVE  \E i \in 1 .. (l + 1) : k = Number(u, i)'
        <3>1. PICK i \in 1 .. l : k = Number(u, i)
            BY <1>3, <1>6, <2>2 DEF Allocated
        <3>2. Number(u, i)' = k /\ i \in 1 .. (l + 1)
            BY <1>6, <1>10, <3>1
        <3> QED
            BY <3>2
    <2> QED
        BY <1>7, <1>8, <2>1, <2>2 DEF Allocated
<1>16. Placed(B)'
    <2>1. Newest' = b
        BY <1>6, <1>7 DEF Newest
    <2>2. Freeing' = Freeing /\ \A c \in Freeing : block'[c] = block[c] /\ block[c] # b
        BY <1>1, <1>3, <1>4 DEF Freeing, Placed
    <2> QED
        BY <1>1, <1>2, <1>3, <1>12, <2>1, <2>2 DEF Placed
<1>17. TailBlock(u, B)'
    BY <1>2, <1>3, <1>8, TailBlockStay
<1>18. Holds' /\ Finds(o, B)' /\ Counted(B)' /\ Contents(B)'
    <2>1. emptied' \in [Blocks -> 0 .. BlockSize]
        <3>1. BlockSize \in Nat
            BY NumberFacts DEF Numbers
        <3>2. 0 \in 0 .. BlockSize /\ emptied \in [Blocks -> 0 .. BlockSize]
            BY <1>3, <3>1 DEF Counted
        <3>3. [emptied EXCEPT ![b] = 0] \in [Blocks -> 0 .. BlockSize]
            BY <3>2
        <3> QED
            BY <1>1, <3>3
    <2>2. \A k \in Int : B[k] # Null => emptied'[B[k]] = emptied[B[k]]
        BY <1>3, <1>12, <1>13 DEF Live
    <2> QED
        BY <1>2, <2>1, <2>2, ConsumersStay
<1> QED
    BY <1>14, <1>15, <1>16, <1>17, <1>18 DEF Main

(* rewind_block_index_tail: the last entry is that of the block before. *)
LEMMA TailsRewind ==
    ASSUME NEW o, Shape(index, o), Tails(o), Last \in Int, RewindTail,
           UNCHANGED <<index, key>>, Last' = Last - 1
    PROVE  Tails(o)' /\ LastEntry = Here(index, o, Last)
<1> DEFINE n == Len(index)
<1>1. n \in 1 .. n /\ n \in Nat /\ n \in 1 .. MaxIndexes /\ o \in [1 .. MaxIndexes -> Int]
    <2>1. n \in 1 .. n
        BY DEF Shape
    <2> QED
        BY <2>1, ShapeFacts DEF Shape
<1>2. Capacity(n) = Cap(n)
    BY <1>1, ShapeFacts DEF Capacity
<1>3. /\ indexTail \in Seq(Int) /\ Len(indexTail) = n
      /\ indexTail[n] = Slot(o, n, Last)
      /\ \A h \in 1 .. (n - 1) : /\ indexTail[h] \in 0 .. (Cap(h) - 1)
                                 /\ key[index[h][indexTail[h]]] # InvalidBase
    BY DEF Tails
<1>4. indexTail' = [indexTail EXCEPT ![n] = (indexTail[n] - 1) % Cap(n)]
    BY <1>2 DEF RewindTail, Current
<1>5. (Slot(o, n, Last) - 1) % Cap(n) = Slot(o, n, Last - 1)
    BY <1>1, SlotFacts
<1>6. PICK w \in Int : w = Last - 1
    OBVIOUS
<1>7. Slot(o, n, w) \in 0 .. (Cap(n) - 1)
    BY <1>1, SlotFacts
<1>8. PICK s \in Int : s = Slot(o, n, w)
    BY <1>7
<1>9. LastEntry = Here(index, o, Last)
    BY <1>3 DEF LastEntry, Current, Here, Entry
<1> HIDE DEF n
<1>10. indexTail' = [indexTail EXCEPT ![n] = s]
    BY <1>3, <1>4, <1>5, <1>6, <1>8
<1>11. /\ indexTail' \in Seq(Int) /\ Len(indexTail') = n /\ indexTail'[n] = s
       /\ \A h \in 1 .. (n - 1) : indexTail'[h] = indexTail[h]
    BY <1>1, <1>3, <1>8, <1>10
<1>12. n' = n
    BY DEF n
<1>13. Tails(o)'
    BY <1>3, <1>6, <1>8, <1>11, <1>12 DEF Tails, n
<1> QED
    BY <1>9, <1>13

(* DropEntry: the value of the last entry is already none. *)
LEMMA RingDrop ==
    ASSUME NEW o, NEW u \in Int, NEW B, Ring(o, u, B), ppc \in {"block", "link"}, u = Last,
           DropEntry, NEW w \in Int, w = u - 1, Last' = w,
           ppc' \notin {"reinsert", "tail", "block", "link"},
           ppc' = "undo" => \A j \in First' .. w : key[Here(index, o, j)] = KeyOf(j)
    PROVE  /\ Ring(o, w, B)' /\ UNCHANGED <<index, key, value>>
           /\ \A k \in Int : B[k] # Null => k < u
<1>1. /\ Shape(index, o) /\ Nested(index, o) /\ Tails(o) /\ Keys(index, o)
      /\ Fresh /\ Live(index, o, u, B) /\ Top(o, u)
    BY DEF Ring
<1>2. UNCHANGED <<index, key>> /\ RewindTail /\ value' = [value EXCEPT ![LastEntry] = Null]
    BY DEF DropEntry
<1>3. Tails(o)' /\ LastEntry = Here(index, o, u)
    BY <1>1, <1>2, TailsRewind
<1>4. value[Here(index, o, u)] = Null /\ value \in [Entries -> Blocks \union {Null}]
    BY <1>1 DEF Top, Live
<1>5. value' = value
    BY <1>2, <1>3, <1>4
<1>6. \A k \in Int : B[k] # Null => k < u
    <2>1. ASSUME NEW k \in Int, B[k] # Null PROVE k < u
        <3>1. k <= u /\ value[Here(index, o, k)] # Null
            BY <1>1, <2>1 DEF Live
        <3>2. k # u
            BY <1>4, <3>1
        <3> QED
            BY <3>1, <3>2
    <2> QED
        BY <2>1
<1>7. Shape(index, o)' /\ Nested(index, o)' /\ Keys(index, o)' /\ Fresh'
    <2>1. Shape(index, o)' /\ Nested(index, o)' /\ Keys(index, o)'
        BY <1>1, <1>2, IndexStays
    <2>2. ppc # "reinsert" /\ ppc' # "reinsert"
        OBVIOUS
    <2>3. Old' = Old
        BY <1>2, <2>2 DEF Old
    <2>4. Fresh'
        BY <1>1, <1>2, <2>2, <2>3 DEF Fresh
    <2> QED
        BY <2>1, <2>4
<1>8. Live(index, o, w, B)'
    <2>1. ASSUME NEW k \in Int, B[k] # Null
          PROVE  /\ w - Cap(Len(index)) < k /\ k <= w /\ 0 <= k
                 /\ value[Here(index, o, k)] = B[k]
                 /\ \A j \in k .. w : key[Here(index, o, j)] = KeyOf(j)
        <3>1. /\ u - Cap(Len(index)) < k /\ 0 <= k
              /\ value[Here(index, o, k)] = B[k]
              /\ \A j \in k .. u : key[Here(index, o, j)] = KeyOf(j)
            BY <1>1, <2>1 DEF Live
        <3>2. Cap(Len(index)) \in Int
            <4>1. Len(index) \in 1 .. Len(index)
                BY <1>1 DEF Shape
            <4> QED
                BY <1>1, <4>1, ShapeFacts
        <3>3. w - Cap(Len(index)) < k /\ k <= w
            BY <1>6, <2>1, <3>1, <3>2
        <3>4. \A j \in k .. w : j \in k .. u
            OBVIOUS
        <3> QED
            BY <3>1, <3>3, <3>4
    <2> QED
        BY <1>1, <1>2, <1>5, <2>1 DEF Live
<1>9. Top(o, w)'
    BY <1>2 DEF Top
<1> QED
    BY <1>2, <1>3, <1>5, <1>6, <1>7, <1>8, <1>9 DEF Ring

LEMMA MainGetBlockFails ==
    ASSUME NEW o, NEW u, NEW B, Main(o, u, B), ClaimsInv, Numbers, GetBlockFails
    PROVE  \E w : Main(o, w, B)'
<1>1. /\ ppc = "block" /\ ppc' \in {"idle", "undo"} /\ DropEntry
      /\ ppc' = "undo" => allocated # << >>
      /\ UNCHANGED <<consumer, claimed, enqueued, blocks, tailBlock, allocated>>
    BY DEF GetBlockFails, Fail, others
<1>2. /\ Ring(o, u, B) /\ Allocated(u, B) /\ Placed(B) /\ TailBlock(u, B) /\ Top(o, u)
      /\ Counted(B) /\ Live(index, o, u, B)
    BY DEF Main, Ring
<1>3. UNCHANGED <<content, emptied, pool, cpc, block>>
    BY <1>1 DEF blocks, consumer
<1>4. u = Last /\ u \in Int
    BY <1>1, <1>2 DEF Top, Live
<1>5. PICK w \in Int : w = u - 1
    BY <1>4
<1>6. PICK l \in Nat : l = Len(allocated)
    BY NumberFacts DEF Numbers
<1>7. /\ First' = First /\ First \in Nat /\ Unlinked = {} /\ Unlinked' = {}
      /\ Len(allocated') = l
    BY <1>1, <1>6, NumberFacts DEF First, Unlinked, Numbers
<1>8. u = First + l /\ Last' = w
    BY <1>1, <1>4, <1>5, <1>6, <1>7 DEF Last
<1>9. \A i : Number(w, i)' = Number(u, i)
    BY <1>1, <1>5, <1>6, <1>7 DEF Number
<1>10. ASSUME ppc' = "undo" PROVE \A j \in First .. w : key[Here(index, o, j)] = KeyOf(j)
    <2>1. l > 0
        BY <1>1, <1>6, <1>10, AnySequenceFacts DEF Numbers, Phase
    <2>2. 1 \in 1 .. Len(allocated) /\ Number(u, 1) = First /\ First \in Int
        BY <1>1, <1>4, <1>6, <1>7, <1>8, <2>1 DEF Number
    <2>3. B[First] # Null
        <3>1. B[Number(u, 1)] = allocated[1].block /\ allocated[1].block \in Blocks
            BY <1>2, <1>7, <2>2 DEF Allocated
        <3> QED
            BY <2>2, <3>1, BlocksAssumption
    <2>4. \A j \in First .. u : key[Here(index, o, j)] = KeyOf(j)
        BY <1>2, <2>2, <2>3 DEF Live
    <2>5. \A j \in First .. w : j \in First .. u
        BY <1>4, <1>5, <2>2
    <2> QED
        BY <2>4, <2>5
<1>11. Ring(o, w, B)' /\ UNCHANGED <<index, key, value>>
    <2>1. ppc \in {"block", "link"} /\ ppc' \notin {"reinsert", "tail", "block", "link"}
        BY <1>1
    <2>2. ppc' = "undo" => \A j \in First' .. w : key[Here(index, o, j)] = KeyOf(j)
        BY <1>7, <1>10
    <2> QED
        BY <1>1, <1>2, <1>4, <1>5, <1>8, <2>1, <2>2, RingDrop
<1>12. Allocated(w, B)'
    <2>1. Unlinked' = Unlinked
        BY <1>7
    <2> QED
        BY <1>1, <1>2, <1>3, <1>7, <1>9, <2>1, AllocatedStay
<1>13. Placed(B)'
    <2>1. Freeing' = Freeing /\ (ppc' = "link" <=> ppc = "link")
        BY <1>1, <1>3 DEF Freeing
    <2> QED
        BY <1>1, <1>2, <1>3, <2>1, PlacedStay
<1>14. ppc # "publish" /\ ppc' # "publish"
    BY <1>1
<1>15. TailBlock(w, B)'
    BY <1>1, <1>2, <1>7, <1>14, TailBlockStay
<1>16. Holds' /\ Finds(o, B)' /\ Counted(B)' /\ Contents(B)'
    <2>1. emptied' \in [Blocks -> 0 .. BlockSize]
        BY <1>2, <1>3 DEF Counted
    <2> QED
        BY <1>1, <1>3, <1>11, <1>14, <2>1, ConsumersStay
<1> QED
    BY <1>11, <1>12, <1>13, <1>15, <1>16 DEF Main

LEMMA MainConstructThrows ==
    ASSUME NEW o, NEW u, NEW B, Main(o, u, B), ClaimsInv, Numbers, ConstructThrows
    PROVE  \E w : Main(o, w, B)'
<1>1. /\ ppc = "link" /\ ppc' = "idle" /\ DropEntry /\ allocated' = << >> /\ call.single
      /\ pool' = pool \union {Newest}
      /\ UNCHANGED <<consumer, claimed, enqueued, content, emptied, tailBlock>>
    BY DEF ConstructThrows, others
<1>2. /\ Ring(o, u, B) /\ Allocated(u, B) /\ Placed(B) /\ TailBlock(u, B) /\ Top(o, u)
      /\ Counted(B) /\ Live(index, o, u, B)
    BY DEF Main, Ring
<1>3. UNCHANGED <<cpc, block>>
    BY <1>1 DEF consumer
<1>4. u = Last /\ u \in Int
    BY <1>1, <1>2 DEF Top, Live
<1>5. PICK w \in Int : w = u - 1
    BY <1>4
<1>6. First' = First /\ First \in Nat
    BY <1>1, NumberFacts DEF First, Numbers
<1>7. Len(allocated) = 1
    <2>1. /\ Len(allocated) \in Nat \ {0} /\ Len(todo) \in Nat /\ enqueued \in Nat
          /\ call.count = 1 /\ First + Len(allocated) + Len(todo) = Filled(enqueued + 1)
        <3>1. call.count = 1 /\ First + Len(allocated) + Len(todo) = Filled(enqueued + call.count)
            BY <1>1 DEF Numbers, Numbered, Working
        <3>2. Len(allocated) # 0
            BY <1>1, AnySequenceFacts DEF Numbers, Phase
        <3> QED
            BY <3>1, <3>2, NumberFacts DEF Numbers
    <2>2. Filled(enqueued + 1) <= First + 1
        BY <2>1, FilledMore DEF First
    <2>3. PICK l \in Nat \ {0}, t \in Nat, f \in Nat :
                l = Len(allocated) /\ t = Len(todo) /\ f = First
        BY <1>6, <2>1
    <2>4. f + l + t <= f + 1
        BY <2>1, <2>2, <2>3
    <2>5. l = 1
        BY <2>3, <2>4
    <2> QED
        BY <2>3, <2>5
<1>8. u = First /\ Last' = w /\ \A i \in Int : Number(u, i) = u - 1 + i
    <2>1. Len(allocated') = 0
        BY <1>1
    <2> QED
        BY <1>1, <1>4, <1>5, <1>6, <1>7, <2>1 DEF Last, Number
<1>9. /\ Ring(o, w, B)' /\ UNCHANGED <<index, key, value>>
      /\ \A k \in Int : B[k] # Null => k < u
    <2>1. ppc \in {"block", "link"} /\ ppc' \notin {"reinsert", "tail", "block", "link", "undo"}
        BY <1>1
    <2> QED
        BY <1>1, <1>2, <1>4, <1>5, <1>8, <2>1, RingDrop
<1>10. Newest \in Blocks
    <2>1. 1 \in 1 .. Len(allocated)
        BY <1>7
    <2> QED
        BY <1>2, <1>7, <2>1 DEF Allocated, Newest
<1>11. Allocated(w, B)'
    <2>1. \A k \in Int : ~(B[k] # Null /\ k >= First')
        BY <1>4, <1>6, <1>8, <1>9
    <2>2. 1 .. Len(allocated') = {}
        BY <1>1
    <2> QED
        BY <2>1, <2>2 DEF Allocated
<1>12. Placed(B)'
    <2>1. Freeing' = Freeing /\ \A c \in Freeing : block'[c] = block[c]
        BY <1>3 DEF Freeing
    <2>2. pool' \subseteq Blocks
        BY <1>1, <1>2, <1>10 DEF Placed
    <2>3. ASSUME NEW c \in Freeing
          PROVE  /\ block[c] \in Blocks \ pool'
                 /\ \A k \in Int : B[k] # block[c]
                 /\ \A d \in Freeing : block[d] = block[c] => d = c
        BY <1>1, <1>2 DEF Placed
    <2>4. \A b \in Blocks :
            \/ b \in pool'
            \/ \E k \in Int : B[k] = b
            \/ \E c \in Freeing : block[c] = b
        BY <1>1, <1>2 DEF Placed
    <2>5. \A k \in Int : B[k] \notin pool'
        BY <1>1, <1>2 DEF Placed
    <2>6. \A j, k \in Int : B[j] = B[k] /\ B[j] # Null => j = k
        BY <1>2 DEF Placed
    <2> QED
        BY <1>1, <2>1, <2>2, <2>3, <2>4, <2>5, <2>6 DEF Placed
<1>13. ppc # "publish" /\ ppc' # "publish"
    BY <1>1
<1>14. TailBlock(w, B)'
    BY <1>1, <1>2, <1>6, <1>13, TailBlockStay
<1>15. Holds' /\ Finds(o, B)' /\ Counted(B)' /\ Contents(B)'
    <2>1. emptied' \in [Blocks -> 0 .. BlockSize]
        BY <1>1, <1>2 DEF Counted
    <2> QED
        BY <1>1, <1>9, <1>13, <2>1, ConsumersStay
<1> QED
    BY <1>9, <1>11, <1>12, <1>14, <1>15 DEF Main

-----------------------------------------------------------------------------
(* new_block_index: a block index of twice the size *)

(* The slot of block k in an index of 2 * c slots in which block u has slot
   c - 1, and the block with that slot in an index of c slots *)
NewPlace(s, c, u, k) == s = Mod(k + (c - 1 - u), 2 * c)

LEMMA SlotOfNew ==
    ASSUME NEW c \in Nat \ {0}, NEW u \in Int, NEW k \in Int, NEW s,
           NewPlace(s, c, u, k)
    PROVE  /\ s \in 0 .. (2 * c - 1) /\ Mod(u + 1 + s, c) = Mod(k, c)
           /\ u - c < k /\ k <= u => s = k + (c - 1 - u)
<1>0. PICK x, n : x = k + (c - 1 - u) /\ n = 2 * c
    OBVIOUS
<1>1. n \in Nat \ {0} /\ x \in Int /\ s = Mod(x, n) /\ 2 \in Nat \ {0}
    BY <1>0 DEF NewPlace
<1>2. s \in 0 .. (n - 1)
    BY <1>1, Division DEF Mod
<1>3. Mod(s, n) = Mod(x, n)
    BY <1>1, RemainderTwice
<1>4. s \in Int
    BY <1>2
<1>5. Mod(s, c) = Mod(x, c)
    <2>1. Mod(s, 2 * c) = Mod(x, 2 * c)
        BY <1>0, <1>3
    <2> QED
        BY <1>1, <1>4, <2>1, RemainderOfFactor
<1>6. PICK y \in Int : y = u + 1 + s
    BY <1>4
<1>7. PICK v \in Int : v = u + 1
    OBVIOUS
<1>8. PICK z \in Int : z = k + c
    OBVIOUS
<1>9. Added(y, s, v) /\ Added(z, x, v)
    BY <1>0, <1>4, <1>6, <1>7, <1>8 DEF Added
<1>10. Mod(y, c) = Mod(z, c)
    BY <1>1, <1>4, <1>5, <1>6, <1>7, <1>8, <1>9, RemainderPlus
<1>11. Mod(z, c) = Mod(k, c)
    <2>1. Divided(z, c, 1, k) /\ 1 \in Int
        BY <1>8 DEF Divided
    <2> QED
        BY <1>8, <2>1, SameRemainder
<1>12. ASSUME u - c < k, k <= u PROVE s = x
    <2>1. x \in 0 .. (n - 1)
        BY <1>0, <1>12
    <2> QED
        BY <1>1, <2>1, SmallRemainder
<1> QED
    BY <1>0, <1>2, <1>6, <1>10, <1>11, <1>12

(* The new index has the entries of the old one, from the oldest to the last,
   and then entries that no index had: n is the number of indexes, c the size
   of the last, and p are the places of block 0 afterwards. *)
Grown(o, u, n, c, p) ==
    /\ n = Len(index) /\ c = Cap(n)
    /\ n \in Nat \ {0} /\ c \in Nat \ {0} /\ u \in Int
    /\ AnySequence(index') /\ Len(index') = n + 1 /\ n + 1 \in 1 .. MaxIndexes
    /\ Cap(n + 1) = 2 * c /\ p \in [1 .. MaxIndexes -> Int]
    /\ \A h \in 1 .. n :
        /\ index'[h] = index[h] /\ h \in 1 .. MaxIndexes
        /\ \A k : Slot(p, h, k) = Slot(o, h, k)
        /\ \A k : Entry(index', p, h, k) = Entry(index, o, h, k)
    /\ DOMAIN index'[n + 1] = 0 .. (2 * c - 1)
    /\ index'[n + 1] = [i \in 0 .. (2 * c - 1) |-> index'[n + 1][i]]
    /\ \A i \in 0 .. (2 * c - 1) :
        index'[n + 1][i] = IF i < c THEN Here(index, o, u + 1 + i) ELSE i + 1
    /\ indexTail' = Append(indexTail, c - 1)
    /\ \A k : Slot(p, n + 1, k) = Mod(k + (c - 1 - u), 2 * c)

LEMMA NewIndexIs ==
    ASSUME NEW o, NEW u, NEW B, Main(o, u, B), NewIndex
    PROVE  \E n, c, p : Grown(o, u, n, c, p)
<1>0. PICK n, c, p : n = Len(index) /\ c = Cap(n) /\ p = [o EXCEPT ![n + 1] = c - 1 - u]
    OBVIOUS
<1>1. /\ index # << >> /\ n < MaxIndexes /\ Shape(index, o) /\ Tails(o) /\ u \in Int
      /\ ppc = "insert" /\ u = Last
    BY <1>0 DEF NewIndex, Main, Ring, Live, Top, Current
<1>2. /\ n \in 1 .. n /\ n \in Nat \ {0} /\ c \in Nat \ {0} /\ Capacity(n) = c
      /\ n \in 1 .. MaxIndexes /\ o \in [1 .. MaxIndexes -> Int]
    <2>1. n \in 1 .. n
        BY <1>0, <1>1 DEF Shape
    <2> QED
        BY <1>0, <1>1, <2>1, ShapeFacts DEF Shape, Capacity
<1>3. n + 1 \in 1 .. MaxIndexes
    <2>1. PICK m \in Nat : m = MaxIndexes
        BY Sizes
    <2> QED
        BY <1>1, <1>2, <2>1
<1>4. Cap(n + 1) = 2 * c
    BY <1>0, <1>2, CapTwice
<1>5. indexTail[n] = Slot(o, n, u)
    BY <1>0, <1>1 DEF Tails
<1> DEFINE N == [i \in 0 .. (2 * c - 1) |->
                    IF i < c THEN index[n][(indexTail[n] + 1 + i) % c] ELSE i + 1]
<1>6. index' = Append(index, N) /\ indexTail' = Append(indexTail, c - 1)
    BY <1>0, <1>2 DEF NewIndex, Current
<1>7. ASSUME NEW i \in 0 .. (2 * c - 1), i < c
      PROVE  index[n][(indexTail[n] + 1 + i) % c] = Here(index, o, u + 1 + i)
    <2>1. PICK d \in Int : d = 1 + i
        BY <1>2
    <2>2. PICK s \in Int : s = Slot(o, n, u)
        <3>1. Slot(o, n, u) \in 0 .. (Cap(n) - 1)
            BY <1>1, <1>2, SlotFacts
        <3> QED
            BY <3>1
    <2>3. (s + d) % c = Slot(o, n, u + d)
        <3>1. \A e \in Int : (Slot(o, n, u) + e) % Cap(n) = Slot(o, n, u + e)
            BY <1>1, <1>2, SlotFacts
        <3>2. (Slot(o, n, u) + d) % Cap(n) = Slot(o, n, u + d)
            BY <2>1, <3>1
        <3> QED
            BY <1>0, <2>2, <3>2
    <2>4. s + d = indexTail[n] + 1 + i /\ u + d = u + 1 + i
        BY <1>1, <1>2, <1>5, <2>1, <2>2
    <2> QED
        BY <1>0, <2>3, <2>4 DEF Here, Entry
<1>8. \A i \in 0 .. (2 * c - 1) :
            N[i] = IF i < c THEN Here(index, o, u + 1 + i) ELSE i + 1
    BY <1>7
<1> HIDE DEF N
<1>9. /\ AnySequence(index') /\ Len(index') = n + 1 /\ index'[n + 1] = N
      /\ \A h \in 1 .. n : index'[h] = index[h]
    BY <1>0, <1>1, <1>6, AnyAppend DEF Shape
<1>10. p \in [1 .. MaxIndexes -> Int] /\ p[n + 1] = c - 1 - u
    BY <1>0, <1>1, <1>2, <1>3
<1>11. ASSUME NEW h \in 1 .. n
       PROVE  /\ h \in 1 .. MaxIndexes
              /\ \A k : Slot(p, h, k) = Slot(o, h, k)
              /\ \A k : Entry(index', p, h, k) = Entry(index, o, h, k)
    <2>1. h \in 1 .. MaxIndexes
        BY <1>0, <1>1, ShapeFacts
    <2>2. h # n + 1
        BY <1>2
    <2>3. p[h] = o[h]
        BY <1>0, <1>2, <2>1, <2>2
    <2> QED
        BY <1>9, <2>1, <2>3 DEF Slot, Entry
<1>12. \A k : Slot(p, n + 1, k) = Mod(k + (c - 1 - u), 2 * c)
    BY <1>4, <1>10 DEF Slot, Mod
<1>13. DOMAIN N = 0 .. (2 * c - 1) /\ N = [i \in 0 .. (2 * c - 1) |-> N[i]]
    BY DEF N
<1>14. Grown(o, u, n, c, p)
    BY <1>0, <1>1, <1>2, <1>3, <1>4, <1>6, <1>8, <1>9, <1>10, <1>11, <1>12, <1>13 DEF Grown
<1> QED
    BY <1>14

(* What that means for the entry of a block: in the slots taken over it is the
   one that it was, and the blocks up to the last one are in these slots. *)
LEMMA NewEntries ==
    ASSUME NEW o, NEW u, NEW n, NEW c, NEW p, Grown(o, u, n, c, p), Shape(index, o),
           NEW k \in Int
    PROVE  /\ Slot(p, n + 1, k) \in 0 .. (2 * c - 1)
           /\ Slot(p, n + 1, k) < c => Here(index', p, k) = Here(index, o, k)
           /\ Slot(p, n + 1, k) >= c => Here(index', p, k) = Slot(p, n + 1, k) + 1
           /\ u - c < k /\ k <= u => /\ Slot(p, n + 1, k) = k + (c - 1 - u)
                                     /\ Slot(p, n + 1, k) < c
                                     /\ Here(index', p, k) = Here(index, o, k)
<1>1. /\ n \in Nat \ {0} /\ c \in Nat \ {0} /\ u \in Int /\ Len(index') = n + 1
      /\ n + 1 \in 1 .. MaxIndexes /\ Cap(n + 1) = 2 * c /\ p \in [1 .. MaxIndexes -> Int]
      /\ \A i \in 0 .. (2 * c - 1) :
            index'[n + 1][i] = IF i < c THEN Here(index, o, u + 1 + i) ELSE i + 1
    BY DEF Grown
<1>0. Slot(p, n + 1, k) = Mod(k + (c - 1 - u), 2 * c)
    BY DEF Grown
<1>2. PICK s : s = Slot(p, n + 1, k)
    OBVIOUS
<1>3. /\ s \in 0 .. (2 * c - 1) /\ Mod(u + 1 + s, c) = Mod(k, c)
      /\ u - c < k /\ k <= u => s = k + (c - 1 - u)
    <2>1. NewPlace(s, c, u, k)
        BY <1>0, <1>2 DEF NewPlace
    <2>2. c \in Nat \ {0} /\ u \in Int
        BY <1>1
    <2> QED
        BY <2>1, <2>2, SlotOfNew
<1>4. Here(index', p, k) = index'[n + 1][s]
    BY <1>1, <1>2 DEF Here, Entry
<1>5. ASSUME s < c PROVE Here(index', p, k) = Here(index, o, k)
    <2>1. n \in 1 .. MaxIndexes /\ o \in [1 .. MaxIndexes -> Int] /\ c = Cap(n)
        BY DEF Grown, Shape
    <2>2. PICK j \in Int : j = u + 1 + s
        BY <1>1, <1>3
    <2>3. Slot(o, n, j) = Slot(o, n, k)
        BY <1>3, <2>1, <2>2, SameSlot
    <2>4. Here(index', p, k) = Here(index, o, j)
        BY <1>1, <1>3, <1>4, <1>5, <2>2
    <2> QED
        <3>1. n = Len(index)
            BY DEF Grown
        <3> QED
            BY <2>3, <2>4, <3>1 DEF Here, Entry
<1>6. ASSUME s >= c PROVE Here(index', p, k) = s + 1
    <2>1. ~(s < c)
        BY <1>1, <1>3, <1>6
    <2> QED
        BY <1>1, <1>3, <1>4, <2>1
<1>7. ASSUME u - c < k, k <= u PROVE s = k + (c - 1 - u) /\ s < c
    BY <1>1, <1>3, <1>7
<1> QED
    BY <1>2, <1>3, <1>5, <1>6, <1>7

(* All entries of a full index lead, by their keys, to the last blocks. *)
LEMMA FullIndex ==
    ASSUME NEW o, NEW u, NEW B, Main(o, u, B), NewIndex
    PROVE  \A j \in (u + 1 - Cap(Len(index))) .. u : key[Here(index, o, j)] = KeyOf(j)
<1>1. u = Last /\ u \in Int /\ Live(index, o, u, B) /\ Shape(index, o)
    BY DEF NewIndex, Main, Ring, Top, Live
<1>2. PICK c \in Nat \ {0} : c = Cap(Len(index))
    BY <1>1, NextIs
<1>3. /\ NextEntry = Here(index, o, u + 1) /\ NextEntry \in Entries /\ value[NextEntry] # Null
      /\ \A j \in Int : j <= u /\ u - c + 1 < j => Here(index, o, j) # NextEntry
    BY <1>1, <1>2, NextIs DEF NewIndex
<1>4. PICK k \in Int : B[k] # Null /\ Here(index, o, k) = NextEntry
    BY <1>1, <1>3 DEF Live
<1>5. /\ u - c < k /\ k <= u
      /\ \A j \in k .. u : key[Here(index, o, j)] = KeyOf(j)
    BY <1>1, <1>2, <1>4 DEF Live
<1>6. k <= u - c + 1
    BY <1>1, <1>3, <1>4, <1>5
<1>7. \A j \in (u + 1 - c) .. u : j \in k .. u
    BY <1>1, <1>6
<1> QED
    BY <1>2, <1>5, <1>7

LEMMA RingGrows ==
    ASSUME NEW o, NEW u, NEW B, Main(o, u, B), NewIndex,
           NEW n, NEW c, NEW p, Grown(o, u, n, c, p)
    PROVE  /\ Shape(index, p)' /\ Nested(index, p)' /\ Tails(p)' /\ Keys(index, p)'
           /\ Fresh' /\ Live(index, p, u, B)'
<1>1. /\ Shape(index, o) /\ Nested(index, o) /\ Tails(o) /\ Keys(index, o)
      /\ Fresh /\ Live(index, o, u, B) /\ u = Last
    BY DEF NewIndex, Main, Ring, Top
<1>2. /\ ppc = "insert" /\ ppc' = "reinsert"
      /\ UNCHANGED <<key, value, allocated, enqueued>>
    BY DEF NewIndex, others
<1>3. /\ n = Len(index) /\ c = Cap(n)
      /\ n \in Nat \ {0} /\ c \in Nat \ {0} /\ u \in Int
      /\ AnySequence(index') /\ Len(index') = n + 1 /\ n + 1 \in 1 .. MaxIndexes
      /\ Cap(n + 1) = 2 * c /\ p \in [1 .. MaxIndexes -> Int]
    BY DEF Grown
<1>4. \A h \in 1 .. n :
        /\ index'[h] = index[h] /\ h \in 1 .. MaxIndexes
        /\ \A k : Slot(p, h, k) = Slot(o, h, k)
        /\ \A k : Entry(index', p, h, k) = Entry(index, o, h, k)
    BY DEF Grown
<1>5. \A i \in 0 .. (2 * c - 1) :
        index'[n + 1][i] = IF i < c THEN Here(index, o, u + 1 + i) ELSE i + 1
    BY DEF Grown
<1>6. \A k \in Int :
        /\ Slot(p, n + 1, k) \in 0 .. (2 * c - 1)
        /\ Slot(p, n + 1, k) < c => Here(index', p, k) = Here(index, o, k)
        /\ Slot(p, n + 1, k) >= c => Here(index', p, k) = Slot(p, n + 1, k) + 1
        /\ u - c < k /\ k <= u => /\ Slot(p, n + 1, k) = k + (c - 1 - u)
                                  /\ Slot(p, n + 1, k) < c
                                  /\ Here(index', p, k) = Here(index, o, k)
    BY <1>1, NewEntries
<1>7. \A h \in 1 .. n : Cap(h) \in Nat \ {0} /\ Cap(h) <= c
    BY <1>1, <1>3, ShapeFacts
<1>8. \A k \in Int : Here(index, o, k) \in 1 .. c
    BY <1>1, <1>3, EntryFacts
<1>9. Last' = u /\ u \in (u + 1 - c) .. u
    BY <1>1, <1>2, <1>3 DEF Last, First
<1>10. \A j \in (u + 1 - c) .. u : key[Here(index, o, j)] = KeyOf(j)
    BY <1>3, FullIndex
<1>11. Shape(index, p)'
    <2> DEFINE N == index'[n + 1]
    <2>1. N \in [0 .. (2 * c - 1) -> 1 .. (2 * c)]
        <3>1. ASSUME NEW i \in 0 .. (2 * c - 1) PROVE N[i] \in 1 .. (2 * c)
            <4>1. CASE i < c
                <5>1. u + 1 + i \in Int
                    BY <1>3
                <5>2. N[i] \in 1 .. c
                    BY <1>5, <1>8, <4>1, <5>1
                <5> QED
                    BY <1>3, <5>2
            <4>2. CASE ~(i < c)
                BY <1>3, <1>5, <4>2
            <4> QED
                BY <4>1, <4>2
        <3>2. N = [i \in 0 .. (2 * c - 1) |-> N[i]]
            BY DEF Grown
        <3> HIDE DEF N
        <3> QED
            BY <3>1, <3>2
    <2>2. ASSUME NEW s \in 0 .. (2 * c - 1), NEW t \in 0 .. (2 * c - 1), N[s] = N[t]
          PROVE  s = t
        <3>1. CASE s < c /\ t < c
            <4>1. PICK i \in Int, j \in Int : i = u + 1 + s /\ j = u + 1 + t
                BY <1>3
            <4>2. Here(index, o, i) = Here(index, o, j)
                BY <1>5, <2>2, <3>1, <4>1
            <4>3. i - j < Cap(Len(index)) /\ j - i < Cap(Len(index))
                BY <1>3, <3>1, <4>1
            <4>4. i = j
                BY <1>1, <4>2, <4>3, HereNear
            <4> QED
                BY <1>3, <4>1, <4>4
        <3>2. ASSUME NEW i \in 0 .. (2 * c - 1) PROVE N[i] <= c <=> i < c
            <4>1. CASE i < c
                <5>1. u + 1 + i \in Int
                    BY <1>3
                <5>2. N[i] \in 1 .. c
                    BY <1>5, <1>8, <4>1, <5>1
                <5> QED
                    BY <1>3, <4>1, <5>2
            <4>2. CASE ~(i < c)
                BY <1>3, <1>5, <4>2
            <4> QED
                BY <4>1, <4>2
        <3>3. CASE ~(s < c) /\ ~(t < c)
            BY <1>3, <1>5, <2>2, <3>3
        <3> QED
            BY <2>2, <3>1, <3>2, <3>3
    <2> HIDE DEF N
    <2>3. ASSUME NEW h \in 1 .. (n + 1)
          PROVE  /\ index'[h] \in [0 .. (Cap(h) - 1) -> 1 .. Cap(h)]
                 /\ \A s, t \in 0 .. (Cap(h) - 1) : index'[h][s] = index'[h][t] => s = t
        <3>1. CASE h = n + 1
            BY <1>3, <2>1, <2>2, <3>1 DEF N
        <3>2. CASE h \in 1 .. n
            BY <1>1, <1>3, <1>4, <3>2 DEF Shape
        <3> QED
            BY <1>3, <3>1, <3>2
    <2> QED
        BY <1>3, <2>3 DEF Shape
<1>12. Nested(index, p)'
    <2>1. ASSUME NEW h \in 1 .. (n + 1), NEW k \in Int, Here(index', p, k) <= Cap(h)
          PROVE  Entry(index', p, h, k) = Here(index', p, k)
        <3>1. CASE h = n + 1
            BY <1>3, <3>1 DEF Here
        <3>2. CASE h \in 1 .. n
            <4>1. Slot(p, n + 1, k) < c
                <5>1. PICK s \in 0 .. (2 * c - 1) : s = Slot(p, n + 1, k)
                    BY <1>6
                <5>2. PICK d \in Nat : d = Cap(h) /\ d <= c
                    BY <1>7, <3>2
                <5>3. ASSUME s >= c PROVE FALSE
                    <6>1. Here(index', p, k) = s + 1
                        BY <1>6, <5>1, <5>3
                    <6>2. s + 1 <= d
                        BY <2>1, <5>2, <6>1
                    <6> QED
                        BY <1>3, <5>1, <5>2, <5>3, <6>2
                <5> QED
                    BY <1>3, <5>1, <5>3
            <4>2. Here(index', p, k) = Here(index, o, k)
                BY <1>6, <4>1
            <4>3. Entry(index, o, h, k) = Here(index, o, k)
                BY <1>1, <1>3, <2>1, <3>2, <4>2 DEF Nested
            <4> QED
                BY <1>4, <3>2, <4>2, <4>3
        <3> QED
            BY <1>3, <3>1, <3>2
    <2> QED
        BY <1>3, <2>1 DEF Nested
<1>13. Tails(p)'
    <2>1. /\ indexTail \in Seq(Int) /\ Len(indexTail) = n
          /\ indexTail[n] = Slot(o, n, u)
          /\ \A h \in 1 .. (n - 1) : /\ indexTail[h] \in 0 .. (Cap(h) - 1)
                                     /\ key[index[h][indexTail[h]]] # InvalidBase
        BY <1>1, <1>3 DEF Tails
    <2>2. indexTail' = Append(indexTail, c - 1) /\ c - 1 \in Int
        BY <1>3 DEF Grown
    <2>3. /\ indexTail' \in Seq(Int) /\ Len(indexTail') = n + 1
          /\ indexTail'[n + 1] = c - 1
          /\ \A h \in 1 .. n : indexTail'[h] = indexTail[h]
        BY <2>1, <2>2
    <2>4. Slot(p, n + 1, u) = c - 1
        <3>1. u - c < u /\ u <= u /\ u + (c - 1 - u) = c - 1 /\ u \in Int
            BY <1>3
        <3>2. Slot(p, n + 1, u) = u + (c - 1 - u)
            BY <1>6, <3>1
        <3> QED
            BY <3>1, <3>2
    <2>5. ASSUME NEW h \in 1 .. n
          PROVE  /\ indexTail[h] \in 0 .. (Cap(h) - 1)
                 /\ key[index[h][indexTail[h]]] # InvalidBase
        <3>1. CASE h = n
            <4>1. n \in 1 .. MaxIndexes /\ o \in [1 .. MaxIndexes -> Int]
                BY <1>1, <1>3 DEF Shape
            <4>2. Slot(o, n, u) \in 0 .. (Cap(n) - 1)
                BY <1>3, <4>1, SlotFacts
            <4>3. key[Here(index, o, u)] # InvalidBase
                BY <1>3, <1>9, <1>10, KeyFacts
            <4> QED
                BY <1>3, <2>1, <3>1, <4>2, <4>3 DEF Here, Entry
        <3>2. CASE h # n
            <4>1. h \in 1 .. (n - 1)
                BY <1>3, <3>2
            <4> QED
                BY <2>1, <4>1
        <3> QED
            BY <3>1, <3>2
    <2>6. (n + 1) - 1 = n
        BY <1>3
    <2> QED
        BY <1>2, <1>3, <1>4, <1>9, <2>3, <2>4, <2>5, <2>6 DEF Tails
<1>14. Shape(index', p)
    BY <1>11 DEF Shape
<1>15. Keys(index, p)'
    <2>1. ASSUME NEW h \in 1 .. (n + 1), NEW s \in 0 .. (Cap(h) - 1),
                 key[index'[h][s]] # InvalidBase
          PROVE  \E k \in Int : key[index'[h][s]] = KeyOf(k) /\ Slot(p, h, k) = s
        <3>1. CASE h \in 1 .. n
            <4>1. \E k \in Int : key[index[h][s]] = KeyOf(k) /\ Slot(o, h, k) = s
                BY <1>1, <1>3, <1>4, <2>1, <3>1 DEF Keys
            <4> QED
                BY <1>4, <3>1, <4>1
        <3>2. CASE h = n + 1 /\ s < c
            <4>1. PICK i \in Int, k \in Int : i = u + 1 + s /\ k = i - c
                BY <1>3
            <4>2. Here(index, o, k) = Here(index, o, i)
                BY <1>1, <1>3, <4>1, HereAround
            <4>3. index'[n + 1][s] = Here(index, o, k)
                <5>1. s \in 0 .. (2 * c - 1)
                    BY <1>3, <3>2
                <5>2. index'[n + 1][s] = Here(index, o, u + 1 + s)
                    BY <1>5, <3>2, <5>1
                <5> QED
                    BY <4>1, <4>2, <5>2
            <4>4. k \in (u + 1 - c) .. u /\ u - c < k /\ k <= u /\ k + (c - 1 - u) = s
                <5>1. PICK t \in Nat : t = s
                    BY <1>3, <3>2
                <5>2. i = u + 1 + t /\ k = i - c /\ t < c
                    BY <3>2, <4>1, <5>1
                <5>3. PICK v \in Int, m \in Nat : v = u /\ m = c
                    BY <1>3
                <5>4. k \in (v + 1 - m) .. v /\ v - m < k /\ k <= v /\ k + (m - 1 - v) = t
                    BY <5>1, <5>2, <5>3
                <5> QED
                    BY <5>1, <5>3, <5>4
            <4>5. key[Here(index, o, k)] = KeyOf(k) /\ Slot(p, n + 1, k) = s
                BY <1>6, <1>10, <4>4
            <4> QED
                BY <3>2, <4>3, <4>5
        <3>3. CASE h = n + 1 /\ ~(s < c)
            <4>1. s \in 0 .. (2 * c - 1) /\ index'[n + 1][s] = s + 1
                BY <1>3, <1>5, <3>3
            <4>2. s + 1 \in Entries
                <5>1. 1 .. Cap(n + 1) \subseteq Entries
                    <6>1. n + 1 \in 1 .. Len(index')
                        BY <1>3
                    <6> QED
                        BY <1>14, <6>1, ShapeFacts
                <5>2. s + 1 \in 1 .. (2 * c)
                    BY <1>3, <4>1
                <5> QED
                    BY <1>3, <5>1, <5>2
            <4>3. s + 1 > Old
                BY <1>2, <1>3, <3>3, <4>1 DEF Old
            <4> QED
                BY <1>1, <2>1, <3>3, <4>1, <4>2, <4>3 DEF Fresh
        <3> QED
            BY <1>3, <3>1, <3>2, <3>3
    <2> QED
        BY <1>1, <1>2, <1>3, <2>1 DEF Keys
<1>16. Fresh'
    <2>1. (n + 1) - 1 = n /\ n + 1 > 1
        BY <1>3
    <2>2. Old' = c /\ Old = c
        BY <1>2, <1>3, <2>1 DEF Old
    <2>3. indexTail'[n + 1] = c - 1
        <3>1. indexTail \in Seq(Int) /\ Len(indexTail) = n
            BY <1>1, <1>3 DEF Tails
        <3>2. indexTail' = Append(indexTail, c - 1) /\ c - 1 \in Int
            BY <1>3 DEF Grown
        <3> QED
            BY <3>1, <3>2
    <2>4. \A i \in c .. (Cap(n + 1) - 1) : index'[n + 1][i] = i + 1
        <3>1. \A i \in c .. (2 * c - 1) : i \in 0 .. (2 * c - 1) /\ ~(i < c)
            BY <1>3
        <3> QED
            BY <1>3, <1>5, <3>1
    <2>5. \A e \in Entries : e > c => key[e] = InvalidBase
        BY <1>1, <2>2 DEF Fresh
    <2> QED
        BY <1>2, <1>3, <2>1, <2>2, <2>3, <2>4, <2>5 DEF Fresh
<1>17. Live(index, p, u, B)'
    <2>1. ASSUME NEW k \in Int, B[k] # Null
          PROVE  /\ u - Cap(n + 1) < k /\ k <= u /\ 0 <= k
                 /\ value[Here(index', p, k)] = B[k]
                 /\ \A j \in k .. u : key[Here(index', p, j)] = KeyOf(j)
        <3>1. /\ u - c < k /\ k <= u /\ 0 <= k
              /\ value[Here(index, o, k)] = B[k]
              /\ \A j \in k .. u : key[Here(index, o, j)] = KeyOf(j)
            BY <1>1, <1>3, <2>1 DEF Live
        <3>2. \A j \in k .. u : Here(index', p, j) = Here(index, o, j)
            <4>1. ASSUME NEW j \in k .. u PROVE j \in Int /\ u - c < j /\ j <= u
                BY <1>3, <3>1
            <4>2. ASSUME NEW j \in k .. u PROVE Here(index', p, j) = Here(index, o, j)
                BY <1>6, <4>1
            <4> QED
                BY <4>2
        <3>3. k \in k .. u /\ u - Cap(n + 1) < k
            BY <1>3, <3>1
        <3> QED
            BY <3>1, <3>2, <3>3
    <2>2. ASSUME NEW e \in Entries, value[e] # Null
          PROVE  \E k \in Int : B[k] # Null /\ Here(index', p, k) = e
        <3>1. PICK k \in Int : B[k] # Null /\ Here(index, o, k) = e
            BY <1>1, <2>2 DEF Live
        <3>2. u - c < k /\ k <= u
            BY <1>1, <1>3, <3>1 DEF Live
        <3> QED
            BY <1>6, <3>1, <3>2
    <2>3. u \in Int /\ B \in [Int -> Blocks \union {Null}]
          /\ value \in [Entries -> Blocks \union {Null}]
        BY <1>1 DEF Live
    <2> QED
        BY <1>2, <1>3, <2>1, <2>2, <2>3 DEF Live
<1> QED
    BY <1>11, <1>12, <1>13, <1>15, <1>16, <1>17

LEMMA MainNewIndex ==
    ASSUME NEW o, NEW u, NEW B, Main(o, u, B), ClaimsInv, Numbers, NewIndex
    PROVE  \E p : Main(p, u, B)'
<1>1. PICK n, c, p : Grown(o, u, n, c, p)
    BY NewIndexIs
<1>2. /\ ppc = "insert" /\ ppc' = "reinsert"
      /\ UNCHANGED <<consumer, claimed, enqueued, blocks, key, value, tailBlock, allocated>>
    BY DEF NewIndex, others
<1>3. /\ Shape(index, o) /\ Live(index, o, u, B) /\ Top(o, u) /\ Allocated(u, B)
      /\ Placed(B) /\ TailBlock(u, B) /\ Holds /\ Finds(o, B) /\ Counted(B) /\ Contents(B)
    BY DEF Main, Ring
<1>4. UNCHANGED <<content, emptied, pool, cpc, left, at, header, slot, block, part, expect>>
    BY <1>2 DEF blocks, consumer
<1>5. /\ First' = First /\ Last' = Last /\ Unlinked' = Unlinked /\ Filling' = Filling
      /\ \A i : Number(u, i)' = Number(u, i)
    BY <1>2 DEF First, Last, Unlinked, Filling, Number
<1>6. Ring(p, u, B)'
    <2>1. Top(p, u)'
        BY <1>2, <1>3, <1>5 DEF Top
    <2> QED
        BY <1>1, <2>1, RingGrows DEF Ring
<1>7. /\ n = Len(index) /\ n \in Nat /\ Len(index') = n + 1 /\ u \in Int
      /\ \A h \in 1 .. n :
        /\ index'[h] = index[h]
        /\ \A k : Slot(p, h, k) = Slot(o, h, k)
        /\ \A k : Entry(index', p, h, k) = Entry(index, o, h, k)
    BY <1>1 DEF Grown
<1>8. ASSUME NEW k \in Int, B[k] # Null PROVE Here(index', p, k) = Here(index, o, k)
    <2>1. u - c < k /\ k <= u
        <3>1. c = Cap(Len(index))
            BY <1>1 DEF Grown
        <3> QED
            BY <1>3, <1>8, <3>1 DEF Live
    <2> QED
        BY <1>1, <1>3, <2>1, NewEntries
<1>9. Quiet /\ claimed' = claimed
    BY <1>2, QuietConsumer
<1>10. Finds(p, B)'
    <2>1. ASSUME NEW d \in Consumers PROVE FindsOne(d, p, B)'
        <3>1. FindsOne(d, o, B) /\ Mine(d)' = Mine(d)
            BY <1>3, <1>4 DEF Finds, Mine
        <3>2. CASE cpc[d] \in Loaded
            <4>1. header[d] \in 1 .. n /\ header[d] \in 1 .. (n + 1)
                BY <1>7, <3>1, <3>2 DEF FindsOne
            <4>2. ASSUME NEW k \in Int, B[k] # Null, k * BlockSize < expect[d] + left[d]
                  PROVE  Entry(index', p, header[d], k) = Here(index', p, k)
                <5>1. Entry(index, o, header[d], k) = Here(index, o, k)
                    BY <3>1, <3>2, <4>2 DEF FindsOne
                <5> QED
                    BY <1>7, <1>8, <4>1, <4>2, <5>1
            <4> QED
                BY <1>2, <1>4, <1>7, <3>1, <3>2, <4>1, <4>2 DEF FindsOne
        <3>3. CASE cpc[d] \notin Loaded
            BY <1>4, <3>3 DEF FindsOne, Loaded, Moved
        <3> QED
            BY <3>2, <3>3
    <2> QED
        BY <2>1 DEF Finds
<1>11. Holds'
    BY <1>3, <1>9, HoldsStay
<1>12. Counted(B)'
    <2>1. emptied' \in [Blocks -> 0 .. BlockSize]
        BY <1>3, <1>4 DEF Counted
    <2> QED
        BY <1>3, <1>4, <1>5, <1>9, <2>1, CountedStay
<1>13. Contents(B)'
    <2>1. enqueued' + Filling' = enqueued + Filling
        BY <1>2, <1>5
    <2> QED
        BY <1>3, <1>4, <1>9, <2>1, ContentsStay
<1>14. Allocated(u, B)'
    BY <1>2, <1>3, <1>4, <1>5, AllocatedStay
<1>15. Placed(B)'
    BY <1>2, <1>3, <1>4, PlacedStay DEF Freeing
<1>16. TailBlock(u, B)'
    BY <1>2, <1>3, <1>5, TailBlockStay
<1>17. Main(p, u, B)'
    BY <1>6, <1>10, <1>11, <1>12, <1>13, <1>14, <1>15, <1>16 DEF Main
<1> QED
    BY <1>17

LEMMA MainLink ==
    ASSUME NEW o, NEW u, NEW B, Main(o, u, B), ClaimsInv, Numbers, Link
    PROVE  \E C : Main(o, u, C)'
<1> DEFINE h == Here(index, o, u)
<1>1. /\ ppc = "link" /\ ppc' \in {"construct", "room"}
      /\ value' = [value EXCEPT ![LastEntry] = Newest]
      /\ UNCHANGED <<consumer, claimed, enqueued, blocks, index, indexTail, key,
                     tailBlock, allocated>>
    BY DEF Link, others
<1>2. /\ Ring(o, u, B) /\ Allocated(u, B) /\ Placed(B) /\ TailBlock(u, B) /\ Top(o, u)
      /\ Counted(B) /\ Shape(index, o) /\ Nested(index, o) /\ Tails(o) /\ Keys(index, o)
      /\ Fresh /\ Live(index, o, u, B)
    BY DEF Main, Ring
<1>3. UNCHANGED <<content, emptied, pool, cpc, block>>
    BY <1>1 DEF blocks, consumer
<1>4. u = Last /\ u \in Int
    BY <1>1, <1>2 DEF Top, Live
<1>5. PICK l \in Nat \ {0} : l = Len(allocated)
    <2>1. Len(allocated) \in Nat /\ Len(allocated) # 0
        BY <1>1, NumberFacts, AnySequenceFacts DEF Numbers, Phase
    <2> QED
        BY <2>1
<1>6. /\ First' = First /\ First \in Nat /\ Unlinked = {l} /\ Unlinked' = {}
      /\ Last' = Last /\ \A i : Number(u, i)' = Number(u, i)
    BY <1>1, <1>5, NumberFacts DEF First, Unlinked, Last, Number, Numbers
<1>7. u = First - 1 + l /\ \A i \in Int : Number(u, i) = u - l + i
    BY <1>1, <1>4, <1>5, <1>6 DEF Last, Number
<1>8. Newest = allocated[l].block /\ Newest \in Blocks /\ Newest # Null
    <2>1. l \in 1 .. l
        BY <1>5
    <2> QED
        BY <1>2, <1>5, <2>1, BlocksAssumption DEF Newest, Allocated
<1>9. LastEntry = h /\ h \in Entries
    <2>1. Len(index) \in 1 .. Len(index)
        BY <1>2 DEF Shape
    <2> QED
        BY <1>2, <1>4, <2>1, EntryFacts DEF LastEntry, Tails, Here, Entry, Current
<1>10. key[h] = KeyOf(u) /\ value[h] = Null /\ value \in [Entries -> Blocks \union {Null}]
    BY <1>1, <1>2 DEF Top, Live
<1> HIDE DEF h
<1>11. /\ value' \in [Entries -> Blocks \union {Null}] /\ value'[h] = Newest
       /\ \A e \in Entries : e # h => value'[e] = value[e]
    BY <1>1, <1>8, <1>9, <1>10
<1>12. \A k \in Int : B[k] # Null => k # u /\ Here(index, o, k) # h
    BY <1>2, <1>10 DEF Live, h
<1>13. PICK C : C = [B EXCEPT ![u] = Newest]
    OBVIOUS
<1>14. /\ C \in [Int -> Blocks \union {Null}] /\ C[u] = Newest
       /\ \A k \in Int : k # u => C[k] = B[k]
       /\ B[u] = Null /\ B \in [Int -> Blocks \union {Null}]
    BY <1>2, <1>4, <1>8, <1>12, <1>13 DEF Live
<1>15. Live(index, o, u, C)'
    <2>1. ASSUME NEW k \in Int, C[k] # Null
          PROVE  /\ u - Cap(Len(index)) < k /\ k <= u /\ 0 <= k
                 /\ value'[Here(index, o, k)] = C[k]
                 /\ \A j \in k .. u : key[Here(index, o, j)] = KeyOf(j)
        <3>1. CASE k = u
            <4>1. Cap(Len(index)) \in Nat \ {0}
                <5>1. Len(index) \in 1 .. Len(index)
                    BY <1>2 DEF Shape
                <5> QED
                    BY <1>2, <5>1, ShapeFacts
            <4>2. u - Cap(Len(index)) < u /\ u <= u /\ 0 <= u
                <5>1. PICK f \in Nat : f = First
                    BY <1>6
                <5>2. u = f - 1 + l
                    BY <1>7, <5>1
                <5> QED
                    BY <1>4, <1>5, <4>1, <5>1, <5>2
            <4>3. \A j \in u .. u : j = u
                BY <1>4
            <4> QED
                BY <1>10, <1>11, <1>14, <3>1, <4>2, <4>3 DEF h
        <3>2. CASE k # u
            <4>1. B[k] # Null /\ C[k] = B[k]
                BY <1>14, <2>1, <3>2
            <4>2. Here(index, o, k) # h /\ Here(index, o, k) \in Entries
                <5>1. Len(index) \in 1 .. Len(index)
                    BY <1>2 DEF Shape
                <5> QED
                    BY <1>2, <1>12, <4>1, <5>1, EntryFacts
            <4> QED
                BY <1>2, <1>11, <4>1, <4>2 DEF Live
        <3> QED
            BY <3>1, <3>2
    <2>2. ASSUME NEW e \in Entries, value'[e] # Null
          PROVE  \E k \in Int : C[k] # Null /\ Here(index, o, k) = e
        <3>1. CASE e = h
            BY <1>4, <1>8, <1>14, <3>1 DEF h
        <3>2. CASE e # h
            <4>1. PICK k \in Int : B[k] # Null /\ Here(index, o, k) = e
                BY <1>2, <1>11, <2>2, <3>2 DEF Live
            <4> QED
                BY <1>12, <1>14, <4>1
        <3> QED
            BY <3>1, <3>2
    <2> QED
        BY <1>1, <1>4, <1>11, <1>14, <2>1, <2>2 DEF Live
<1>16. Ring(o, u, C)'
    <2>0. UNCHANGED <<index, indexTail, key>>
        BY <1>1
    <2>1. Shape(index, o)' /\ Nested(index, o)' /\ Keys(index, o)'
        BY <1>2, <2>0, IndexStays
    <2>2. Tails(o)'
        BY <1>2, <1>6, <2>0 DEF Tails
    <2>3. Fresh'
        BY <1>1, <1>2 DEF Fresh, Old
    <2>4. Top(o, u)'
        BY <1>1, <1>4, <1>6 DEF Top
    <2> QED
        BY <1>15, <2>1, <2>2, <2>3, <2>4 DEF Ring
<1>17. Allocated(u, C)'
    <2>1. ASSUME NEW i \in 1 .. l
          PROVE  /\ allocated[i].block \in Blocks /\ emptied[allocated[i].block] = 0
                 /\ allocated[i].base = KeyOf(Number(u, i))
                 /\ C[Number(u, i)] = allocated[i].block
        <3>1. /\ allocated[i].block \in Blocks /\ emptied[allocated[i].block] = 0
              /\ allocated[i].base = KeyOf(Number(u, i))
              /\ i # l => B[Number(u, i)] = allocated[i].block
            BY <1>2, <1>5, <1>6 DEF Allocated
        <3>2. /\ i \in Int /\ Number(u, i) = u - l + i /\ u - l + i \in Int
              /\ (i = l => u - l + i = u) /\ (i # l => u - l + i # u)
            <4>1. i \in Int
                BY <1>5
            <4>2. PICK v \in Int : v = u
                BY <1>4
            <4>3. v - l + i \in Int /\ (i = l => v - l + i = v) /\ (i # l => v - l + i # v)
                BY <1>5, <4>1
            <4> QED
                BY <1>7, <4>1, <4>2, <4>3
        <3> QED
            BY <1>8, <1>14, <3>1, <3>2
    <2>2. ASSUME NEW k \in Int, C[k] # Null, k >= First
          PROVE  \E i \in 1 .. l : k = Number(u, i)
        <3>1. CASE k = u
            <4>1. l \in 1 .. l /\ Number(u, l) = u
                BY <1>4, <1>5, <1>7
            <4> QED
                BY <3>1, <4>1
        <3>2. CASE k # u
            <4>1. B[k] # Null
                BY <1>14, <2>2, <3>2
            <4> QED
                BY <1>2, <1>5, <2>2, <4>1 DEF Allocated
        <3> QED
            BY <3>1, <3>2
    <2> QED
        BY <1>1, <1>3, <1>5, <1>6, <2>1, <2>2 DEF Allocated
<1>18. Placed(C)'
    <2>1. Freeing' = Freeing /\ \A c \in Freeing : block'[c] = block[c]
        BY <1>3 DEF Freeing
    <2>2. \A k \in Int : B[k] # Newest
        BY <1>1, <1>2 DEF Placed
    <2>3. \A j, k \in Int : C[j] = C[k] /\ C[j] # Null => j = k
        BY <1>2, <1>14, <2>2 DEF Placed
    <2>4. \A k \in Int : C[k] \notin pool
        BY <1>1, <1>2, <1>14 DEF Placed
    <2>5. ASSUME NEW c \in Freeing
          PROVE  /\ block[c] \in Blocks \ pool
                 /\ \A k \in Int : C[k] # block[c]
                 /\ \A d \in Freeing : block[d] = block[c] => d = c
        BY <1>1, <1>2, <1>14 DEF Placed
    <2>6. ASSUME NEW b \in Blocks
          PROVE  b \in pool \/ (\E k \in Int : C[k] = b) \/ \E c \in Freeing : block[c] = b
        <3>1. CASE b = Newest
            BY <1>4, <1>14, <3>1
        <3>2. ASSUME NEW k \in Int, B[k] = b PROVE C[k] = b
            BY <1>14, <3>2, BlocksAssumption
        <3>3. \/ b \in pool \/ (\E k \in Int : B[k] = b)
              \/ b = Newest \/ \E c \in Freeing : block[c] = b
            BY <1>2 DEF Placed
        <3> QED
            BY <3>1, <3>2, <3>3
    <2>7. pool \subseteq Blocks
        BY <1>2 DEF Placed
    <2> QED
        BY <1>1, <1>3, <2>1, <2>3, <2>4, <2>5, <2>6, <2>7 DEF Placed
<1>19. TailBlock(u, C)'
    <2>1. First - 1 \in Int /\ First - 1 # u
        BY <1>5, <1>6, <1>7
    <2>2. C[First - 1] = B[First - 1]
        BY <1>14, <2>1
    <2> QED
        BY <1>1, <1>2, <1>6, <2>2 DEF TailBlock
<1>20. Holds' /\ Finds(o, C)' /\ Counted(C)' /\ Contents(C)'
    <2>1. emptied' \in [Blocks -> 0 .. BlockSize]
        BY <1>2, <1>3 DEF Counted
    <2>2. \A k \in Int : k < First => C[k] = B[k]
        BY <1>4, <1>5, <1>6, <1>7, <1>14
    <2> QED
        BY <1>1, <1>3, <2>1, <2>2, ConsumersStay
<1>21. Main(o, u, C)'
    BY <1>16, <1>17, <1>18, <1>19, <1>20 DEF Main
<1> QED
    BY <1>21

-----------------------------------------------------------------------------
(* The elements of a call go to the blocks of their numbers *)

(* The bases of the blocks from the last published one on are different. *)
LEMMA KeysApart ==
    ASSUME Numbers, ClaimsInv, NEW l, l = Len(allocated),
           NEW j \in Int, First - 1 <= j, j < First + l,
           NEW k \in Int, First - 1 <= k, k < First + l, KeyOf(j) = KeyOf(k)
    PROVE  j = k
<1>1. /\ First \in Nat /\ l \in Nat /\ Reserved \in Nat /\ Reserved >= First + l
      /\ claimed \in Nat /\ enqueued \in Nat /\ claimed <= enqueued
      /\ enqueued <= First * BlockSize
      /\ BlockSize \in Nat \ {0, 1} /\ IndexValues \in Nat \ {0}
      /\ IndexValues \div 2 \in Nat
      /\ Reserved * BlockSize - claimed < IndexValues - (IndexValues \div 2)
    <2>1. /\ First \in Nat /\ l \in Nat /\ Reserved \in Nat
          /\ claimed \in Nat /\ enqueued \in Nat /\ claimed <= enqueued
          /\ enqueued <= First * BlockSize
          /\ BlockSize \in Nat \ {0, 1} /\ IndexValues \in Nat \ {0}
          /\ IndexValues \div 2 \in Nat
        BY NumberFacts DEF Numbers
    <2>2. Reserved >= First + l
        <3>1. First \in Nat /\ Len(allocated) \in Nat /\ l = Len(allocated)
            BY <2>1
        <3> QED
            BY <3>1 DEF Reserved
    <2> QED
        BY <2>1, <2>2 DEF Numbers, InRange
<1>2. PICK f \in Nat, r \in Nat, s \in Nat \ {0}, v \in Nat \ {0}, h \in Nat :
        f = First /\ r = Reserved /\ s = BlockSize /\ v = IndexValues /\ h = v \div 2
    BY <1>1
<1>3. l * s < v
    <2>1. /\ f * s \in Int /\ r * s \in Int /\ l * s \in Int
          /\ (r - f - l) * s >= 0 /\ (r - f - l) * s = r * s - f * s - l * s
        BY <1>1, <1>2
    <2>2. r * s - claimed < v - h /\ claimed <= enqueued /\ enqueued <= f * s
        BY <1>1, <1>2
    <2> QED
        BY <1>1, <1>2, <2>1, <2>2
<1>4. PICK x \in Int, y \in Int : x = j * s /\ y = k * s
    BY <1>2
<1>5. x - y <= l * s /\ y - x <= l * s
    <2>1. j - k <= l /\ k - j <= l
        BY <1>1, <1>2
    <2>2. (l - (j - k)) * s >= 0 /\ (l - (k - j)) * s >= 0
        BY <1>1, <1>2, <2>1
    <2>3. /\ (l - (j - k)) * s = l * s - (j * s - k * s)
          /\ (l - (k - j)) * s = l * s - (k * s - j * s)
        BY <1>1, <1>2
    <2>4. l * s \in Int
        BY <1>1, <1>2
    <2> QED
        BY <1>4, <2>2, <2>3, <2>4
<1>6. l * s \in Int
    BY <1>1, <1>2
<1>7. Mod(x, v) = Mod(y, v) /\ x - y < v /\ y - x < v
    <2>1. KeyOf(j) = Mod(x, v) /\ KeyOf(k) = Mod(y, v)
        <3>1. x = j * BlockSize /\ y = k * BlockSize /\ v = IndexValues
            BY <1>2, <1>4
        <3>2. KeyOf(j) = Wrap(x) /\ KeyOf(k) = Wrap(y)
            BY <3>1 DEF KeyOf
        <3> QED
            BY <3>1, <3>2, WrapIsMod
    <2>2. x - y < v /\ y - x < v
        BY <1>3, <1>4, <1>5, <1>6
    <2> QED
        BY <2>1, <2>2
<1>8. x = y
    BY <1>2, <1>4, <1>7, NearRemainders
<1>9. (j - k) * s = 0 /\ j - k \in Int
    BY <1>2, <1>4, <1>8
<1>10. j - k = 0
    BY <1>2, <1>9, OnlyZero
<1> QED
    BY <1>10

LEMMA ElementNumber ==
    ASSUME Numbers, ClaimsInv, ppc \in {"construct", "publish"}, NEW n \in 0 .. (call.count - 1)
    PROVE  LET k == Block(enqueued + n) IN
           k \in Nat /\ First - 1 <= k /\ k < First + Len(allocated)
<1>1. /\ First \in Nat /\ Len(allocated) \in Nat /\ enqueued \in Nat
      /\ (First - 1) * BlockSize < enqueued /\ BlockSize \in Nat /\ call.count \in Nat
      /\ todo = << >>
      /\ First + Len(allocated) + Len(todo) = Filled(enqueued + call.count)
    BY NumberFacts DEF Numbers, Phase, Numbered, Working
<1>2. PICK e \in Nat : e = enqueued + n
    BY <1>1
<1>3. PICK m \in Nat : m = enqueued + call.count
    BY <1>1
<1>4. First + Len(allocated) = Filled(m)
    BY <1>1, <1>3
<1>5. m <= Filled(m) * BlockSize /\ Filled(m) * BlockSize \in Int /\ Filled(m) \in Int
    <2>1. m <= Filled(m) * BlockSize /\ Filled(m) \in Int
        BY <1>3, FilledFacts
    <2> QED
        BY <1>1, <2>1
<1>6. e < Filled(m) * BlockSize /\ (First - 1) * BlockSize <= e /\ 0 * BlockSize <= e
    <2>1. PICK a \in Int, z \in Int : a = (First - 1) * BlockSize /\ z = Filled(m) * BlockSize
        BY <1>1, <1>5
    <2>2. PICK c \in Nat, x \in Nat : c = call.count /\ x = enqueued
        BY <1>1
    <2>3. n \in 0 .. (c - 1) /\ e = x + n /\ m = x + c
        BY <1>2, <1>3, <2>2
    <2>4. e < m /\ x <= e
        BY <2>2, <2>3
    <2>5. a < x /\ m <= z
        BY <1>1, <1>5, <2>1, <2>2
    <2>6. e < z /\ a <= e
        BY <2>1, <2>2, <2>4, <2>5
    <2>7. 0 * BlockSize <= e
        BY <1>1
    <2> QED
        BY <2>1, <2>6, <2>7
<1>7. /\ Block(e) < Filled(m) /\ First - 1 <= Block(e) /\ 0 <= Block(e) /\ Block(e) \in Int
    <2>1. First - 1 \in Int /\ 0 \in Int
        BY <1>1
    <2> QED
        BY <1>2, <1>5, <1>6, <2>1, BlockBound
<1> QED
    BY <1>2, <1>4, <1>7

LEMMA BlockOfIs ==
    ASSUME NEW o, NEW u, NEW B, Main(o, u, B), ClaimsInv, Numbers, ppc = "construct",
           NEW n \in 0 .. (call.count - 1)
    PROVE  /\ BlockOf(Wrap(tailIndex + n)) = B[Block(enqueued + n)]
           /\ B[Block(enqueued + n)] # Null
<1>1. /\ Allocated(u, B) /\ TailBlock(u, B) /\ Counted(B) /\ u = Last /\ u \in Int
    BY DEF Main, Ring, Top, Live
<1>2. /\ First \in Nat /\ Len(allocated) \in Nat /\ enqueued \in Nat /\ claimed \in Nat
      /\ claimed <= enqueued /\ tailIndex = Wrap(enqueued) /\ call.count \in Nat
    BY NumberFacts, ClaimsGive DEF Numbers
<1>3. PICK e \in Nat : e = enqueued + n
    BY <1>2
<1>4. PICK k \in Nat : k = Block(e) /\ First - 1 <= k /\ k < First + Len(allocated)
    BY <1>3, ElementNumber
<1>5. PICK l \in Nat : l = Len(allocated)
    BY <1>2
<1>6. u = First - 1 + l /\ \A i \in Int : Number(u, i) = First - 1 + i
    BY <1>1, <1>2, <1>5 DEF Last, Number
<1>7. Base(Wrap(tailIndex + n)) = KeyOf(k)
    <2>1. Wrap(tailIndex + n) = Wrap(e)
        <3>1. n \in Int /\ Wrap(Wrap(enqueued) + n) = Wrap(enqueued + n)
            BY <1>2, WrapOfWraps
        <3> QED
            BY <1>2, <1>3, <3>1
    <2> QED
        BY <1>3, <1>4, <2>1, WrapOfIndex DEF KeyOf
<1>0. PICK new : new = {i \in 1 .. Len(allocated) : allocated[i].base = KeyOf(k)}
    OBVIOUS
<1>8. BlockOf(Wrap(tailIndex + n)) =
            IF new = {} THEN tailBlock ELSE allocated[CHOOSE i \in new : TRUE].block
    <2>1. PICK y : y = Wrap(tailIndex + n)
        OBVIOUS
    <2> DEFINE based == {i \in 1 .. Len(allocated) : allocated[i].base = Base(y)}
    <2>2. BlockOf(y) = IF based = {} THEN tailBlock
                       ELSE allocated[CHOOSE i \in based : TRUE].block
        BY DEF BlockOf
    <2>3. new = based
        BY <1>0, <1>7, <2>1
    <2> HIDE DEF based
    <2> QED
        BY <2>1, <2>2, <2>3
<1>12. PICK f \in Nat : f = First /\ f - 1 <= k /\ k < f + l
    BY <1>2, <1>4, <1>5
<1>9. \A i \in new : i \in 1 .. l /\ i = k - First + 1
    <2>1. ASSUME NEW i \in 1 .. l, allocated[i].base = KeyOf(k) PROVE i = k - First + 1
        <3>1. PICK j \in Int : j = First - 1 + i
            BY <1>2, <1>5
        <3>2. First - 1 <= j /\ j < First + l
            BY <1>2, <1>5, <3>1
        <3>3. KeyOf(j) = KeyOf(k)
            BY <1>1, <1>5, <1>6, <2>1, <3>1 DEF Allocated
        <3>4. j = k
            BY <1>4, <1>5, <3>2, <3>3, KeysApart
        <3>5. j = f - 1 + i
            BY <1>12, <3>1
        <3>6. i = k - f + 1
            BY <1>5, <1>12, <3>1, <3>4, <3>5
        <3> QED
            BY <1>12, <3>6
    <2> QED
        BY <1>0, <1>5, <2>1
<1>10. CASE k >= First
    <2>0. k >= f
        BY <1>10, <1>12
    <2>1. PICK i \in 1 .. l : i = k - f + 1
        BY <1>5, <1>12, <2>0
    <2>2. Number(u, i) = k
        <3>1. i \in Int /\ f - 1 + i = k
            BY <1>5, <1>12, <2>1
        <3> QED
            BY <1>6, <1>12, <3>1
    <2>3. i \in new /\ allocated[i].block = B[k] /\ B[k] # Null
        <3>1. i \notin Unlinked
            BY DEF Unlinked
        <3> QED
            BY <1>0, <1>1, <1>5, <2>2, <3>1, BlocksAssumption DEF Allocated
    <2>4. (CHOOSE x \in new : TRUE) = i
        BY <1>9, <1>12, <2>1, <2>3
    <2> QED
        BY <1>3, <1>4, <1>8, <2>3, <2>4
<1>11. CASE k = First - 1
    <2>1. new = {}
        <3>1. \A i \in new : i \in 1 .. l /\ i = k - f + 1
            BY <1>9, <1>12
        <3>2. k - f + 1 = 0
            BY <1>11, <1>12
        <3> QED
            BY <1>5, <3>1, <3>2
    <2>2. e \in Open(k)
        <3>1. e \in ElementsOf(k)
            BY <1>3, <1>4, ElementsFacts
        <3> QED
            BY <1>2, <1>3, <3>1 DEF Open
    <2>3. B[k] # Null
        BY <1>1, <1>2, <1>4, <1>11, <2>2 DEF Counted, CountedOne
    <2>4. B[k] = tailBlock
        BY <1>1, <1>11, <2>3 DEF TailBlock
    <2> QED
        BY <1>3, <1>4, <1>8, <2>1, <2>3, <2>4
<1>13. k >= First \/ k = First - 1
    BY <1>12
<1> QED
    BY <1>10, <1>11, <1>13

LEMMA MainConstruct ==
    ASSUME NEW o, NEW u, NEW B, Main(o, u, B), ClaimsInv, Numbers, Construct
    PROVE  Main(o, u, B)'
<1> DEFINE put(b, i) == {n \in 0 .. (call.count - 1) :
                            /\ BlockOf(Wrap(tailIndex + n)) = b
                            /\ (tailIndex + n) % BlockSize = i}
<1>1. /\ ppc = "construct" /\ ppc' = "publish"
      /\ content' = [b \in Blocks |-> [i \in Places |->
            IF put(b, i) = {} THEN content[b][i]
            ELSE enqueued + 1 + (CHOOSE n \in put(b, i) : TRUE)]]
      /\ tailBlock' = BlockOf(Wrap(tailIndex + call.count - 1))
      /\ UNCHANGED <<call, emptied, pool, blockIndex, allocated, consumer, enqueued, claimed>>
    BY DEF Construct, others
<1>2. /\ Ring(o, u, B) /\ Allocated(u, B) /\ Placed(B) /\ TailBlock(u, B) /\ Top(o, u)
      /\ Live(index, o, u, B) /\ Holds /\ Finds(o, B) /\ Counted(B) /\ Contents(B)
    BY DEF Main, Ring
<1>3. UNCHANGED <<index, indexTail, key, value, cpc, block>>
    BY <1>1 DEF blockIndex, consumer
<1>4. /\ First' = First /\ Last' = Last /\ Unlinked' = Unlinked
      /\ \A i : Number(u, i)' = Number(u, i)
    BY <1>1 DEF First, Last, Unlinked, Number
<1>5. /\ enqueued \in Nat /\ claimed \in Nat /\ claimed <= enqueued
      /\ tailIndex = Wrap(enqueued) /\ call.count \in Nat /\ call.count >= 1
      /\ BlockSize \in Nat
    BY <1>1, NumberFacts, ClaimsGive DEF Numbers, Numbered, Working
<1>6. PICK e \in Nat, m \in Nat \ {0} : e = enqueued /\ m = call.count
    BY <1>5
<1>7. u = Last /\ u \in Int
    BY <1>1, <1>2 DEF Top, Live
<1>8. ASSUME NEW n \in 0 .. (m - 1)
      PROVE  /\ BlockOf(Wrap(tailIndex + n)) = B[Block(e + n)] /\ B[Block(e + n)] # Null
             /\ (tailIndex + n) % BlockSize = (e + n) % BlockSize
    <2>1. n \in 0 .. (call.count - 1)
        BY <1>6
    <2>2. (Wrap(e) + n) % BlockSize = (e + n) % BlockSize
        BY <1>6, WrapPlace
    <2> QED
        BY <1>1, <1>5, <1>6, <2>1, <2>2, BlockOfIs
<1>9. ASSUME NEW k \in Int, Block(k) \in Int, B[Block(k)] # Null, NEW n \in Int
      PROVE  n \in put(B[Block(k)], k % BlockSize) <=> n \in 0 .. (m - 1) /\ e + n = k
    <2>1. ASSUME n \in 0 .. (m - 1), B[Block(e + n)] = B[Block(k)],
                 (e + n) % BlockSize = k % BlockSize
          PROVE  e + n = k
        <3>1. PICK j \in Int : j = e + n
            BY <1>6
        <3>2. Block(j) \in Int
            BY BlockFacts
        <3>3. Block(j) = Block(k)
            BY <1>2, <1>9, <2>1, <3>1, <3>2 DEF Placed
        <3> QED
            BY <2>1, <3>1, <3>3, SamePlace
    <2>2. n \in put(B[Block(k)], k % BlockSize) <=>
            n \in 0 .. (m - 1) /\ B[Block(e + n)] = B[Block(k)]
                               /\ (e + n) % BlockSize = k % BlockSize
        BY <1>6, <1>8
    <2> QED
        BY <2>1, <2>2
<1> HIDE DEF put
<1>10. content' \in [Blocks -> [Places -> Nat]]
    <2>1. ASSUME NEW b \in Blocks, NEW i \in Places
          PROVE  (IF put(b, i) = {} THEN content[b][i]
                  ELSE enqueued + 1 + (CHOOSE n \in put(b, i) : TRUE)) \in Nat
        <3>1. content[b][i] \in Nat
            BY <1>2 DEF Contents
        <3>2. ASSUME put(b, i) # {} PROVE (CHOOSE n \in put(b, i) : TRUE) \in Nat
            <4>1. \A n \in put(b, i) : n \in Nat
                BY <1>5 DEF put
            <4> QED
                BY <3>2, <4>1
        <3> QED
            BY <1>5, <3>1, <3>2
    <2> QED
        BY <1>1, <2>1
<1>11. ASSUME NEW k \in Int, Block(k) \in Int, B[Block(k)] # Null
       PROVE  content'[B[Block(k)]][k % BlockSize] =
                IF e <= k /\ k < e + m THEN k + 1 ELSE content[B[Block(k)]][k % BlockSize]
    <2>1. PICK b \in Blocks, i \in Places : b = B[Block(k)] /\ i = k % BlockSize
        <3>1. B[Block(k)] \in Blocks
            BY <1>2, <1>11 DEF Live
        <3>2. k % BlockSize \in Places
            BY BlockFacts DEF Places
        <3> QED
            BY <3>1, <3>2
    <2>2. content'[b][i] = IF put(b, i) = {} THEN content[b][i]
                           ELSE enqueued + 1 + (CHOOSE n \in put(b, i) : TRUE)
        BY <1>1
    <2>3. ASSUME NEW n \in Int
          PROVE  n \in put(b, i) <=> n \in 0 .. (m - 1) /\ e + n = k
        BY <1>9, <1>11, <2>1
    <2>4. \A n \in put(b, i) : n \in Int
        BY <1>5 DEF put
    <2>5. CASE e <= k /\ k < e + m
        <3>1. PICK d \in 0 .. (m - 1) : d = k - e
            BY <2>5
        <3>2. d \in put(b, i) /\ \A n \in put(b, i) : n = d
            BY <2>3, <2>4, <3>1
        <3>3. (CHOOSE n \in put(b, i) : TRUE) = d
            BY <3>2
        <3>4. content'[b][i] = enqueued + 1 + d
            BY <2>2, <3>2, <3>3
        <3>5. enqueued + 1 + d = k + 1
            BY <1>6, <3>1
        <3> QED
            BY <2>1, <2>5, <3>4, <3>5
    <2>6. CASE ~(e <= k /\ k < e + m)
        <3>1. put(b, i) = {}
            BY <2>3, <2>4, <2>6
        <3> QED
            BY <2>1, <2>2, <2>6, <3>1
    <2> QED
        BY <2>5, <2>6
<1>12. Contents(B)'
    <2>1. ASSUME NEW n \in Int, Kept(n)'
          PROVE  B[Block(n)] # Null /\ content'[B[Block(n)]][n % BlockSize] = n + 1
        <3>0. Block(n) \in Int
            BY BlockFacts
        <3>1. Filling' = m /\ Filling = 0
            BY <1>1, <1>6 DEF Filling
        <3>2. CASE e <= n /\ n < e + m
            <4>1. PICK d \in 0 .. (m - 1) : d = n - e
                BY <3>2
            <4>2. n = e + d
                BY <4>1
            <4>3. B[Block(n)] # Null
                BY <1>8, <4>1, <4>2
            <4> QED
                BY <1>11, <3>0, <3>2, <4>3
        <3>3. CASE ~(e <= n /\ n < e + m)
            <4>1. \A c \in Consumers : Unmoved(c)' = Unmoved(c)
                BY <1>1, QuietConsumer, QuietFacts
            <4>2. Kept(n)
                BY <1>1, <1>5, <1>6, <2>1, <3>1, <3>3, <4>1 DEF Kept
            <4> QED
                BY <1>2, <1>11, <3>0, <3>3, <4>2 DEF Contents
        <3> QED
            BY <3>2, <3>3
    <2> QED
        BY <1>10, <2>1 DEF Contents
<1>13. TailBlock(u, B)'
    <2>1. PICK n \in 0 .. (m - 1) : n = m - 1
        BY <1>6
    <2>2. Wrap(tailIndex + call.count - 1) = Wrap(tailIndex + n)
        <3>1. tailIndex \in Int
            BY <1>5, WrapFacts
        <3>2. tailIndex + call.count - 1 = tailIndex + n
            BY <1>6, <2>1, <3>1
        <3> QED
            BY <3>2
    <2>3. tailBlock' = B[Block(e + n)] /\ B[Block(e + n)] # Null
        BY <1>1, <1>8, <2>1, <2>2
    <2>4. Block(e + n) = u
        <3>1. /\ First \in Nat /\ Len(allocated) \in Nat /\ todo = << >>
              /\ First + Len(allocated) + Len(todo) = Filled(e + m)
            <4>1. First \in Nat /\ Len(allocated) \in Nat /\ todo = << >>
                BY <1>1, NumberFacts DEF Numbers, Phase
            <4>2. First + Len(allocated) + Len(todo) = Filled(enqueued + call.count)
                BY <1>1 DEF Numbers, Numbered, Working
            <4> QED
                BY <1>6, <4>1, <4>2
        <3>2. u = First - 1 + Len(allocated)
            <4>1. ppc # "block"
                BY <1>1
            <4> QED
                BY <1>7, <3>1, <4>1 DEF Last
        <3>3. Filled(e + m) = Block(e + n) + 1 /\ Block(e + n) \in Int
            <4>1. e + m - 1 = e + n /\ e + n \in Int
                BY <1>6, <2>1
            <4> QED
                BY <4>1, BlockFacts DEF Filled
        <3> QED
            BY <3>1, <3>2, <3>3
    <2>5. B[u] \in Blocks
        BY <1>2, <1>7, <2>3, <2>4 DEF Live
    <2> QED
        BY <1>1, <2>3, <2>4, <2>5 DEF TailBlock
<1>14. Ring(o, u, B)'
    <2>1. Top(o, u)'
        BY <1>1, <1>4, <1>7 DEF Top
    <2> QED
        BY <1>1, <1>2, <1>3, <1>4, <2>1, RingStay
<1>15. Allocated(u, B)'
    BY <1>1, <1>2, <1>4, AllocatedStay
<1>16. Placed(B)'
    BY <1>1, <1>2, <1>3, PlacedStay DEF Freeing
<1>17. Holds' /\ Finds(o, B)' /\ Counted(B)'
    <2>1. Quiet /\ claimed' = claimed /\ index' = index
        BY <1>1, <1>3, QuietConsumer
    <2>2. emptied' \in [Blocks -> 0 .. BlockSize]
        BY <1>1, <1>2 DEF Counted
    <2> QED
        BY <1>1, <1>2, <1>3, <1>4, <2>1, <2>2, HoldsStay, FindsStay, CountedStay
<1> QED
    BY <1>12, <1>13, <1>14, <1>15, <1>16, <1>17 DEF Main

LEMMA MainPublish ==
    ASSUME NEW o, NEW u, NEW B, Main(o, u, B), ClaimsInv, Numbers, Publish
    PROVE  Main(o, u, B)'
<1>1. /\ ppc = "publish" /\ ppc' = "idle" /\ enqueued' = enqueued + call.count
      /\ allocated' = << >>
      /\ UNCHANGED <<blocks, blockIndex, tailBlock, consumer, claimed>>
    BY DEF Publish
<1>2. /\ Ring(o, u, B) /\ Allocated(u, B) /\ Placed(B) /\ TailBlock(u, B) /\ Top(o, u)
      /\ Live(index, o, u, B) /\ Holds /\ Finds(o, B) /\ Counted(B) /\ Contents(B)
    BY DEF Main, Ring
<1>3. UNCHANGED <<content, emptied, pool, index, indexTail, key, value, cpc, block, expect>>
    BY <1>1 DEF blocks, blockIndex, consumer
<1>4. u = Last /\ u \in Int
    BY <1>1, <1>2 DEF Top, Live
<1>5. PICK f \in Nat, l \in Nat : f = First /\ l = Len(allocated)
    BY NumberFacts DEF Numbers
<1>6. First' = f + l
    <2>1. todo = << >> /\ f + l + Len(todo) = Filled(enqueued + call.count)
        BY <1>1, <1>5 DEF Numbers, Phase, Numbered, Working
    <2>2. First' = Filled(enqueued + call.count)
        BY <1>1 DEF First, Filled
    <2> QED
        BY <1>5, <2>1, <2>2
<1>7. u = f + l - 1 /\ Last' = u
    <2>1. Len(allocated') = 0 /\ ppc # "block" /\ ppc' # "block"
        BY <1>1
    <2> QED
        BY <1>4, <1>5, <1>6, <2>1 DEF Last
<1>8. Ring(o, u, B)'
    <2>1. Top(o, u)'
        BY <1>1, <1>4, <1>7 DEF Top
    <2> QED
        BY <1>1, <1>2, <1>3, <1>4, <1>7, <2>1, RingStay
<1>9. Allocated(u, B)'
    <2>1. \A k \in Int : ~(B[k] # Null /\ k >= First')
        <3>1. \A k \in Int : B[k] # Null => k <= u
            BY <1>2 DEF Live
        <3> QED
            BY <1>5, <1>6, <1>7, <3>1
    <2>2. 1 .. Len(allocated') = {}
        BY <1>1
    <2> QED
        BY <2>1, <2>2 DEF Allocated
<1>10. Placed(B)'
    <2>1. Freeing' = Freeing
        BY <1>3 DEF Freeing
    <2> QED
        BY <1>1, <1>2, <1>3, <2>1 DEF Placed
<1>11. TailBlock(u, B)'
    <2>1. First' - 1 = u
        BY <1>4, <1>5, <1>6, <1>7
    <2> QED
        BY <1>1, <1>2, <2>1 DEF TailBlock
<1>12. Quiet /\ claimed' = claimed
    BY <1>1, QuietConsumer
<1>13. Holds' /\ Finds(o, B)'
    BY <1>2, <1>3, <1>12, HoldsStay, FindsStay
<1>14. Contents(B)'
    <2>1. enqueued' + Filling' = enqueued + Filling
        <3>1. call.count \in Nat /\ enqueued \in Nat
            BY NumberFacts DEF Numbers
        <3> QED
            BY <1>1, <3>1 DEF Filling
    <2> QED
        BY <1>2, <1>3, <1>12, <2>1, ContentsStay
<1>15. /\ \A k : Open(k)' = Open(k)
       /\ \A c : Mine(c)' = Mine(c)
    BY <1>3, <1>12, QuietFacts DEF Mine
<1>16. ASSUME NEW k \in Int, f <= k, k < f + l PROVE CountedOne(k, B)
    <2>1. PICK i \in 1 .. l : i = k - f + 1
        BY <1>5, <1>16
    <2>2. Number(u, i) = k
        <3>1. u - l + i = k
            BY <1>5, <1>7, <1>16, <2>1
        <3>2. Number(u, i) = u - l + i
            BY <1>1, <1>5 DEF Number
        <3> QED
            BY <3>1, <3>2
    <2>3. B[k] = allocated[i].block /\ B[k] # Null /\ emptied[B[k]] = 0
        <3>1. i \notin Unlinked
            BY <1>1 DEF Unlinked
        <3> QED
            BY <1>2, <1>5, <2>2, <3>1, BlocksAssumption DEF Allocated
    <2>4. Open(k) = ElementsOf(k)
        <3>1. ASSUME NEW n \in ElementsOf(k) PROVE n >= claimed
            <4>1. /\ claimed \in Nat /\ enqueued \in Nat /\ claimed <= enqueued
                  /\ enqueued <= f * BlockSize /\ BlockSize \in Nat
                BY <1>5, NumberFacts DEF Numbers
            <4>2. PICK x \in Int, y \in Int : x = k * BlockSize /\ y = f * BlockSize
                BY <1>5, <4>1
            <4>3. y <= x
                <5>1. (k - f) * BlockSize >= 0
                    BY <1>5, <1>16, <4>1
                <5>2. (k - f) * BlockSize = x - y
                    BY <1>5, <4>1, <4>2
                <5> QED
                    BY <4>2, <5>1, <5>2
            <4>4. n \in Int /\ x <= n
                BY <4>1, <4>2 DEF ElementsOf
            <4> QED
                BY <4>1, <4>2, <4>3, <4>4
        <3> QED
            BY <3>1 DEF Open
    <2>5. Cardinality(Open(k)) = BlockSize /\ Open(k) # {} /\ BlockSize \in Nat
        <3>1. BlockSize \in Nat \ {0, 1}
            BY Sizes
        <3>2. Cardinality(Open(k)) = BlockSize /\ (Cardinality(Open(k)) = 0 <=> Open(k) = {})
            BY <2>4, OpenFacts
        <3> QED
            BY <3>1, <3>2
    <2> QED
        BY <2>3, <2>5 DEF CountedOne
<1>17. Counted(B)'
    <2>1. ASSUME NEW k \in Int, 0 <= k, k < First' PROVE CountedOne(k, B)'
        <3>1. CountedOne(k, B)
            BY <1>2, <1>5, <1>6, <1>16, <2>1 DEF Counted
        <3> QED
            BY <1>3, <1>15, <3>1 DEF CountedOne
    <2> QED
        BY <1>2, <1>3, <1>15, <2>1 DEF Counted
<1> QED
    BY <1>8, <1>9, <1>10, <1>11, <1>13, <1>14, <1>17 DEF Main

(* enqueue_bulk takes a block back: the entry that it computes is that of the
   first block it still has. *)
LEMMA UndoIs ==
    ASSUME NEW o, NEW u, NEW B, Main(o, u, B), ClaimsInv, Numbers, UndoBlock
    PROVE  \E l \in Nat \ {0}, k \in Int, b \in Blocks :
                /\ l = Len(allocated) /\ k = u - l + 1 /\ First <= k /\ k <= u
                /\ B[k] = b /\ b # Null /\ Last = First - 1 + l
                /\ value' = [value EXCEPT ![Here(index, o, k)] = Null]
                /\ pool' = pool \union {b}
<1>1. /\ Shape(index, o) /\ Tails(o) /\ Allocated(u, B) /\ Top(o, u) /\ u \in Int
      /\ ppc = "undo" /\ u >= Last
    BY DEF UndoBlock, Main, Ring, Live, Top
<1>2. PICK l \in Nat \ {0} : l = Len(allocated)
    <2>1. Len(allocated) \in Nat /\ Len(allocated) # 0
        BY <1>1, NumberFacts, AnySequenceFacts DEF Numbers, Phase
    <2> QED
        BY <2>1
<1>3. PICK f \in Nat : f = First
    BY NumberFacts DEF Numbers
<1>4. Last = f - 1 + l
    BY <1>1, <1>2, <1>3 DEF Last
<1>5. PICK k \in Int : k = u - l + 1 /\ f <= k /\ k <= u
    BY <1>1, <1>2, <1>3, <1>4
<1>6. Number(u, 1) = k
    BY <1>1, <1>2, <1>5 DEF Number
<1>7. /\ Head(allocated) = allocated[1] /\ allocated[1].block \in Blocks
      /\ allocated[1].base = KeyOf(k) /\ B[k] = allocated[1].block
    <2>1. Head(allocated) = allocated[1]
        BY <1>1, AnySequenceFacts DEF Numbers, Phase
    <2>2. 1 \in 1 .. Len(allocated) /\ 1 \notin Unlinked
        BY <1>1, <1>2 DEF Unlinked
    <2> QED
        BY <1>1, <1>6, <2>1, <2>2 DEF Allocated
<1>8. PICK n : n = Len(index)
    OBVIOUS
<1>9. /\ n \in 1 .. n /\ n \in 1 .. MaxIndexes /\ o \in [1 .. MaxIndexes -> Int]
      /\ Capacity(n) = Cap(n)
    <2>1. n \in 1 .. n
        BY <1>1, <1>8 DEF Shape
    <2> QED
        BY <1>1, <1>8, <2>1, ShapeFacts DEF Shape, Capacity
<1>10. PICK t \in Int : t = Last
    BY <1>3, <1>4
<1>11. indexTail[n] = Slot(o, n, t) /\ key[Here(index, o, t)] = KeyOf(t)
    <2>1. t \in f .. u
        BY <1>1, <1>2, <1>3, <1>4, <1>10
    <2> QED
        BY <1>1, <1>3, <1>8, <1>10, <2>1 DEF Tails, Top
<1>12. SlotOf(n, indexTail[n], KeyOf(k)) = Slot(o, n, k)
    <2>1. PICK x \in Int : x = k * BlockSize
        <3>1. BlockSize \in Nat
            BY Sizes
        <3> QED
            BY <3>1
    <2>2. Block(x) = k
        <3>1. BlockSize \in Nat \ {0, 1}
            BY Sizes
        <3>2. k * BlockSize <= x /\ x < k * BlockSize + BlockSize
            BY <2>1, <3>1
        <3> QED
            BY <3>2, BlockIs
    <2>3. (Slot(o, n, t) + Wrap(Base(Wrap(x)) - Wrap(t * BlockSize)) \div BlockSize)
                % Cap(n) = Slot(o, n, k)
        BY <1>9, <2>2, SlotIsFound
    <2>4. Wrap(x) = KeyOf(k) /\ Wrap(t * BlockSize) = KeyOf(t)
        BY <2>1 DEF KeyOf
    <2>5. key[index[n][indexTail[n]]] = KeyOf(t)
        BY <1>8, <1>11 DEF Here, Entry
    <2> QED
        BY <1>9, <1>11, <2>3, <2>4, <2>5 DEF SlotOf
<1>13. /\ value' = [value EXCEPT ![Here(index, o, k)] = Null]
       /\ pool' = pool \union {allocated[1].block}
    BY <1>7, <1>8, <1>12 DEF UndoBlock, Current, Here, Entry
<1> QED
    BY <1>2, <1>3, <1>4, <1>5, <1>7, <1>13, BlocksAssumption

LEMMA MainUndo ==
    ASSUME NEW o, NEW u, NEW B, Main(o, u, B), ClaimsInv, Numbers, UndoBlock
    PROVE  \E w, C : Main(o, w, C)'
<1>1. PICK l \in Nat \ {0}, m \in Int, b \in Blocks :
        /\ l = Len(allocated) /\ m = u - l + 1 /\ First <= m /\ m <= u
        /\ B[m] = b /\ b # Null /\ Last = First - 1 + l
        /\ value' = [value EXCEPT ![Here(index, o, m)] = Null]
        /\ pool' = pool \union {b}
    BY UndoIs
<1> DEFINE h == Here(index, o, m)
<1>2. /\ ppc = "undo" /\ RewindTail /\ allocated' = Tail(allocated)
      /\ l = 1 => ppc' = "idle"
      /\ l # 1 => ppc' = "undo"
      /\ UNCHANGED <<consumer, claimed, enqueued, content, emptied, index, key, tailBlock>>
    BY <1>1 DEF UndoBlock, others
<1>3. /\ Ring(o, u, B) /\ Allocated(u, B) /\ Placed(B) /\ TailBlock(u, B) /\ Top(o, u)
      /\ Counted(B) /\ Shape(index, o) /\ Nested(index, o) /\ Tails(o) /\ Keys(index, o)
      /\ Fresh /\ Live(index, o, u, B) /\ u \in Int
    BY DEF Main, Ring, Live
<1>4. UNCHANGED <<cpc, block>>
    BY <1>2 DEF consumer
<1>5. PICK f \in Nat : f = First /\ First' = f
    BY <1>2, NumberFacts DEF First, Numbers
<1>6. /\ Len(allocated') = l - 1
      /\ \A i \in 1 .. (l - 1) : allocated'[i] = allocated[i + 1]
    <2>1. allocated # << >>
        BY <1>2 DEF Numbers, Phase
    <2> QED
        BY <1>1, <1>2, <2>1, AnySequenceFacts DEF Numbers, Phase
<1>7. Last' = f - 1 + (l - 1) /\ Last = f - 1 + l
    <2>1. ppc' # "block"
        BY <1>1, <1>2
    <2> QED
        BY <1>1, <1>5, <1>6, <2>1 DEF Last
<1>8. PICK w \in Int : w = IF l = 1 THEN f - 1 ELSE u
    BY <1>3, <1>5
<1>9. u >= f - 1 + l /\ w <= u /\ w >= Last' /\ f <= m /\ m <= u
    <2>1. u >= Last
        BY <1>3 DEF Top
    <2>2. u >= f - 1 + l
        BY <1>7, <2>1
    <2>3. w <= u /\ w >= f - 1 + (l - 1)
        BY <1>3, <1>5, <1>8, <2>2
    <2>4. f <= m /\ m <= u
        BY <1>1, <1>5
    <2> QED
        BY <1>7, <2>2, <2>3, <2>4
<1>10. PICK C : C = [B EXCEPT ![m] = Null]
    OBVIOUS
<1>11. /\ B \in [Int -> Blocks \union {Null}] /\ C \in [Int -> Blocks \union {Null}]
       /\ C[m] = Null /\ \A k \in Int : k # m => C[k] = B[k]
       /\ \A k \in Int : C[k] # Null => k # m /\ B[k] = C[k] /\ B[k] # b
    BY <1>1, <1>3, <1>10 DEF Live, Placed
<1>12. Tails(o)'
    <2>1. Last \in Int /\ Last' = Last - 1
        BY <1>5, <1>7
    <2> QED
        BY <1>2, <1>3, <2>1, TailsRewind
<1>13. Shape(index, o)' /\ Nested(index, o)' /\ Keys(index, o)' /\ Fresh'
    <2>1. Shape(index, o)' /\ Nested(index, o)' /\ Keys(index, o)'
        BY <1>2, <1>3, IndexStays
    <2>2. ppc # "reinsert" /\ ppc' # "reinsert"
        BY <1>1, <1>2
    <2>3. Old' = Old
        BY <1>2, <2>2 DEF Old
    <2>4. Fresh'
        BY <1>2, <1>3, <2>2, <2>3 DEF Fresh
    <2> QED
        BY <2>1, <2>4
<1>14. /\ value \in [Entries -> Blocks \union {Null}] /\ h \in Entries /\ value[h] = b
       /\ value' \in [Entries -> Blocks \union {Null}] /\ value'[h] = Null
       /\ \A e \in Entries : e # h => value'[e] = value[e]
    <2>1. Len(index) \in 1 .. Len(index)
        BY <1>3 DEF Shape
    <2>2. h \in Entries
        BY <1>3, <2>1, EntryFacts
    <2>3. value \in [Entries -> Blocks \union {Null}] /\ value[h] = b
        BY <1>1, <1>3 DEF Live
    <2> HIDE DEF h
    <2> QED
        BY <1>1, <2>2, <2>3 DEF h
<1> HIDE DEF h
<1>15. \A k \in Int : C[k] # Null => k <= w
    <2>1. ASSUME NEW k \in Int, C[k] # Null PROVE k <= w
        <3>1. k <= u
            BY <1>3, <1>11, <2>1 DEF Live
        <3>2. CASE l = 1
            <4>1. ASSUME k >= f PROVE FALSE
                <5>1. PICK i \in 1 .. l : k = Number(u, i)
                    BY <1>1, <1>3, <1>5, <1>11, <2>1, <4>1 DEF Allocated
                <5>2. i = 1 /\ Number(u, 1) = m
                    BY <1>1, <1>2, <1>3, <3>2 DEF Number
                <5> QED
                    BY <1>11, <2>1, <5>1, <5>2
            <4> QED
                BY <1>5, <1>8, <3>2, <4>1
        <3> QED
            BY <1>8, <3>1, <3>2
    <2> QED
        BY <2>1
<1>16. Live(index, o, w, C)'
    <2>1. ASSUME NEW k \in Int, C[k] # Null
          PROVE  /\ w - Cap(Len(index)) < k /\ k <= w /\ 0 <= k
                 /\ value'[Here(index, o, k)] = C[k]
                 /\ \A j \in k .. w : key[Here(index, o, j)] = KeyOf(j)
        <3>1. /\ u - Cap(Len(index)) < k /\ 0 <= k
              /\ value[Here(index, o, k)] = B[k]
              /\ \A j \in k .. u : key[Here(index, o, j)] = KeyOf(j)
            BY <1>3, <1>11, <2>1 DEF Live
        <3>2. /\ Cap(Len(index)) \in Nat /\ Here(index, o, k) \in Entries
            <4>1. Len(index) \in 1 .. Len(index)
                BY <1>3 DEF Shape
            <4> QED
                BY <1>3, <4>1, ShapeFacts, EntryFacts
        <3>3. w - Cap(Len(index)) < k
            BY <1>3, <1>9, <3>1, <3>2
        <3>4. Here(index, o, k) # h
            BY <1>11, <1>14, <2>1, <3>1
        <3>5. \A j \in k .. w : j \in k .. u
            BY <1>3, <1>9
        <3> QED
            BY <1>11, <1>14, <1>15, <2>1, <3>1, <3>2, <3>3, <3>4, <3>5
    <2>2. ASSUME NEW e \in Entries, value'[e] # Null
          PROVE  \E k \in Int : C[k] # Null /\ Here(index, o, k) = e
        <3>1. e # h /\ value[e] # Null
            BY <1>14, <2>2
        <3>2. PICK k \in Int : B[k] # Null /\ Here(index, o, k) = e
            BY <1>3, <3>1 DEF Live
        <3>3. k # m
            BY <3>1, <3>2 DEF h
        <3> QED
            BY <1>11, <3>2, <3>3
    <2> QED
        BY <1>2, <1>11, <1>14, <2>1, <2>2 DEF Live
<1>17. Ring(o, w, C)'
    <2>1. Top(o, w)'
        <3>1. ppc' = "undo" => w = u /\ \A j \in First .. u : key[Here(index, o, j)] = KeyOf(j)
            <4>1. \A j \in First .. u : key[Here(index, o, j)] = KeyOf(j)
                BY <1>2, <1>3 DEF Top
            <4>2. ppc' = "undo" => w = u
                BY <1>2, <1>8
            <4> QED
                BY <4>1, <4>2
        <3>2. ppc' # "undo" => w = Last' /\ ppc' = "idle"
            <4>1. ppc' # "undo" => l = 1 /\ ppc' = "idle"
                BY <1>2
            <4>2. l = 1 => w = f - 1 /\ Last' = f - 1
                BY <1>5, <1>7, <1>8
            <4> QED
                BY <4>1, <4>2
        <3> QED
            BY <1>2, <1>5, <1>9, <3>1, <3>2 DEF Top
    <2> QED
        BY <1>12, <1>13, <1>16, <2>1 DEF Ring
<1>18. \A i \in 1 .. (l - 1) : Number(w, i)' = Number(u, i + 1) /\ Number(u, i + 1) # m
       /\ Number(u, i + 1) \in Int /\ i + 1 \in 1 .. l
    <2>1. ASSUME NEW i \in 1 .. (l - 1)
          PROVE  Number(w, i)' = Number(u, i + 1) /\ Number(u, i + 1) # m
                 /\ Number(u, i + 1) \in Int /\ i + 1 \in 1 .. l
        <3>1. l # 1 /\ w = u /\ ppc' = "undo"
            BY <1>2, <1>8
        <3>2. Number(w, i)' = u - (l - 1) + i /\ Number(u, i + 1) = u - l + (i + 1)
            BY <1>1, <1>2, <1>6, <3>1 DEF Number
        <3>3. u - (l - 1) + i = u - l + (i + 1) /\ u - l + (i + 1) # m
              /\ u - l + (i + 1) \in Int /\ i + 1 \in 1 .. l
            BY <1>1, <1>3
        <3> QED
            BY <3>2, <3>3
    <2> QED
        BY <2>1
<1>19. Allocated(w, C)'
    <2>1. ASSUME NEW i \in 1 .. (l - 1)
          PROVE  /\ allocated'[i].block \in Blocks /\ emptied[allocated'[i].block] = 0
                 /\ allocated'[i].base = KeyOf(Number(w, i)')
                 /\ C[Number(w, i)'] = allocated'[i].block
        <3>1. PICK j \in 1 .. l : j = i + 1 /\ allocated'[i] = allocated[j]
            BY <1>6, <1>18
        <3>2. /\ allocated[j].block \in Blocks /\ emptied[allocated[j].block] = 0
              /\ allocated[j].base = KeyOf(Number(u, j))
              /\ B[Number(u, j)] = allocated[j].block
            <4>1. j \notin Unlinked
                BY <1>2 DEF Unlinked
            <4> QED
                BY <1>1, <1>3, <4>1 DEF Allocated
        <3> QED
            BY <1>11, <1>18, <3>1, <3>2
    <2>2. ASSUME NEW k \in Int, C[k] # Null, k >= f
          PROVE  \E i \in 1 .. (l - 1) : k = Number(w, i)'
        <3>1. PICK j \in 1 .. l : k = Number(u, j)
            BY <1>1, <1>3, <1>5, <1>11, <2>2 DEF Allocated
        <3>2. j # 1
            <4>1. Number(u, 1) = m
                BY <1>1, <1>2, <1>3 DEF Number
            <4> QED
                BY <1>11, <2>2, <3>1, <4>1
        <3>3. PICK i \in 1 .. (l - 1) : j = i + 1
            BY <3>2
        <3> QED
            BY <1>18, <3>1, <3>3
    <2> QED
        BY <1>2, <1>5, <1>6, <2>1, <2>2 DEF Allocated
<1>20. Placed(C)'
    <2>1. Freeing' = Freeing /\ \A c \in Freeing : block'[c] = block[c]
        BY <1>4 DEF Freeing
    <2>2. ppc # "link" /\ ppc' # "link"
        BY <1>2
    <2>3. \A j, k \in Int : C[j] = C[k] /\ C[j] # Null => j = k
        BY <1>3, <1>11 DEF Placed
    <2>4. \A k \in Int : C[k] \notin pool'
        <3>1. Null \notin pool'
            BY <1>1, <1>3, BlocksAssumption DEF Placed
        <3> QED
            BY <1>1, <1>3, <1>11, <3>1 DEF Placed
    <2>5. ASSUME NEW c \in Freeing
          PROVE  /\ block[c] \in Blocks \ pool'
                 /\ \A k \in Int : C[k] # block[c]
                 /\ \A d \in Freeing : block[d] = block[c] => d = c
        <3>1. /\ block[c] \in Blocks \ pool /\ \A k \in Int : B[k] # block[c]
              /\ \A d \in Freeing : block[d] = block[c] => d = c
            BY <1>3 DEF Placed
        <3>2. block[c] # b /\ block[c] # Null
            BY <1>1, <3>1, BlocksAssumption
        <3> QED
            BY <1>1, <1>11, <3>1, <3>2
    <2>6. ASSUME NEW a \in Blocks
          PROVE  a \in pool' \/ (\E k \in Int : C[k] = a) \/ \E c \in Freeing : block[c] = a
        <3>1. \/ a \in pool \/ (\E k \in Int : B[k] = a) \/ \E c \in Freeing : block[c] = a
            BY <1>3, <2>2 DEF Placed
        <3>2. ASSUME NEW k \in Int, B[k] = a PROVE a = b \/ C[k] = a
            BY <1>1, <1>11, <3>2
        <3> QED
            BY <1>1, <3>1, <3>2
    <2>7. pool' \subseteq Blocks
        BY <1>1, <1>3 DEF Placed
    <2> QED
        BY <2>1, <2>2, <2>3, <2>4, <2>5, <2>6, <2>7 DEF Placed
<1>21. TailBlock(w, C)'
    <2>1. C[f - 1] = B[f - 1]
        BY <1>5, <1>9, <1>11
    <2> QED
        BY <1>2, <1>3, <1>5, <2>1 DEF TailBlock
<1>22. Holds' /\ Finds(o, C)' /\ Counted(C)' /\ Contents(C)'
    <2>1. emptied' \in [Blocks -> 0 .. BlockSize]
        BY <1>2, <1>3 DEF Counted
    <2>2. \A k \in Int : k < First => C[k] = B[k]
        BY <1>5, <1>9, <1>11
    <2> QED
        BY <1>2, <2>1, <2>2, ConsumersStay
<1>23. Main(o, w, C)'
    BY <1>17, <1>19, <1>20, <1>21, <1>22 DEF Main
<1> QED
    BY <1>23

(* Every step of the producer keeps the invariant. *)
LEMMA MainProduce ==
    ASSUME NEW o, NEW u, NEW B, Main(o, u, B), ClaimsInv, Numbers, Produce
    PROVE  \E p, w, C : Main(p, w, C)'
<1>1. CASE \/ Room \/ InsertFails \/ ConstructFails
           \/ \E n \in EnqueueCounts, isSingle \in BOOLEAN : EnqueueCall(n, isSingle)
    <2>1. Main(o, u, B)'
        BY <1>1, MainFails
    <2> QED
        BY <2>1
<1>2. CASE Insert \/ Reinsert
    <2>1. Main(o, u, B)'
        BY <1>2, MainInsert
    <2> QED
        BY <2>1
<1>3. CASE InsertTail
    <2>1. \E w : Main(o, w, B)'
        BY <1>3, MainInsertTail
    <2> QED
        BY <2>1
<1>4. CASE GetBlock
    <2>1. Main(o, u, B)'
        BY <1>4, MainGetBlock
    <2> QED
        BY <2>1
<1>5. CASE GetBlockFails
    <2>1. \E w : Main(o, w, B)'
        BY <1>5, MainGetBlockFails
    <2> QED
        BY <2>1
<1>6. CASE ConstructThrows
    <2>1. \E w : Main(o, w, B)'
        BY <1>6, MainConstructThrows
    <2> QED
        BY <2>1
<1>7. CASE NewIndex
    <2>1. \E p : Main(p, u, B)'
        BY <1>7, MainNewIndex
    <2> QED
        BY <2>1
<1>8. CASE Link
    <2>1. \E C : Main(o, u, C)'
        BY <1>8, MainLink
    <2> QED
        BY <2>1
<1>9. CASE Construct
    <2>1. Main(o, u, B)'
        BY <1>9, MainConstruct
    <2> QED
        BY <2>1
<1>10. CASE Publish
    <2>1. Main(o, u, B)'
        BY <1>10, MainPublish
    <2> QED
        BY <2>1
<1>11. CASE UndoBlock
    <2>1. \E w, C : Main(o, w, C)'
        BY <1>11, MainUndo
    <2> QED
        BY <2>1
<1> QED
    BY <1>1, <1>2, <1>3, <1>4, <1>5, <1>6, <1>7, <1>8, <1>9, <1>10, <1>11 DEF Produce

-----------------------------------------------------------------------------
(* A stream whose constructor could not allocate the block index: nothing is *)
(* ever enqueued in it.                                                      *)

Empty ==
    /\ enqueued = 0 /\ allocated = << >> /\ indexTail = << >>
    /\ ppc \in {"idle", "room", "insert"}
    /\ \A c \in Consumers : cpc[c] \notin Holding
    /\ pool = Blocks /\ tailBlock = Null
    /\ content = [b \in Blocks |-> [i \in Places |-> 0]]
    /\ emptied = [b \in Blocks |-> 0]
    /\ key = [e \in Entries |-> InvalidBase]
    /\ value = [e \in Entries |-> Null]

LEMMA FilledNone ==
    /\ Filled(0) = 0
    /\ \A n \in Nat \ {0} : Filled(n) \in Nat \ {0}
<1>1. BlockSize \in Nat \ {0, 1}
    BY Sizes
<1>2. Filled(0) = 0
    <2>1. 0 % BlockSize = 0 /\ Block(0) = 0
        <3>1. 0 * BlockSize <= 0 /\ 0 < 0 * BlockSize + BlockSize /\ 0 \in Int
            BY <1>1
        <3>2. Block(0) = 0
            BY <3>1, BlockIs
        <3>3. PICK r \in Int : r = 0 % BlockSize
            BY BlockFacts
        <3>4. 0 = 0 * BlockSize + r
            BY <3>2, <3>3, BlockFacts
        <3> QED
            BY <1>1, <3>2, <3>3, <3>4
    <2> QED
        BY <2>1, FilledFacts
<1>3. ASSUME NEW n \in Nat \ {0} PROVE Filled(n) \in Nat \ {0}
    <2>1. Filled(n) \in Int /\ n <= Filled(n) * BlockSize
        BY FilledFacts
    <2>2. PICK q \in Int : q = Filled(n)
        BY <2>1
    <2>3. q > 0
        <3>1. q <= 0 => q * BlockSize <= 0
            BY <1>1
        <3>2. PICK p \in Int : p = q * BlockSize
            BY <1>1
        <3>3. n <= p
            BY <2>1, <2>2, <3>2
        <3> QED
            BY <3>1, <3>2, <3>3
    <2> QED
        BY <2>2, <2>3
<1> QED
    BY <1>2, <1>3

LEMMA EmptyProduce ==
    ASSUME index = << >>, Empty, ClaimsInv, Numbers, Produce
    PROVE  index' = << >> /\ Empty'
<1>1. /\ ppc \in {"idle", "room", "insert"} /\ allocated = << >> /\ enqueued = 0
      /\ \A c \in Consumers : cpc[c] \notin Holding
    BY DEF Empty
<1>2. CASE \/ Room \/ InsertFails
           \/ \E n \in EnqueueCounts, isSingle \in BOOLEAN : EnqueueCall(n, isSingle)
    <2>1. /\ UNCHANGED <<enqueued, consumer, blocks, blockIndex, tailBlock>>
          /\ allocated' = << >>
        BY <1>1, <1>2 DEF Room, InsertFails, EnqueueCall, others
    <2>2. ppc' \in {"idle", "room", "insert"}
        <3>1. CASE Room
            BY <1>1, <3>1 DEF Room, Fail
        <3>2. CASE InsertFails
            BY <1>1, <3>2 DEF InsertFails, Fail
        <3>3. ASSUME NEW n \in EnqueueCounts, NEW isSingle \in BOOLEAN,
                     EnqueueCall(n, isSingle)
              PROVE  ppc' = "room"
            <4>1. n \in Nat \ {0} /\ tailIndex = Wrap(0)
                BY <1>1, <3>3, CountsAssumption, ClaimsGive
            <4>2. Len(NewBases(n)) = Filled(0 + n) - Filled(0)
                BY <4>1, NewBasesAre
            <4>3. Len(NewBases(n)) # 0
                BY <4>1, <4>2, FilledNone
            <4> QED
                BY <3>3, <4>3 DEF EnqueueCall
        <3> QED
            BY <1>2, <3>1, <3>2, <3>3
    <2> QED
        BY <2>1, <2>2 DEF Empty, consumer, blocks, blockIndex
<1>3. CASE Insert \/ NewIndex
    BY <1>3 DEF Insert, NewIndex
<1>4. ~(\/ Reinsert \/ InsertTail \/ GetBlock \/ GetBlockFails \/ Link \/ ConstructThrows
        \/ Construct \/ ConstructFails \/ Publish \/ UndoBlock)
    BY <1>1 DEF Reinsert, InsertTail, GetBlock, GetBlockFails, Link, ConstructThrows,
                Construct, ConstructFails, Publish, UndoBlock
<1> QED
    BY <1>2, <1>3, <1>4 DEF Produce

LEMMA EmptyConsume ==
    ASSUME index = << >>, Empty, ClaimsInv, Locals, NEW c \in Consumers, Consume(c)
    PROVE  index' = << >> /\ Empty'
<1>1. /\ cpc[c] \notin Holding /\ enqueued = 0
      /\ \A d \in Consumers : cpc[d] \notin Holding
    BY DEF Empty
<1>2. ~Take(c)
    <2>1. cpc[c] = "take" => left[c] \in Nat \ {0} /\ claimed + left[c] <= 0
        BY <1>1, ClaimsGive
    <2>2. claimed \in Nat
        BY ClaimsGive
    <2> QED
        BY <2>1, <2>2 DEF Take
<1>3. ~(\/ LoadIndex(c) \/ LoadTail(c) \/ LoadKey(c) \/ Move(c) \/ SetEmpty(c)
        \/ NullEntry(c) \/ Free(c))
    BY <1>1 DEF Holding, LoadIndex, LoadTail, LoadKey, Move, SetEmpty, NullEntry, Free
<1>4. Asks(c)
    BY <1>2, <1>3 DEF Consume, Asks
<1>5. UNCHANGED <<blocks, blockIndex, producer, enqueued>>
    BY <1>4, AskFrame
<1>6. \E p \in AskingPoints : cpc' = [cpc EXCEPT ![c] = p]
    BY <1>4, AskFrame
<1>7. \A d \in Consumers : cpc'[d] \notin Holding
    BY <1>1, <1>6 DEF Locals, Holding, AskingPoints
<1> QED
    BY <1>5, <1>7 DEF Empty, blocks, blockIndex, producer

LEMMA FirstCap == Cap(1) = InitialCapacity
<1>1. 2^0 = 1
    <2>1. IsFiniteSet({}) /\ Cardinality({}) = 0
        BY FS_EmptySet
    <2>2. Cardinality(SUBSET {}) = 2^0
        BY <2>1, FS_SUBSET
    <2>3. SUBSET {} = {{}}
        OBVIOUS
    <2>4. Cardinality({{}}) = 1
        BY FS_Singleton
    <2> QED
        BY <2>2, <2>3, <2>4
<1>2. InitialCapacity \in Nat
    BY Sizes
<1>3. 1 - 1 = 0
    OBVIOUS
<1> QED
    BY <1>1, <1>2, <1>3 DEF Cap

LEMMA MainInit ==
    ASSUME Init, index # << >>
    PROVE  \E o, u, B : Main(o, u, B)
<1> DEFINE o == [h \in 1 .. MaxIndexes |-> 0]
           B == [k \in Int |-> Null]
<1>1. /\ index = <<FirstIndex>> /\ indexTail = <<InitialCapacity - 1>>
      /\ key = [e \in Entries |-> InvalidBase] /\ value = [e \in Entries |-> Null]
      /\ ppc = "idle" /\ allocated = << >> /\ pool = Blocks /\ tailBlock = Null
      /\ enqueued = 0 /\ claimed = 0 /\ emptied = [b \in Blocks |-> 0]
      /\ content = [b \in Blocks |-> [i \in Places |-> 0]]
      /\ \A c \in Consumers : cpc[c] = "idle"
    BY DEF Init
<1>2. /\ Cap(1) = InitialCapacity /\ InitialCapacity \in Nat \ {0}
      /\ MaxIndexes \in Nat \ {0} /\ IndexValues \in Nat \ {0, 1}
      /\ BlockSize \in Nat \ {0, 1}
    BY FirstCap, Sizes
<1>3. First = 0 /\ Last = -1
    <2>1. First = 0
        BY <1>1, FilledNone DEF First
    <2>2. Len(allocated) = 0
        BY <1>1
    <2> QED
        BY <1>1, <2>1, <2>2 DEF Last
<1>4. Len(index) = 1 /\ index[1] = FirstIndex /\ Len(indexTail) = 1
      /\ indexTail[1] = InitialCapacity - 1 /\ indexTail \in Seq(Int)
    BY <1>1, <1>2
<1>5. Shape(index, o)
    <2>1. AnySequence(index)
        <3>1. index \in Seq({FirstIndex})
            BY <1>1
        <3> QED
            BY <3>1 DEF AnySequence
    <2>2. /\ FirstIndex \in [0 .. (InitialCapacity - 1) -> 1 .. InitialCapacity]
          /\ \A s, t \in 0 .. (InitialCapacity - 1) : FirstIndex[s] = FirstIndex[t] => s = t
        BY <1>2 DEF FirstIndex
    <2> QED
        BY <1>2, <1>4, <2>1, <2>2 DEF Shape
<1>6. Nested(index, o)
    BY <1>4 DEF Nested, Here
<1>7. Tails(o)
    <2>1. Slot(o, 1, -1) = InitialCapacity - 1
        <3>1. o[1] = 0 /\ -1 + o[1] = -1
            BY <1>2
        <3>2. /\ Divided(-1, InitialCapacity, -1, InitialCapacity - 1)
              /\ InitialCapacity - 1 \in 0 .. (InitialCapacity - 1)
            BY <1>2 DEF Divided
        <3>3. Mod(-1, InitialCapacity) = InitialCapacity - 1
            <4>1. PICK c \in Nat \ {0} : c = InitialCapacity
                BY <1>2
            <4>2. -1 \in Int /\ c - 1 \in 0 .. (c - 1) /\ c - 1 \in Int
                OBVIOUS
            <4>3. Divided(-1, c, -1, c - 1)
                BY <3>2, <4>1
            <4>4. Mod(-1, c) = c - 1
                BY <4>2, <4>3, DivisionIs
            <4> QED
                BY <4>1, <4>4
        <3> HIDE DEF o
        <3> QED
            BY <1>2, <3>1, <3>3, SlotIsMod
    <2> QED
        BY <1>3, <1>4, <2>1 DEF Tails
<1>8. Keys(index, o)
    <2>1. InvalidBase \in 0 .. (IndexValues - 1)
        BY <1>2 DEF InvalidBase
    <2>2. \A s \in 0 .. (Cap(1) - 1) : index[1][s] \in Entries
        <3>1. 1 \in 1 .. Len(index)
            BY <1>4
        <3> QED
            BY <1>5, <3>1, ShapeFacts
    <2> QED
        BY <1>1, <1>4, <2>1, <2>2 DEF Keys
<1>9. Fresh
    BY <1>1 DEF Fresh
<1>10. B \in [Int -> Blocks \union {Null}] /\ \A k \in Int : B[k] = Null
    OBVIOUS
<1> HIDE DEF B, o
<1>11. Live(index, o, -1, B)
    BY <1>1, <1>10 DEF Live
<1>12. Top(o, -1)
    BY <1>1, <1>3 DEF Top
<1>13. Allocated(-1, B)
    <2>1. Len(allocated) = 0
        BY <1>1
    <2> QED
        BY <1>10, <2>1 DEF Allocated
<1>14. Placed(B)
    BY <1>1, <1>10, BlocksAssumption DEF Placed, Freeing
<1>15. TailBlock(-1, B)
    BY <1>1, <1>3, <1>10 DEF TailBlock
<1>16. \A c \in Consumers : cpc[c] \notin Holding /\ Held(c) = {} /\ Unmoved(c) = {}
    BY <1>1 DEF Holding, Held, Unmoved
<1>17. Holds
    BY <1>16 DEF Holds, HoldsOne, Holding, Moved
<1>18. Finds(o, B)
    BY <1>1 DEF Finds, FindsOne, Loaded, Moved
<1>19. Counted(B)
    <2>1. emptied \in [Blocks -> 0 .. BlockSize]
        BY <1>1, <1>2
    <2> QED
        BY <1>1, <1>3, <2>1 DEF Counted
<1>20. Contents(B)
    <2>1. \A n \in Int : ~Kept(n)
        BY <1>1, <1>16 DEF Kept, Filling
    <2>2. content \in [Blocks -> [Places -> Nat]]
        BY <1>1
    <2> QED
        BY <2>1, <2>2 DEF Contents
<1> QED
    BY <1>5, <1>6, <1>7, <1>8, <1>9, <1>11, <1>12, <1>13, <1>14, <1>15, <1>17, <1>18,
       <1>19, <1>20 DEF Main, Ring

-----------------------------------------------------------------------------
(* The invariant *)

MainInv == IF index = << >> THEN Empty ELSE \E o, u, B : Main(o, u, B)

LEMMA MainSame ==
    ASSUME NEW o, NEW u, NEW B, Main(o, u, B), UNCHANGED vars
    PROVE  Main(o, u, B)'
<1>1. /\ UNCHANGED <<content, emptied, pool, index, indexTail, key, value, tailBlock, ppc,
                     call, todo, allocated, enqueued, claimed>>
      /\ UNCHANGED <<cpc, left, at, header, slot, block, part, expect>>
    BY DEF vars, blocks, blockIndex, producer, others, consumer
<1>2. /\ UNCHANGED <<producer, enqueued, claimed, index, indexTail, key, value, blocks>>
      /\ Quiet
    BY <1>1 DEF producer, blocks, Quiet, QuietOne
<1> QED
    BY <1>2, MainQuiet

LEMMA MainNext ==
    ASSUME MainInv, Numbers, ClaimsInv, Locals, [Next]_vars
    PROVE  MainInv'
<1>1. CASE index = << >>
    <2>1. Empty
        BY <1>1 DEF MainInv
    <2>2. CASE UNCHANGED vars
        BY <1>1, <2>1, <2>2
            DEF MainInv, Empty, vars, blocks, blockIndex, producer, others, consumer
    <2>3. ASSUME Produce \/ \E c \in Consumers : Consume(c)
          PROVE  index' = << >> /\ Empty'
        BY <1>1, <2>1, <2>3, EmptyProduce, EmptyConsume
    <2> QED
        BY <2>2, <2>3 DEF MainInv, Next
<1>2. CASE index # << >>
    <2>1. PICK o, u, B : Main(o, u, B)
        BY <1>2 DEF MainInv
    <2>2. \E p, w, C : Main(p, w, C)'
        <3>1. CASE UNCHANGED vars
            BY <2>1, <3>1, MainSame
        <3>2. CASE Produce
            BY <2>1, <3>2, MainProduce
        <3>3. ASSUME NEW c \in Consumers, Consume(c)
              PROVE  \E C : Main(o, u, C)'
            BY <2>1, <3>3, MainConsume
        <3> QED
            BY <3>1, <3>2, <3>3 DEF Next
    <2>3. index' # << >>
        <3>1. PICK p, w, C : Main(p, w, C)'
            BY <2>2
        <3>2. AnySequence(index') /\ Len(index') \in 1 .. MaxIndexes
            BY <3>1 DEF Main, Ring, Shape
        <3>3. Len(index') # 0
            BY <3>2, Sizes
        <3> QED
            BY <3>2, <3>3, AnySequenceFacts
    <2> QED
        BY <2>2, <2>3 DEF MainInv
<1> QED
    BY <1>1, <1>2

LEMMA MainAlways == Spec => [](MainInv /\ Numbers /\ ClaimsInv)
<1>1. Init => MainInv
    <2> SUFFICES ASSUME Init PROVE MainInv
        OBVIOUS
    <2>1. CASE index = << >>
        <3>1. indexTail = << >>
            BY <2>1 DEF Init
        <3> QED
            BY <2>1, <3>1 DEF MainInv, Init, Empty, Holding
    <2>2. CASE index # << >>
        BY <2>2, MainInit DEF MainInv
    <2> QED
        BY <2>1, <2>2
<1> QED
    BY <1>1, MainNext, NumbersAlways, PTL DEF Spec

-----------------------------------------------------------------------------
(* What the consumers find *)

LEMMA FoundEntry ==
    ASSUME ClaimsInv, NEW o, NEW u, NEW B, Main(o, u, B), NEW c \in Consumers,
           cpc[c] = "move"
    PROVE  /\ value[EntryOf(c)] = B[Block(expect[c])] /\ value[EntryOf(c)] # Null
           /\ key[EntryOf(c)] = Base(at[c])
<1>1. /\ expect[c] \in Nat /\ left[c] \in Nat \ {0} /\ at[c] = Wrap(expect[c])
      /\ Block(expect[c]) \in Nat /\ B[Block(expect[c])] # Null
    BY HoldsFirst
<1>2. PICK e \in Nat : e = expect[c]
    BY <1>1
<1>3. PICK k \in Nat : k = Block(e)
    BY <1>1, <1>2
<1>4. FindsOne(c, o, B) /\ Live(index, o, u, B)
    BY DEF Main, Finds, Ring
<1>5. EntryOf(c) = Here(index, o, k)
    <2>1. k * BlockSize < e + left[c]
        <3>1. k * BlockSize <= e
            BY <1>3, BlockBound
        <3>2. PICK x \in Int : x = k * BlockSize
            BY Sizes
        <3> QED
            BY <1>1, <3>1, <3>2
    <2>2. Entry(index, o, header[c], k) = Here(index, o, k)
        BY <1>1, <1>2, <1>3, <1>4, <2>1 DEF FindsOne, Loaded
    <2> QED
        BY <1>2, <1>3, <1>4, <2>2 DEF FindsOne, EntryOf, Entry
<1>6. value[EntryOf(c)] = B[k] /\ key[EntryOf(c)] = KeyOf(k)
    <2>1. k \in Int /\ k <= u /\ value[Here(index, o, k)] = B[k]
          /\ \A j \in k .. u : key[Here(index, o, j)] = KeyOf(j)
        BY <1>1, <1>2, <1>3, <1>4 DEF Live
    <2>2. u \in Int
        BY <1>4 DEF Live
    <2>3. k \in k .. u
        BY <2>1, <2>2
    <2> QED
        BY <1>5, <2>1, <2>3
<1>7. Base(at[c]) = KeyOf(k)
    BY <1>1, <1>2, <1>3, WrapOfIndex DEF KeyOf
<1> QED
    BY <1>1, <1>2, <1>3, <1>6, <1>7

LEMMA TypesHold ==
    ASSUME MainInv, Numbers, ClaimsInv
    PROVE  TypeOK
<1>1. /\ {tailIndex, headIndex, dequeueOptimisticCount, dequeueOvercommit}
            \subseteq 0 .. (IndexValues - 1)
    <2>1. PICK X \in Int, x \in [Consumers -> Int], b \in [Consumers -> Int], m \in Nat :
                Claims(X, x, b, m)
        BY DEF ClaimsInv
    <2>2. /\ dequeueOptimisticCount \in 0 .. (IndexValues - 1)
          /\ dequeueOvercommit \in 0 .. (IndexValues - 1)
        BY <2>1 DEF Claims, Counters
    <2>3. tailIndex \in 0 .. (IndexValues - 1) /\ headIndex \in 0 .. (IndexValues - 1)
        BY ClaimsGive, WrapFacts
    <2> QED
        BY <2>2, <2>3
<1>2. CASE index = << >>
    <2>1. Empty
        BY <1>2 DEF MainInv
    <2>2. Len(index) = 0 /\ Len(indexTail) = 0
        BY <1>2, <2>1 DEF Empty
    <2>3. BlockSize \in Nat /\ MaxIndexes \in Nat /\ InvalidBase \in 0 .. (IndexValues - 1)
        BY Sizes DEF InvalidBase
    <2> QED
        BY <1>1, <2>1, <2>2, <2>3 DEF Empty, TypeOK
<1>3. CASE index # << >>
    <2>1. PICK o, u, B : Main(o, u, B)
        BY <1>3 DEF MainInv
    <2>2. Shape(index, o) /\ Tails(o) /\ Keys(index, o) /\ Live(index, o, u, B)
        BY <2>1 DEF Main, Ring
    <2>3. content \in [Blocks -> [Places -> Nat]] /\ emptied \in [Blocks -> 0 .. BlockSize]
        BY <2>1 DEF Main, Contents, Counted
    <2>4. /\ pool \subseteq Blocks /\ tailBlock \in Blocks \union {Null}
          /\ key \in [Entries -> 0 .. (IndexValues - 1)]
          /\ value \in [Entries -> Blocks \union {Null}]
        BY <2>1, <2>2 DEF Main, Placed, TailBlock, Keys, Live
    <2>5. Len(index) \in 1 .. MaxIndexes /\ Len(index) = Len(indexTail)
        BY <2>2 DEF Shape, Tails
    <2>6. Len(index) \in Nat /\ Len(index) <= MaxIndexes
        BY <2>5, Sizes
    <2>7. ASSUME NEW h \in 1 .. Len(index)
          PROVE  /\ index[h] \in [0 .. (InitialCapacity * 2^(h - 1) - 1) -> Entries]
                 /\ indexTail[h] \in DOMAIN index[h]
        <3>1. /\ 1 .. Cap(h) \subseteq Entries /\ DOMAIN index[h] = 0 .. (Cap(h) - 1)
              /\ h \in 1 .. MaxIndexes
            BY <2>2, ShapeFacts
        <3>2. index[h] \in [0 .. (Cap(h) - 1) -> Entries]
            BY <2>2, <3>1 DEF Shape
        <3>3. indexTail[h] \in 0 .. (Cap(h) - 1)
            <4>1. CASE h = Len(index)
                <5>1. First \in Nat /\ Len(allocated) \in Nat
                    BY NumberFacts DEF Numbers
                <5>2. Last \in Int
                    BY <5>1 DEF Last
                <5>3. o \in [1 .. MaxIndexes -> Int]
                    BY <2>2 DEF Shape
                <5>4. indexTail[h] = Slot(o, h, Last)
                    BY <2>2, <4>1 DEF Tails
                <5> QED
                    BY <3>1, <5>2, <5>3, <5>4, SlotFacts
            <4>2. CASE h # Len(index)
                <5>1. h \in 1 .. (Len(index) - 1)
                    BY <2>6, <4>2
                <5> QED
                    BY <2>2, <5>1 DEF Tails
            <4> QED
                BY <4>1, <4>2
        <3> QED
            BY <3>1, <3>2, <3>3 DEF Cap
    <2> QED
        BY <1>1, <2>3, <2>4, <2>5, <2>6, <2>7 DEF TypeOK
<1> QED
    BY <1>2, <1>3

(* A consumer finds the block of what it claimed, whatever the producer      *)
(* inserts, takes back or copies to a larger index meanwhile; in a new index *)
(* the place after the last entry is free, as the assertion of               *)
(* insert_block_index_entry says; and claims stay within what is enqueued.   *)
THEOREM IndexStaysSound == Spec => []IndexIsSound
<1>1. ASSUME MainInv, Numbers, ClaimsInv PROVE IndexIsSound
    <2>1. TypeOK
        BY <1>1, TypesHold
    <2>2. ClaimedIsEnqueued
        BY <1>1, ClaimsGive DEF ClaimedIsEnqueued
    <2>3. CASE index = << >>
        <3>1. Empty
            BY <1>1, <2>3 DEF MainInv
        <3> QED
            BY <2>1, <2>2, <3>1
                DEF Empty, Holding, IndexIsSound, EntryIsFound, NewIndexHasRoom
    <2>4. CASE index # << >>
        <3>1. PICK o, u, B : Main(o, u, B)
            BY <1>1, <2>4 DEF MainInv
        <3>2. ASSUME NEW c \in Consumers, cpc[c] = "key"
              PROVE  key[index[header[c]][slot[c]]] # InvalidBase
            BY <3>1, <3>2 DEF Main, Finds, FindsOne
        <3>3. ASSUME NEW c \in Consumers, cpc[c] = "move"
              PROVE  key[EntryOf(c)] = Base(at[c]) /\ value[EntryOf(c)] # Null
            BY <1>1, <3>1, <3>3, FoundEntry
        <3>4. NewIndexHasRoom
            BY <3>1, ReinsertIsFree DEF NewIndexHasRoom
        <3>5. EntryIsFound
            BY <3>2, <3>3 DEF EntryIsFound
        <3> QED
            BY <2>1, <2>2, <3>4, <3>5 DEF IndexIsSound
    <2> QED
        BY <2>3, <2>4
<1> QED
    BY <1>1, MainAlways, PTL

(* What a consumer moves out of the block is what it claimed: the elements   *)
(* go out once, in the order in which they came in, and no block is filled   *)
(* again before the last of its elements is out.                             *)
THEOREM ElementsInOrder == Spec => []RightElement
<1>1. ASSUME MainInv, ClaimsInv, NEW c \in Consumers, cpc[c] = "move",
             NEW i \in 0 .. (PartOf(c) - 1)
      PROVE  content[value[EntryOf(c)]][(at[c] + i) % BlockSize] = expect[c] + 1 + i
    <2>1. index # << >>
        BY <1>1 DEF MainInv, Empty, Holding
    <2>2. PICK o, u, B : Main(o, u, B)
        BY <1>1, <2>1 DEF MainInv
    <2>3. value[EntryOf(c)] = B[Block(expect[c])]
        BY <1>1, <2>2, FoundEntry
    <2>4. /\ expect[c] \in Nat /\ left[c] \in Nat \ {0} /\ at[c] = Wrap(expect[c])
        BY <1>1, <2>2, HoldsFirst
    <2>5. PICK e \in Nat : e = expect[c]
        BY <2>4
    <2>6. PICK l \in Nat \ {0} : l = left[c]
        BY <2>4
    <2>7. PICK n : n = PartOf(c)
        OBVIOUS
    <2>8. n = Minimum(l, BlockSize - (e % BlockSize))
        BY <2>4, <2>5, <2>6, <2>7, WrapOfIndex DEF PartOf
    <2>9. /\ n \in 1 .. BlockSize /\ n <= l /\ Block(e + i) = Block(e)
        BY <1>1, <2>7, <2>8, PartFacts
    <2>10. PICK m \in Nat : m = e + i
        BY <1>1, <2>7, <2>9, Sizes
    <2>11. m \in e .. (e + l - 1)
        BY <1>1, <2>7, <2>9, <2>10, Sizes
    <2>12. Kept(m)
        BY <1>1, <2>5, <2>6, <2>11 DEF Kept, Unmoved, Holding
    <2>13. content[B[Block(m)]][m % BlockSize] = m + 1
        BY <2>2, <2>12 DEF Main, Contents
    <2>14. (at[c] + i) % BlockSize = m % BlockSize
        <3>1. e \in Int /\ i \in Int
            BY <1>1
        <3>2. (Wrap(e) + i) % BlockSize = (e + i) % BlockSize
            BY <3>1, WrapPlace
        <3> QED
            BY <2>4, <2>5, <2>10, <3>2
    <2>15. m + 1 = e + 1 + i
        BY <1>1, <2>10
    <2> QED
        BY <2>3, <2>5, <2>9, <2>10, <2>13, <2>14, <2>15
<1>2. MainInv /\ ClaimsInv => RightElement
    BY <1>1 DEF RightElement
<1> QED
    BY <1>2, MainAlways, PTL

-----------------------------------------------------------------------------
(* Blocks at rest *)

LEMMA RestFacts ==
    ASSUME AtRest, ClaimsInv, Numbers, NEW o, NEW u, NEW B, Main(o, u, B)
    PROVE  /\ \A k \in Int, n \in Int : n \in Open(k) <=> Block(n) = k /\ claimed <= n
           /\ \A k \in Int : B[k] # Null => 0 <= k /\ k < First
           /\ \A n \in Int : claimed <= n /\ Block(n) < First =>
                Block(n) \in Nat /\ B[Block(n)] # Null
           /\ \A k \in Int : B[k] # Null => \E n \in Int : Block(n) = k /\ claimed <= n
           /\ B[First - 1] \in {Null, tailBlock}
           /\ \A b \in Blocks : b \in pool \/ \E k \in Int : B[k] = b
           /\ \A k \in Int : B[k] \notin pool /\ B[k] \in Blocks \union {Null}
           /\ Null \notin pool /\ pool \subseteq Blocks
           /\ indexTail[Len(index)] = Slot(o, Len(index), First - 1)
           /\ \A k \in Int : B[k] # Null =>
                key[Here(index, o, First - 1)] = KeyOf(First - 1)
<1>1. /\ ppc = "idle" /\ \A c \in Consumers : cpc[c] = "idle"
    BY DEF AtRest
<1>2. allocated = << >> /\ Len(allocated) = 0
    BY <1>1 DEF Numbers, Phase
<1>3. PICK f \in Nat : f = First
    BY NumberFacts DEF Numbers
<1>4. u = f - 1 /\ Last = f - 1
    <2>1. Last = f - 1
        BY <1>1, <1>2, <1>3 DEF Last
    <2> QED
        BY <1>1, <2>1 DEF Main, Ring, Top
<1>5. ASSUME NEW k \in Int, NEW n \in Int
      PROVE  n \in Open(k) <=> Block(n) = k /\ claimed <= n
    <2>1. \A c \in Consumers : Held(c) = {}
        BY <1>1 DEF Held, Holding
    <2>2. claimed \in Nat
        BY ClaimsGive
    <2> QED
        BY <2>1, <2>2, ElementsFacts DEF Open
<1>6. ASSUME NEW k \in Int, B[k] # Null
      PROVE  /\ 0 <= k /\ k < f /\ Open(k) # {}
             /\ key[Here(index, o, f - 1)] = KeyOf(f - 1)
    <2>1. 0 <= k /\ k <= u /\ \A j \in k .. u : key[Here(index, o, j)] = KeyOf(j)
        BY <1>6 DEF Main, Ring, Live
    <2>2. k < f
        BY <1>3, <1>4, <2>1
    <2>3. Open(k) # {}
        BY <1>1, <1>3, <1>6, <2>1, <2>2 DEF Main, Counted, CountedOne
    <2>4. f - 1 \in k .. u
        BY <1>3, <1>4, <2>2
    <2> QED
        BY <2>1, <2>2, <2>3, <2>4
<1>7. ASSUME NEW n \in Int, claimed <= n, Block(n) < f
      PROVE  Block(n) \in Nat /\ B[Block(n)] # Null
    <2>1. Block(n) \in Int /\ 0 <= Block(n)
        <3>1. claimed \in Nat /\ 0 * BlockSize = 0
            BY ClaimsGive, Sizes
        <3>2. 0 * BlockSize <= n
            BY <1>7, <3>1
        <3> QED
            BY <3>2, BlockBound
    <2>2. Open(Block(n)) # {}
        BY <1>5, <1>7, <2>1
    <2> QED
        BY <1>3, <1>7, <2>1, <2>2 DEF Main, Counted, CountedOne
<1>8. ASSUME NEW k \in Int, B[k] # Null
      PROVE  \E n \in Int : Block(n) = k /\ claimed <= n
    <2>1. PICK n \in ElementsOf(k) : n \in Open(k)
        BY <1>6, <1>8 DEF Open
    <2>2. n \in Int
        BY <1>8, Sizes DEF ElementsOf
    <2> QED
        BY <1>5, <1>8, <2>1, <2>2
<1>9. /\ B[f - 1] \in {Null, tailBlock}
      /\ \A b \in Blocks : b \in pool \/ \E k \in Int : B[k] = b
      /\ \A k \in Int : B[k] \notin pool /\ B[k] \in Blocks \union {Null}
      /\ pool \subseteq Blocks /\ Null \notin pool
      /\ indexTail[Len(index)] = Slot(o, Len(index), f - 1)
    <2>1. B[f - 1] \in {Null, tailBlock}
        BY <1>1, <1>3 DEF Main, TailBlock
    <2>2. \A b \in Blocks : b \in pool \/ \E k \in Int : B[k] = b
        BY <1>1 DEF Main, Placed, Freeing
    <2>3. \A k \in Int : B[k] \notin pool /\ B[k] \in Blocks \union {Null}
        BY DEF Main, Placed, Ring, Live
    <2>4. pool \subseteq Blocks /\ Null \notin pool
        BY BlocksAssumption DEF Main, Placed
    <2>5. indexTail[Len(index)] = Slot(o, Len(index), f - 1)
        BY <1>4 DEF Main, Ring, Tails
    <2> QED
        BY <2>1, <2>2, <2>3, <2>4, <2>5
<1> QED
    BY <1>3, <1>5, <1>6, <1>7, <1>8, <1>9

LEMMA WalkIs ==
    ASSUME ClaimsInv, Numbers
    PROVE  WalkLength = enqueued - claimed
<1>1. /\ enqueued \in Nat /\ claimed \in Nat /\ claimed <= enqueued
      /\ tailIndex = Wrap(enqueued) /\ headIndex = Wrap(claimed)
    BY ClaimsGive
<1>2. enqueued - claimed < IndexValues
    <2>1. /\ First \in Nat /\ Reserved \in Nat /\ enqueued <= First * BlockSize
          /\ BlockSize \in Nat /\ IndexValues \in Nat /\ Len(allocated) \in Nat
          /\ IndexValues \div 2 \in Nat
        BY NumberFacts DEF Numbers
    <2>2. PICK f \in Nat : f = First
        BY <2>1
    <2>3. PICK r \in Nat : r = Reserved /\ f <= r
        BY <2>1, <2>2 DEF Reserved
    <2>4. PICK x \in Int : x = f * BlockSize
        BY <2>1
    <2>5. PICK y \in Int : y = r * BlockSize
        BY <2>1
    <2>6. x <= y
        <3>1. (r - f) * BlockSize >= 0 /\ (r - f) * BlockSize = r * BlockSize - f * BlockSize
            BY <2>1, <2>3
        <3> QED
            BY <2>4, <2>5, <3>1
    <2>7. y - claimed < IndexValues - (IndexValues \div 2)
        BY <2>3, <2>5 DEF Numbers, InRange
    <2>8. enqueued <= x
        BY <2>1, <2>2, <2>4
    <2> QED
        BY <1>1, <2>1, <2>6, <2>7, <2>8
<1>3. Wrap(enqueued - claimed) = enqueued - claimed
    <2>1. PICK n \in Int : n = enqueued - claimed
        BY <1>1
    <2>2. n \in 0 .. (IndexValues - 1)
        BY <1>1, <1>2, <2>1, Sizes
    <2> QED
        BY <2>1, <2>2, WrapFacts
<1>4. Wrap(Wrap(enqueued) - Wrap(claimed)) = Wrap(enqueued - claimed)
    BY <1>1, WrapOfWraps
<1> QED
    BY <1>1, <1>3, <1>4 DEF WalkLength

(* The blocks that the destructor walks to are those of the elements left. *)
LEMMA WalkedAre ==
    ASSUME AtRest, ClaimsInv, Numbers, NEW o, NEW u, NEW B, Main(o, u, B)
    PROVE  Walked = {B[Block(claimed + i)] : i \in 0 .. (enqueued - claimed - 1)}
<1> DEFINE n == Len(index)
<1>1. /\ enqueued \in Nat /\ claimed \in Nat /\ claimed <= enqueued
      /\ headIndex = Wrap(claimed)
    BY ClaimsGive
<1>2. PICK f \in Nat : f = First
    BY NumberFacts DEF Numbers
<1>3. Shape(index, o) /\ Live(index, o, u, B)
    BY DEF Main, Ring
<1>4. /\ n \in 1 .. MaxIndexes /\ n \in 1 .. Len(index) /\ o \in [1 .. MaxIndexes -> Int]
      /\ Capacity(n) = Cap(n)
    <2>1. n \in 1 .. Len(index)
        BY <1>3, Sizes DEF Shape
    <2> QED
        BY <1>3, <2>1, ShapeFacts DEF Shape, Capacity
<1> HIDE DEF n
<1>5. ASSUME NEW i \in 0 .. (enqueued - claimed - 1)
      PROVE  value[index[Current][SlotOf(Current, indexTail[Current], Wrap(headIndex + i))]]
                = B[Block(claimed + i)]
    <2>1. PICK m \in Nat : m = claimed + i
        BY <1>1
    <2>2. claimed <= m /\ m < enqueued
        BY <1>1, <2>1
    <2>3. PICK k \in Int : k = Block(m) /\ k < f
        BY <1>2, <2>2, BelowFirst
    <2>4. B[k] # Null
        BY <1>2, <2>2, <2>3, RestFacts
    <2>5. /\ indexTail[n] = Slot(o, n, f - 1)
          /\ key[Here(index, o, f - 1)] = KeyOf(f - 1)
        BY <1>2, <2>3, <2>4, RestFacts DEF n
    <2>6. Wrap(headIndex + i) = Wrap(m)
        BY <1>1, <2>1, WrapOfWraps
    <2>7. SlotOf(n, indexTail[n], Wrap(m)) = Slot(o, n, k)
        <3>1. (Slot(o, n, f - 1) + Wrap(Base(Wrap(m)) - Wrap((f - 1) * BlockSize)) \div BlockSize)
                    % Cap(n) = Slot(o, n, Block(m))
            <4>1. PICK j \in Int : j = f - 1
                BY <1>2
            <4>2. (Slot(o, n, j) + Wrap(Base(Wrap(m)) - Wrap(j * BlockSize)) \div BlockSize)
                    % Cap(n) = Slot(o, n, Block(m))
                BY <1>4, SlotIsFound
            <4> QED
                BY <4>1, <4>2
        <3>2. key[index[n][indexTail[n]]] = Wrap((f - 1) * BlockSize)
            BY <2>5 DEF Here, Entry, KeyOf, n
        <3> QED
            BY <1>4, <2>3, <2>5, <3>1, <3>2 DEF SlotOf
    <2>8. value[Here(index, o, k)] = B[k]
        BY <1>3, <2>4 DEF Live
    <2> QED
        BY <2>1, <2>3, <2>6, <2>7, <2>8 DEF Current, Here, Entry, n
<1>6. WalkLength - 1 = enqueued - claimed - 1
    BY WalkIs
<1> QED
    BY <1>5, <1>6 DEF Walked

(* At rest every block is in the pool or is one that the destructor walks to, *)
(* and it frees none twice: no failure of the producer, and no race of the    *)
(* consumers for the last element of a block, loses or duplicates a block.    *)
THEOREM NoBlockIsLost == Spec => []BlocksAreKept
<1>1. ASSUME MainInv, ClaimsInv, Numbers, AtRest, index = << >> PROVE BlocksAreKept
    <2>1. Empty
        BY <1>1 DEF MainInv
    <2>2. WalkLength = 0
        <3>1. enqueued = 0 /\ claimed \in Nat /\ claimed <= enqueued
            BY <1>1, <2>1, ClaimsGive DEF Empty
        <3> QED
            BY <1>1, <3>1, WalkIs
    <2>3. Walked = {}
        BY <2>2 DEF Walked
    <2>4. Destroyed = {}
        BY <2>1, <2>3 DEF Destroyed, Empty
    <2> QED
        BY <2>1, <2>2, <2>4 DEF BlocksAreKept, Empty
<1>2. ASSUME MainInv, ClaimsInv, Numbers, AtRest, index # << >> PROVE BlocksAreKept
    <2>1. PICK o, u, B : Main(o, u, B)
        BY <1>2 DEF MainInv
    <2>2. /\ enqueued \in Nat /\ claimed \in Nat /\ claimed <= enqueued
          /\ tailIndex = Wrap(enqueued)
        BY <1>2, ClaimsGive
    <2>3. PICK f \in Nat : f = First
        BY <1>2, NumberFacts DEF Numbers
    <2>4. PICK w \in Nat : w = enqueued - claimed /\ w = WalkLength
        BY <1>2, <2>2, WalkIs
    <2>5. Walked = {B[Block(claimed + i)] : i \in 0 .. (w - 1)}
        BY <1>2, <2>1, <2>4, WalkedAre
    <2>6. ASSUME NEW n \in Int, claimed <= n, n < enqueued
          PROVE  B[Block(n)] \in Walked /\ B[Block(n)] \in Blocks
        <3>1. Block(n) \in Int /\ Block(n) < f
            BY <1>2, <2>3, <2>6, BelowFirst
        <3>2. B[Block(n)] # Null /\ B[Block(n)] \in Blocks \union {Null}
            BY <1>2, <2>1, <2>3, <2>6, <3>1, RestFacts
        <3>3. n - claimed \in 0 .. (w - 1) /\ claimed + (n - claimed) = n
            BY <2>2, <2>4, <2>6
        <3>4. B[Block(claimed + (n - claimed))] \in Walked
            BY <2>5, <3>3
        <3> QED
            BY <3>2, <3>3, <3>4
    <2>7. ASSUME NEW b \in Walked PROVE b \in Blocks /\ b \notin pool
        <3>1. PICK i \in 0 .. (w - 1) : b = B[Block(claimed + i)]
            BY <2>5
        <3>2. claimed + i \in Int /\ claimed <= claimed + i /\ claimed + i < enqueued
            BY <2>2, <2>4, <3>1
        <3>3. b \in Blocks /\ Block(claimed + i) \in Int
            BY <2>6, <3>1, <3>2, BlockFacts
        <3> QED
            BY <1>2, <2>1, <3>1, <3>3, RestFacts
    <2>8. enqueued % BlockSize = tailIndex % BlockSize
        BY <2>2, WrapOfIndex
    <2>9. w > 0 => /\ B[f - 1] = tailBlock /\ tailBlock \in Walked
                   /\ tailBlock \in Blocks /\ tailBlock \notin pool
        <3>1. Block(enqueued - 1) = f - 1
            <4>1. Block(enqueued - 1) \in Int
                BY <2>2, BlockFacts
            <4> QED
                BY <2>3, <4>1 DEF First, Filled
        <3>2. ASSUME w > 0 PROVE B[f - 1] \in Walked /\ B[f - 1] \in Blocks
            <4>1. enqueued - 1 \in Int /\ claimed <= enqueued - 1 /\ enqueued - 1 < enqueued
                BY <2>2, <2>4, <3>2
            <4> QED
                BY <2>6, <3>1, <4>1
        <3>3. B[f - 1] \in {Null, tailBlock}
            BY <1>2, <2>1, <2>3, RestFacts
        <3> QED
            BY <2>7, <3>2, <3>3, BlocksAssumption
    <2>10. enqueued % BlockSize # 0 =>
                B[f - 1] = tailBlock /\ tailBlock \in Blocks /\ tailBlock \notin pool
        <3>1. ASSUME enqueued % BlockSize # 0
              PROVE  B[f - 1] # Null /\ f - 1 \in Int
            <4>1. f = Block(enqueued) + 1 /\ Block(enqueued) \in Int
                BY <2>2, <2>3, <3>1, FilledFacts, BlockFacts DEF First
            <4>2. Block(enqueued) = f - 1 /\ f - 1 \in Int /\ f - 1 < f
                BY <4>1
            <4>3. enqueued \in Int
                BY <2>2
            <4> QED
                BY <1>2, <2>1, <2>2, <2>3, <4>2, <4>3, RestFacts
        <3>2. B[f - 1] \in {Null, tailBlock}
            BY <1>2, <2>1, <2>3, RestFacts
        <3>3. f - 1 \in Int => B[f - 1] \notin pool /\ B[f - 1] \in Blocks \union {Null}
            BY <1>2, <2>1, RestFacts
        <3> QED
            BY <3>1, <3>2, <3>3
    <2>11. ASSUME NEW k \in Int, B[k] # Null
           PROVE  \/ B[k] \in Walked
                  \/ B[k] = tailBlock /\ enqueued % BlockSize # 0
        <3>1. k < f
            BY <1>2, <2>1, <2>3, <2>11, RestFacts
        <3>2. PICK n \in Int : Block(n) = k /\ claimed <= n
            BY <1>2, <2>1, <2>11, RestFacts
        <3>3. CASE n < enqueued
            <4>1. n \in Int /\ claimed <= n /\ n < enqueued
                BY <3>2, <3>3
            <4>2. B[Block(n)] \in Walked
                BY <2>6, <4>1
            <4> QED
                BY <3>2, <4>2
        <3>4. CASE enqueued <= n
            <4>1. enqueued % BlockSize # 0 /\ k = f - 1
                <5>1. /\ f \in Int /\ f \in Nat /\ enqueued \in Int
                      /\ enqueued % BlockSize = 0 =>
                            f = Block(enqueued) /\ Block(enqueued) * BlockSize = enqueued
                      /\ enqueued % BlockSize # 0 => f = Block(enqueued) + 1
                    BY <2>2, <2>3, FilledFacts DEF First
                <5>2. PICK b \in Int : b = Block(enqueued)
                    BY <5>1, BlockFacts
                <5>3. b <= k
                    <6>1. b * BlockSize <= enqueued
                        BY <5>1, <5>2, BlockBound
                    <6>2. PICK x \in Int : x = b * BlockSize
                        BY <5>2, Sizes
                    <6>3. b * BlockSize <= n
                        BY <2>2, <3>4, <6>1, <6>2
                    <6> QED
                        BY <3>2, <6>3, BlockBound
                <5> QED
                    BY <3>1, <5>1, <5>2, <5>3
            <4>2. B[f - 1] \in {Null, tailBlock}
                BY <1>2, <2>1, <2>3, RestFacts
            <4> QED
                BY <2>11, <4>1, <4>2
        <3> QED
            BY <2>2, <3>2, <3>3, <3>4
    <2>12. pool \subseteq Blocks /\ \A b \in Blocks : b \in pool \/ \E k \in Int : B[k] = b
        BY <1>2, <2>1, RestFacts
    <2>13. Null \notin Blocks
        BY BlocksAssumption
    <2>14. ASSUME NEW b \in Destroyed PROVE b \in Blocks /\ b \notin pool
        <3>1. \/ b \in Walked
              \/ b = tailBlock /\ (w > 0 \/ tailIndex % BlockSize # 0)
            BY <2>4, <2>14 DEF Destroyed
        <3> QED
            BY <2>7, <2>8, <2>9, <2>10, <3>1
    <2>15. ASSUME NEW b \in Blocks PROVE b \in pool \/ b \in Destroyed
        <3>1. CASE b \in Walked
            BY <3>1 DEF Destroyed
        <3>2. CASE b = tailBlock /\ enqueued % BlockSize # 0
            BY <2>8, <2>13, <3>2 DEF Destroyed
        <3> QED
            BY <2>11, <2>12, <2>13, <3>1, <3>2
    <2>16. WalkLength > 0 => tailBlock \in Walked
        BY <2>4, <2>9
    <2>17. pool \union Destroyed = Blocks /\ pool \intersect Destroyed = {}
        BY <2>12, <2>14, <2>15
    <2> QED
        BY <2>16, <2>17 DEF BlocksAreKept
<1>3. MainInv /\ ClaimsInv /\ Numbers => BlocksAreKept
    BY <1>1, <1>2 DEF BlocksAreKept
<1> QED
    BY <1>3, MainAlways, PTL
=============================================================================
