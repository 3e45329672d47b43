-------------------------- MODULE QueuePartsProofs --------------------------
(***************************************************************************)
(* Theorems of FreeList, LwSemaphore and ProducerHash, the last two as     *)
(* MCQueueParts instantiates them, for any sets of threads and of blocks   *)
(* and any bounds.                                                         *)
(***************************************************************************)
EXTENDS MCQueueParts, Integers, Sequences, FiniteSetTheorems,
        WellFoundedInduction, TLAPS

-----------------------------------------------------------------------------
(* The free list: the list *)

LEMMA LeastNatural ==
    ASSUME NEW T \in SUBSET Nat, T # {}
    PROVE  \E m \in T : \A k \in T : m <= k
<1> DEFINE R == {s \in Nat \X Nat : s[1] < s[2]}
<1>1. IsWellFoundedOn(R, Nat)
    <2>1. R = OpToRel(<, Nat)
        BY DEF OpToRel
    <2> QED
        BY <2>1, NatLessThanWellFounded
<1>2. PICK m \in T : \A y \in T : <<y, m>> \notin R
    BY <1>1, WFMin
<1>3. ASSUME NEW y \in T PROVE m <= y
    <2>1. <<y, m>> \in Nat \X Nat
        BY <1>2, <1>3
    <2>2. <<y, m>>[1] = y /\ <<y, m>>[2] = m
        OBVIOUS
    <2>3. ~(y < m)
        BY <1>2, <1>3, <2>1, <2>2
    <2> QED
        BY <1>2, <1>3, <2>3
<1> QED
    BY <1>2, <1>3

(* The list whose head is h and whose links are nx, from its end to h. *)
Chain(h, nx, k, q) ==
    /\ q \in [1 .. k -> Nodes]
    /\ \A i, j \in 1 .. k : q[i] = q[j] => i = j
    /\ h = IF k = 0 THEN Null ELSE q[k]
    /\ \A i \in 1 .. k : nx[q[i]] = IF i = 1 THEN Null ELSE q[i - 1]

Reached(h, nx) ==
    {n \in Nodes : \A S \in SUBSET Nodes :
        {h} \union {nx[m] : m \in S} \subseteq S \union {Null} => n \in S}

Elements(k, q) == {q[i] : i \in 1 .. k}

LEMMA ChainIsReached ==
    ASSUME NEW h, NEW nx, NEW k \in Nat, NEW q, Chain(h, nx, k, q)
    PROVE  Reached(h, nx) = Elements(k, q)
<1> DEFINE E == Elements(k, q)
<1>1. E \in SUBSET Nodes
    BY DEF Elements, Chain
<1>2. {h} \union {nx[m] : m \in E} \subseteq E \union {Null}
    <2>1. h \in E \union {Null}
        BY DEF Elements, Chain
    <2>2. ASSUME NEW m \in E PROVE nx[m] \in E \union {Null}
        <3>1. PICK i \in 1 .. k : m = q[i]
            BY <2>2 DEF Elements
        <3>2. CASE i = 1
            BY <3>1, <3>2 DEF Chain
        <3>3. CASE i # 1
            <4>1. i - 1 \in 1 .. k
                BY <3>1, <3>3
            <4>2. nx[m] = q[i - 1]
                BY <3>1, <3>3 DEF Chain
            <4> QED
                BY <4>1, <4>2 DEF Elements
        <3> QED
            BY <3>2, <3>3
    <2> HIDE DEF E
    <2> QED
        BY <2>1, <2>2
<1>3. Reached(h, nx) \subseteq E
    <2> HIDE DEF E
    <2> QED
        BY <1>1, <1>2 DEF Reached
<1>4. ASSUME NEW S \in SUBSET Nodes,
             {h} \union {nx[m] : m \in S} \subseteq S \union {Null}
      PROVE  E \subseteq S
    <2> DEFINE T == {d \in Nat : d < k /\ q[k - d] \notin S}
    <2>1. SUFFICES ASSUME T # {} PROVE FALSE
        <3>1. ASSUME T = {}, NEW i \in 1 .. k PROVE q[i] \in S
            <4>1. k - i \in Nat /\ k - i < k /\ k - (k - i) = i
                BY <3>1
            <4> QED
                BY <3>1, <4>1
        <3> HIDE DEF T
        <3> QED
            BY <3>1 DEF Elements
    <2>2. T \in SUBSET Nat
        OBVIOUS
    <2>3. PICK d \in T : \A c \in T : d <= c
        BY <2>1, <2>2, LeastNatural
    <2>4. d \in Nat /\ d < k /\ q[k - d] \notin S
        BY <2>3
    <2>5. k - d \in 1 .. k
        BY <2>4
    <2>6. q[k - d] \in Nodes /\ q[k - d] # Null
        BY <2>5, NodesAssumption DEF Chain
    <2>7. CASE d = 0
        <3>1. h = q[k - d]
            BY <2>4, <2>7 DEF Chain
        <3> QED
            BY <1>4, <2>4, <2>6, <3>1
    <2>8. CASE d # 0
        <3>1. d - 1 \in Nat /\ d - 1 < k /\ ~(d <= d - 1)
            BY <2>4, <2>8
        <3>2. d - 1 \notin T
            BY <2>3, <3>1
        <3>3. q[k - (d - 1)] \in S
            BY <3>1, <3>2
        <3>4. k - (d - 1) \in 1 .. k /\ k - (d - 1) # 1
              /\ (k - (d - 1)) - 1 = k - d
            BY <2>4, <2>8
        <3>5. nx[q[k - (d - 1)]] = q[k - d]
            BY <3>4 DEF Chain
        <3> QED
            BY <1>4, <2>4, <2>6, <3>3, <3>5
    <2> QED
        BY <2>7, <2>8
<1>5. E \subseteq Reached(h, nx)
    <2> HIDE DEF E
    <2> QED
        BY <1>1, <1>4 DEF Reached
<1> QED
    BY <1>3, <1>5

LEMMA ListedIsReached ==
    /\ Listed = Reached(freeListHead, freeListNext)
    /\ Listed' = Reached(freeListHead', freeListNext')
BY DEF Listed, LeadsInto, Reached

StackInv == \E k \in Nat : \E q \in [1 .. k -> Nodes] :
                Chain(freeListHead, freeListNext, k, q)

(* A link that is not of the list is set. *)
LEMMA ListKept ==
    ASSUME StackInv, freeListHead' = freeListHead,
           \A n \in Listed : freeListNext'[n] = freeListNext[n]
    PROVE  StackInv' /\ Listed' = Listed
<1>1. PICK k \in Nat : \E q \in [1 .. k -> Nodes] :
            Chain(freeListHead, freeListNext, k, q)
    BY DEF StackInv
<1>2. PICK q \in [1 .. k -> Nodes] : Chain(freeListHead, freeListNext, k, q)
    BY <1>1
<1>3. Listed = Elements(k, q)
    BY <1>1, <1>2, ChainIsReached, ListedIsReached
<1>4. Chain(freeListHead', freeListNext', k, q)
    BY <1>2, <1>3 DEF Chain, Elements
<1>5. Listed' = Elements(k, q)
    BY <1>1, <1>4, ChainIsReached, ListedIsReached
<1> QED
    BY <1>1, <1>2, <1>3, <1>4, <1>5 DEF StackInv

LEMMA ListPushed ==
    ASSUME StackInv, NEW n \in Nodes, n \notin Listed,
           freeListHead' = n, freeListNext' = freeListNext,
           freeListNext[n] = freeListHead
    PROVE  StackInv' /\ Listed' = Listed \union {n}
<1>1. PICK k \in Nat : \E q \in [1 .. k -> Nodes] :
            Chain(freeListHead, freeListNext, k, q)
    BY DEF StackInv
<1>2. PICK q \in [1 .. k -> Nodes] : Chain(freeListHead, freeListNext, k, q)
    BY <1>1
<1>3. Listed = Elements(k, q)
    BY <1>1, <1>2, ChainIsReached, ListedIsReached
<1> DEFINE r == [i \in 1 .. (k + 1) |-> IF i = k + 1 THEN n ELSE q[i]]
<1>4. k + 1 \in Nat /\ k + 1 # 0 /\ k + 1 \in 1 .. (k + 1)
    BY <1>1
<1>5. \A i \in 1 .. (k + 1) : i = k + 1 \/ i \in 1 .. k
    BY <1>1
<1>6. r \in [1 .. (k + 1) -> Nodes] /\ r[k + 1] = n
      /\ \A i \in 1 .. k : r[i] = q[i]
    BY <1>1, <1>2, <1>4, <1>5
<1> HIDE DEF r
<1>7. \A i \in 1 .. k : r[i] # n
    BY <1>3, <1>6 DEF Elements
<1>8. \A i, j \in 1 .. (k + 1) : r[i] = r[j] => i = j
    BY <1>2, <1>5, <1>6, <1>7 DEF Chain
<1>9. ASSUME NEW i \in 1 .. (k + 1)
      PROVE  freeListNext'[r[i]] = IF i = 1 THEN Null ELSE r[i - 1]
    <2>1. CASE i = k + 1
        <3>1. CASE k = 0
            BY <1>2, <1>6, <2>1, <3>1 DEF Chain
        <3>2. CASE k # 0
            <4>1. i # 1 /\ i - 1 = k /\ k \in 1 .. k
                BY <1>1, <2>1, <3>2
            <4> QED
                BY <1>2, <1>6, <2>1, <3>2, <4>1 DEF Chain
        <3> QED
            BY <3>1, <3>2
    <2>2. CASE i \in 1 .. k
        <3>1. i = 1 \/ i - 1 \in 1 .. k
            BY <1>1, <2>2
        <3> QED
            BY <1>2, <1>6, <2>2, <3>1 DEF Chain
    <2> QED
        BY <1>5, <1>9, <2>1, <2>2
<1>10. Chain(freeListHead', freeListNext', k + 1, r)
    BY <1>4, <1>6, <1>8, <1>9 DEF Chain
<1>11. Listed' = Elements(k + 1, r)
    BY <1>4, <1>10, ChainIsReached, ListedIsReached
<1>12. Elements(k + 1, r) = Elements(k, q) \union {n}
    <2>1. \A i \in 1 .. k : i \in 1 .. (k + 1)
        BY <1>1
    <2> QED
        BY <1>4, <1>5, <1>6, <2>1 DEF Elements
<1> QED
    BY <1>3, <1>4, <1>6, <1>10, <1>11, <1>12 DEF StackInv

LEMMA ListPopped ==
    ASSUME StackInv, freeListHead # Null,
           freeListHead' = freeListNext[freeListHead],
           freeListNext' = freeListNext
    PROVE  /\ StackInv' /\ freeListHead \in Listed
           /\ Listed' = Listed \ {freeListHead}
<1>1. PICK k \in Nat : \E q \in [1 .. k -> Nodes] :
            Chain(freeListHead, freeListNext, k, q)
    BY DEF StackInv
<1>2. PICK q \in [1 .. k -> Nodes] : Chain(freeListHead, freeListNext, k, q)
    BY <1>1
<1>3. Listed = Elements(k, q)
    BY <1>1, <1>2, ChainIsReached, ListedIsReached
<1>4. k # 0 /\ k \in 1 .. k /\ k - 1 \in Nat /\ freeListHead = q[k]
    BY <1>1, <1>2 DEF Chain
<1> DEFINE r == [i \in 1 .. (k - 1) |-> q[i]]
<1>5. /\ \A i \in 1 .. (k - 1) : i \in 1 .. k /\ i # k
      /\ \A i \in 1 .. k : i = k \/ i \in 1 .. (k - 1)
    BY <1>1, <1>4
<1>6. r \in [1 .. (k - 1) -> Nodes] /\ \A i \in 1 .. (k - 1) : r[i] = q[i]
    BY <1>2, <1>5
<1> HIDE DEF r
<1>7. \A i, j \in 1 .. (k - 1) : r[i] = r[j] => i = j
    BY <1>2, <1>5, <1>6 DEF Chain
<1>8. freeListHead' = IF k - 1 = 0 THEN Null ELSE r[k - 1]
    <2>1. CASE k = 1
        BY <1>2, <1>4, <2>1 DEF Chain
    <2>2. CASE k # 1
        <3>1. k - 1 \in 1 .. (k - 1) /\ k - 1 # 0
            BY <1>1, <1>4, <2>2
        <3> QED
            BY <1>2, <1>4, <1>6, <2>2, <3>1 DEF Chain
    <2> QED
        BY <2>1, <2>2
<1>9. ASSUME NEW i \in 1 .. (k - 1)
      PROVE  freeListNext'[r[i]] = IF i = 1 THEN Null ELSE r[i - 1]
    <2>1. i = 1 \/ i - 1 \in 1 .. (k - 1)
        BY <1>1, <1>9
    <2> QED
        BY <1>2, <1>5, <1>6, <1>9, <2>1 DEF Chain
<1>10. Chain(freeListHead', freeListNext', k - 1, r)
    BY <1>6, <1>7, <1>8, <1>9 DEF Chain
<1>11. Listed' = Elements(k - 1, r)
    BY <1>4, <1>10, ChainIsReached, ListedIsReached
<1>12. Elements(k - 1, r) = Elements(k, q) \ {q[k]}
    <2>1. \A i \in 1 .. (k - 1) : q[i] # q[k]
        BY <1>2, <1>4, <1>5 DEF Chain
    <2> QED
        BY <1>5, <1>6, <2>1 DEF Elements
<1>13. freeListHead \in Listed
    BY <1>3, <1>4 DEF Elements
<1> QED
    BY <1>3, <1>4, <1>6, <1>10, <1>11, <1>12, <1>13 DEF StackInv

-----------------------------------------------------------------------------
(* The inductive invariant *)

(* What thread t has to do with node n: a reference that it counted; n for
   itself, to use or to add; as the one who adds it; linked, to be pushed or
   just taken off the list. *)
Refers(t, n) ==
    \/ head[t] = n /\ pc[t] \in {"next", "cas", "got"}
    \/ node[t] = n /\ pc[t] = "unref"

Keeps(t, n) == n \in owned[t] \/ (node[t] = n /\ pc[t] = "flag")

Adds(t, n) == node[t] = n /\ pc[t] \in {"first", "link", "count"}

Links(t, n) == \/ node[t] = n /\ pc[t] \in {"push", "undo"}
               \/ head[t] = n /\ pc[t] = "got"

Has(t, n) == Keeps(t, n) \/ Adds(t, n) \/ Links(t, n)

Referrers(n) == {t \in Threads : Refers(t, n)}

Taken(n) == Cardinality(Referrers(n))

Loose(n) == n \in fresh \/ \E t \in Threads : Keeps(t, n)

Counted(n) == n \in Listed \/ \E t \in Threads : Links(t, n)

(* A node is in one place, and its place tells what its count is: the taken
   references, one more for the list, or the flag of a node that waits to be
   added, by a thread of its own as soon as no reference is taken. *)
NodeInv(n) ==
    /\ ~(n \in fresh /\ n \in Listed)
    /\ \A t \in Threads : Has(t, n) => n \notin fresh /\ n \notin Listed
    /\ \A t, u \in Threads : Has(t, n) /\ Has(u, n) => t = u
    /\ Loose(n) => freeListRefs[n] = Taken(n)
    /\ Counted(n) => freeListRefs[n] = Taken(n) + 1
    /\ ~Loose(n) /\ ~Counted(n) =>
            freeListRefs[n] = Taken(n) + ShouldBeOnFreeList
    /\ (\E t \in Threads : Adds(t, n)) <=>
            ~Loose(n) /\ ~Counted(n) /\ Taken(n) = 0

ThreadInv(t) ==
    /\ pc[t] \in AddPc \union {"flag"} => node[t] \notin owned[t]
    /\ pc[t] = "got" => head[t] \notin owned[t]
    /\ pc[t] \in {"count", "push"} => freeListNext[node[t]] = seen[t]
    /\ pc[t] = "cas" => next[t] = freeListNext[head[t]]
    /\ pc[t] = "ref" => refs[t] % ShouldBeOnFreeList # 0

ListInv ==
    /\ TypeOK /\ StackInv
    /\ \A n \in Nodes : NodeInv(n)
    /\ \A t \in Threads : ThreadInv(t)

-----------------------------------------------------------------------------
(* Counts *)

LEMMA ThreadSets ==
    ASSUME NEW S \in SUBSET Threads
    PROVE  /\ IsFiniteSet(S) /\ Cardinality(S) \in Nat
           /\ Cardinality(S) <= Cardinality(Threads)
           /\ Cardinality(S) + 1 < ShouldBeOnFreeList
           /\ ShouldBeOnFreeList \in Nat
           /\ Cardinality(S) = 0 <=> S = {}
<1>1. IsFiniteSet(S) /\ Cardinality(S) <= Cardinality(Threads)
    BY ThreadsAssumption, FS_Subset
<1>2. Cardinality(S) \in Nat /\ Cardinality(Threads) \in Nat
    BY <1>1, ThreadsAssumption, FS_CardinalityType
<1>3. Cardinality(S) = 0 <=> S = {}
    BY <1>1, FS_EmptySet
<1> QED
    BY <1>1, <1>2, <1>3, FlagAssumption

LEMMA TakenType ==
    ASSUME NEW n
    PROVE  /\ Taken(n) \in Nat /\ Taken(n) + 1 < ShouldBeOnFreeList
           /\ Taken(n) = 0 <=> \A t \in Threads : ~Refers(t, n)
           /\ Taken(n)' \in Nat /\ Taken(n)' + 1 < ShouldBeOnFreeList
           /\ Taken(n)' = 0 <=> \A t \in Threads : ~Refers(t, n)'
           /\ ShouldBeOnFreeList \in Nat
<1>1. Referrers(n) \in SUBSET Threads /\ Referrers(n)' \in SUBSET Threads
    BY DEF Referrers
<1>2. Referrers(n) = {} <=> \A t \in Threads : ~Refers(t, n)
    BY DEF Referrers
<1>3. Referrers(n)' = {} <=> \A t \in Threads : ~Refers(t, n)'
    BY DEF Referrers
<1> QED
    BY <1>1, <1>2, <1>3, ThreadSets DEF Taken

LEMMA TakenSame ==
    ASSUME NEW n, \A t \in Threads : Refers(t, n)' <=> Refers(t, n)
    PROVE  Taken(n)' = Taken(n)
<1>1. Referrers(n)' = Referrers(n)
    BY DEF Referrers
<1> QED
    BY <1>1 DEF Taken

LEMMA TakenGrows ==
    ASSUME NEW n, NEW t \in Threads, ~Refers(t, n), Refers(t, n)',
           \A u \in Threads \ {t} : Refers(u, n)' <=> Refers(u, n)
    PROVE  Taken(n)' = Taken(n) + 1
<1>1. Referrers(n)' = Referrers(n) \union {t} /\ t \notin Referrers(n)
    BY DEF Referrers
<1>2. IsFiniteSet(Referrers(n))
    <2>1. Referrers(n) \in SUBSET Threads
        BY DEF Referrers
    <2> QED
        BY <2>1, ThreadSets
<1>3. Cardinality(Referrers(n) \union {t}) = Cardinality(Referrers(n)) + 1
    BY <1>1, <1>2, FS_AddElement
<1> QED
    BY <1>1, <1>3 DEF Taken

LEMMA TakenShrinks ==
    ASSUME NEW n, NEW t \in Threads, Refers(t, n), ~Refers(t, n)',
           \A u \in Threads \ {t} : Refers(u, n)' <=> Refers(u, n)
    PROVE  Taken(n)' = Taken(n) - 1 /\ Taken(n) > 0
<1>1. Referrers(n)' = Referrers(n) \ {t} /\ t \in Referrers(n)
    BY DEF Referrers
<1>2. IsFiniteSet(Referrers(n))
    <2>1. Referrers(n) \in SUBSET Threads
        BY DEF Referrers
    <2> QED
        BY <2>1, ThreadSets
<1>3. Cardinality(Referrers(n) \ {t}) = Cardinality(Referrers(n)) - 1
    BY <1>1, <1>2, FS_RemoveElement
<1>4. Taken(n)' = Taken(n) - 1
    BY <1>1, <1>3 DEF Taken
<1> QED
    BY <1>4, TakenType

-----------------------------------------------------------------------------
(* Nodes *)

(* Nobody's part in node n changes, but for references. *)
SameParts(n) ==
    /\ n \in fresh' <=> n \in fresh
    /\ n \in Listed' <=> n \in Listed
    /\ \A t \in Threads : /\ Keeps(t, n)' <=> Keeps(t, n)
                          /\ Adds(t, n)' <=> Adds(t, n)
                          /\ Links(t, n)' <=> Links(t, n)

LEMMA NodeKept ==
    ASSUME NEW n, NodeInv(n), SameParts(n),
           \A t \in Threads : Refers(t, n)' <=> Refers(t, n),
           freeListRefs'[n] = freeListRefs[n]
    PROVE  NodeInv(n)'
<1>1. Taken(n)' = Taken(n)
    BY TakenSame
<1>2. /\ Loose(n)' <=> Loose(n)
      /\ Counted(n)' <=> Counted(n)
      /\ \A t \in Threads : Has(t, n)' <=> Has(t, n)
      /\ (\E t \in Threads : Adds(t, n)') <=> (\E t \in Threads : Adds(t, n))
    BY DEF SameParts, Loose, Counted, Has
<1> QED
    BY <1>1, <1>2 DEF NodeInv, SameParts

(* The references that are taken change, and the count with them. *)
LEMMA NodeReferred ==
    ASSUME NEW n, NodeInv(n), SameParts(n),
           freeListRefs'[n] - Taken(n)' = freeListRefs[n] - Taken(n),
           freeListRefs[n] \in Nat, freeListRefs'[n] \in Nat,
           ~Loose(n) /\ ~Counted(n) => Taken(n) # 0 /\ Taken(n)' # 0
    PROVE  NodeInv(n)'
<1>1. /\ Loose(n)' <=> Loose(n)
      /\ Counted(n)' <=> Counted(n)
      /\ \A t \in Threads : Has(t, n)' <=> Has(t, n)
      /\ (\E t \in Threads : Adds(t, n)') <=> (\E t \in Threads : Adds(t, n))
    BY DEF SameParts, Loose, Counted, Has
<1>2. \A x \in Nat : /\ freeListRefs[n] = Taken(n) + x =>
                            freeListRefs'[n] = Taken(n)' + x
                     /\ freeListRefs[n] = Taken(n) =>
                            freeListRefs'[n] = Taken(n)'
    BY TakenType
<1>3. /\ ~(n \in fresh' /\ n \in Listed')
      /\ \A t \in Threads : Has(t, n)' => n \notin fresh' /\ n \notin Listed'
      /\ \A t, u \in Threads : Has(t, n)' /\ Has(u, n)' => t = u
    BY <1>1 DEF NodeInv, SameParts
<1>4. /\ Loose(n)' => freeListRefs'[n] = Taken(n)'
      /\ Counted(n)' => freeListRefs'[n] = Taken(n)' + 1
      /\ ~Loose(n)' /\ ~Counted(n)' =>
            freeListRefs'[n] = Taken(n)' + ShouldBeOnFreeList
    BY <1>1, <1>2, FlagAssumption DEF NodeInv
<1>5. (\E t \in Threads : Adds(t, n)') <=>
            ~Loose(n)' /\ ~Counted(n)' /\ Taken(n)' = 0
    BY <1>1 DEF NodeInv
<1> QED
    BY <1>3, <1>4, <1>5 DEF NodeInv

(* After the step only t has a part in node n, if anybody. *)
LEMMA NodeOfOne ==
    ASSUME NEW n, NEW t \in Threads, n \notin fresh', n \notin Listed',
           \A u \in Threads \ {t} : ~Has(u, n)',
           \/ /\ Keeps(t, n)' /\ ~Adds(t, n)' /\ ~Links(t, n)'
              /\ freeListRefs'[n] = Taken(n)'
           \/ /\ Links(t, n)' /\ ~Keeps(t, n)' /\ ~Adds(t, n)'
              /\ freeListRefs'[n] = Taken(n)' + 1
           \/ /\ ~Links(t, n)' /\ ~Keeps(t, n)'
              /\ freeListRefs'[n] = Taken(n)' + ShouldBeOnFreeList
              /\ Adds(t, n)' <=> Taken(n)' = 0
    PROVE  NodeInv(n)'
<1>1. \A u \in Threads \ {t} : ~Keeps(u, n)' /\ ~Adds(u, n)' /\ ~Links(u, n)'
    BY DEF Has
<1>2. /\ Loose(n)' <=> Keeps(t, n)'
      /\ Counted(n)' <=> Links(t, n)'
      /\ (\E u \in Threads : Adds(u, n)') <=> Adds(t, n)'
    BY <1>1 DEF Loose, Counted
<1>3. \A u \in Threads : Has(u, n)' => u = t
    OBVIOUS
<1>4. /\ Loose(n)' => freeListRefs'[n] = Taken(n)'
      /\ Counted(n)' => freeListRefs'[n] = Taken(n)' + 1
      /\ ~Loose(n)' /\ ~Counted(n)' =>
            freeListRefs'[n] = Taken(n)' + ShouldBeOnFreeList
      /\ (\E u \in Threads : Adds(u, n)') <=>
            ~Loose(n)' /\ ~Counted(n)' /\ Taken(n)' = 0
    BY <1>2, Zenon
<1> QED
    BY <1>3, <1>4 DEF NodeInv

LEMMA NodeOfList ==
    ASSUME NEW n, n \notin fresh', n \in Listed',
           \A u \in Threads : ~Has(u, n)',
           freeListRefs'[n] = Taken(n)' + 1
    PROVE  NodeInv(n)'
<1>1. \A u \in Threads : ~Keeps(u, n)' /\ ~Adds(u, n)' /\ ~Links(u, n)'
    BY DEF Has
<1>2. ~Loose(n)' /\ Counted(n)' /\ ~\E u \in Threads : Adds(u, n)'
    BY <1>1 DEF Loose, Counted
<1> QED
    BY <1>2 DEF NodeInv

(* Whoever has a node, has it alone. *)
LEMMA SoleHolder ==
    ASSUME NEW n, NodeInv(n), NEW t \in Threads, Has(t, n)
    PROVE  /\ n \notin fresh /\ n \notin Listed
           /\ \A u \in Threads \ {t} : ~Has(u, n)
           /\ Keeps(t, n) => freeListRefs[n] = Taken(n)
           /\ Links(t, n) => freeListRefs[n] = Taken(n) + 1
           /\ Adds(t, n) => freeListRefs[n] = ShouldBeOnFreeList
                            /\ Taken(n) = 0
<1>1. n \notin fresh /\ n \notin Listed /\ \A u \in Threads \ {t} : ~Has(u, n)
    BY DEF NodeInv
<1>2. Keeps(t, n) => freeListRefs[n] = Taken(n)
    BY DEF NodeInv, Loose
<1>3. Links(t, n) => freeListRefs[n] = Taken(n) + 1
    BY DEF NodeInv, Counted
<1>4. Adds(t, n) => freeListRefs[n] = ShouldBeOnFreeList /\ Taken(n) = 0
    BY FlagAssumption DEF NodeInv
<1> QED
    BY <1>1, <1>2, <1>3, <1>4

-----------------------------------------------------------------------------
(* Steps *)

LEMMA TypeFacts ==
    ASSUME TypeOK, NEW t \in Threads
    PROVE  /\ head \in [Threads -> Nodes \union {Null}]
           /\ next \in [Threads -> Nodes \union {Null}]
           /\ node \in [Threads -> Nodes \union {Null}]
           /\ seen \in [Threads -> Nodes \union {Null}]
           /\ pc[t] \in GetPc \ {"load", "unref"} => head[t] \in Nodes
           /\ pc[t] \in AddPc \union {"flag", "unref"} => node[t] \in Nodes
<1>1. /\ head \in [Threads -> Nodes \union {Null}]
      /\ next \in [Threads -> Nodes \union {Null}]
      /\ node \in [Threads -> Nodes \union {Null}]
      /\ seen \in [Threads -> Nodes \union {Null}]
    BY DEF TypeOK
<1>2. /\ pc[t] \in GetPc \ {"load", "unref"} => head[t] # Null
      /\ pc[t] \in AddPc \union {"flag", "unref"} => node[t] # Null
    BY DEF TypeOK
<1> QED
    BY <1>1, <1>2

(* The parts that the other threads have in the nodes are not changed. *)
Local(t) ==
    \A u \in Threads \ {t} :
        /\ pc'[u] = pc[u] /\ owned'[u] = owned[u]
        /\ head'[u] = head[u] /\ next'[u] = next[u] /\ refs'[u] = refs[u]
        /\ node'[u] = node[u] /\ seen'[u] = seen[u]

Act(t) ==
    \/ Step(t) \/ GetCall(t)
    \/ \E n \in Nodes : Allocate(t, n) \/ AddCall(t, n)

LEMMA ActIsLocal ==
    ASSUME TypeOK, NEW t \in Threads, Act(t)
    PROVE  Local(t)
<1> USE DEF Local, shared, getLocals, addLocals, Goto, Return, TypeOK
<1>1. CASE \E n \in Nodes : Allocate(t, n)
    BY <1>1 DEF Allocate
<1>2. CASE \E n \in Nodes : AddCall(t, n)
    BY <1>2 DEF AddCall
<1>3. CASE AddFlag(t)
    BY <1>3 DEF AddFlag
<1>4. CASE AddFirst(t)
    BY <1>4 DEF AddFirst
<1>5. CASE AddLink(t)
    BY <1>5 DEF AddLink
<1>6. CASE AddCount(t)
    BY <1>6 DEF AddCount
<1>7. CASE AddPush(t)
    BY <1>7 DEF AddPush, LeaveAdd
<1>8. CASE AddUndo(t)
    BY <1>8 DEF AddUndo, LeaveAdd
<1>9. CASE GetCall(t)
    BY <1>9 DEF GetCall
<1>10. CASE GetLoad(t)
    BY <1>10 DEF GetLoad
<1>11. CASE GetRefs(t)
    BY <1>11 DEF GetRefs
<1>12. CASE GetRef(t)
    BY <1>12 DEF GetRef
<1>13. CASE GetNext(t)
    BY <1>13 DEF GetNext
<1>14. CASE GetCas(t)
    BY <1>14 DEF GetCas
<1>15. CASE GetGot(t)
    BY <1>15 DEF GetGot
<1>16. CASE GetUnref(t)
    BY <1>16 DEF GetUnref
<1> QED
    BY <1>1, <1>2, <1>3, <1>4, <1>5, <1>6, <1>7, <1>8, <1>9, <1>10, <1>11,
       <1>12, <1>13, <1>14, <1>15, <1>16 DEF Act, Step

LEMMA LocalParts ==
    ASSUME NEW t \in Threads, Local(t), NEW n
    PROVE  \A u \in Threads \ {t} :
                /\ Refers(u, n)' <=> Refers(u, n)
                /\ Keeps(u, n)' <=> Keeps(u, n)
                /\ Adds(u, n)' <=> Adds(u, n)
                /\ Links(u, n)' <=> Links(u, n)
                /\ Has(u, n)' <=> Has(u, n)
BY DEF Local, Refers, Keeps, Adds, Links, Has

(* Node n stays where it was, for t too. *)
InPlace(t, n) ==
    /\ n \in fresh' <=> n \in fresh
    /\ n \in Listed' <=> n \in Listed
    /\ Keeps(t, n)' <=> Keeps(t, n)
    /\ Adds(t, n)' <=> Adds(t, n)
    /\ Links(t, n)' <=> Links(t, n)

LEMMA InPlaceParts ==
    ASSUME NEW t \in Threads, Local(t), NEW n, InPlace(t, n)
    PROVE  SameParts(n)
<1>1. ASSUME NEW u \in Threads
      PROVE  /\ Keeps(u, n)' <=> Keeps(u, n)
             /\ Adds(u, n)' <=> Adds(u, n)
             /\ Links(u, n)' <=> Links(u, n)
    <2>1. CASE u = t
        BY <2>1 DEF InPlace
    <2>2. CASE u # t
        BY <2>2, LocalParts
    <2> QED
        BY <2>1, <2>2
<1> QED
    BY <1>1 DEF SameParts, InPlace

LEMMA NodeUntouched ==
    ASSUME NEW t \in Threads, Local(t), NEW n, NodeInv(n), InPlace(t, n),
           Refers(t, n)' <=> Refers(t, n), freeListRefs'[n] = freeListRefs[n]
    PROVE  NodeInv(n)'
<1>1. \A u \in Threads : Refers(u, n)' <=> Refers(u, n)
    BY LocalParts
<1> QED
    BY <1>1, InPlaceParts, NodeKept

LEMMA ModFacts ==
    /\ 0 % ShouldBeOnFreeList = 0
    /\ ShouldBeOnFreeList % ShouldBeOnFreeList = 0
<1>1. Cardinality({}) = 0 /\ {} \in SUBSET Threads
    BY FS_EmptySet
<1>2. ShouldBeOnFreeList \in Nat /\ ShouldBeOnFreeList > 0
    BY <1>1, ThreadSets
<1>3. ASSUME NEW f \in Nat, f > 0 PROVE 0 % f = 0 /\ f % f = 0
    <2>1. 0 % f = 0
        BY <1>3
    <2>2. f % f = 0
        BY <1>3
    <2> QED
        BY <2>1, <2>2
<1> QED
    BY <1>2, <1>3

(* What the counts of the nodes that a thread works on are at the least. *)
LEMMA CountBounds ==
    ASSUME ListInv, NEW t \in Threads
    PROVE  /\ pc[t] = "undo" => freeListRefs[node[t]] >= 1
           /\ pc[t] = "unref" => freeListRefs[node[t]] >= 1
           /\ pc[t] = "got" => freeListRefs[head[t]] >= 2
<1>1. ASSUME NEW n \in Nodes, Refers(t, n)
      PROVE  freeListRefs[n] >= 1 /\ Taken(n) >= 1
    <2>1. Taken(n) \in Nat /\ Taken(n) # 0 /\ ShouldBeOnFreeList \in Nat
        BY <1>1, TakenType
    <2>2. freeListRefs[n] \in {Taken(n), Taken(n) + 1,
                               Taken(n) + ShouldBeOnFreeList}
        BY <1>1 DEF ListInv, NodeInv
    <2> QED
        BY <2>1, <2>2
<1>2. ASSUME NEW n \in Nodes, Links(t, n)
      PROVE  freeListRefs[n] = Taken(n) + 1 /\ Taken(n) \in Nat
    <2>1. Has(t, n)
        BY <1>2 DEF Has
    <2> QED
        BY <1>2, <2>1, SoleHolder, TakenType DEF ListInv
<1>3. CASE pc[t] = "undo"
    <2>1. node[t] \in Nodes /\ Links(t, node[t])
        BY <1>3, TypeFacts DEF ListInv, AddPc, Links
    <2> QED
        BY <1>2, <1>3, <2>1
<1>4. CASE pc[t] = "unref"
    <2>1. node[t] \in Nodes /\ Refers(t, node[t])
        BY <1>4, TypeFacts DEF ListInv, Refers
    <2> QED
        BY <1>1, <1>4, <2>1
<1>5. CASE pc[t] = "got"
    <2>1. head[t] \in Nodes /\ Links(t, head[t]) /\ Refers(t, head[t])
        BY <1>5, TypeFacts DEF ListInv, Refers, Links, GetPc
    <2> QED
        BY <1>1, <1>2, <1>5, <2>1
<1> QED
    BY <1>3, <1>4, <1>5

LEMMA TypeStep ==
    ASSUME ListInv, NEW t \in Threads, Act(t)
    PROVE  TypeOK'
<1> USE DEF TypeOK, Pc, GetPc, AddPc, Goto, Return, SetRefs, shared,
            getLocals, addLocals
<1>0. TypeOK
    BY DEF ListInv
<1>1. CASE \E n \in Nodes : Allocate(t, n)
    BY <1>0, <1>1 DEF Allocate
<1>2. CASE \E n \in Nodes : AddCall(t, n)
    BY <1>0, <1>2, NodesAssumption DEF AddCall
<1>3. CASE AddFlag(t)
    BY <1>0, <1>3, FlagAssumption DEF AddFlag
<1>4. CASE AddFirst(t)
    BY <1>0, <1>4 DEF AddFirst
<1>5. CASE AddLink(t)
    BY <1>0, <1>5 DEF AddLink
<1>6. CASE AddCount(t)
    BY <1>0, <1>6 DEF AddCount
<1>7. CASE AddPush(t)
    BY <1>0, <1>7 DEF AddPush, LeaveAdd
<1>8. CASE AddUndo(t)
    BY <1>0, <1>8, CountBounds, FlagAssumption DEF AddUndo, LeaveAdd
<1>9. CASE GetCall(t)
    BY <1>0, <1>9 DEF GetCall
<1>10. CASE GetLoad(t)
    BY <1>0, <1>10 DEF GetLoad
<1>11. CASE GetRefs(t)
    BY <1>0, <1>11 DEF GetRefs
<1>12. CASE GetRef(t)
    BY <1>0, <1>12 DEF GetRef
<1>13. CASE GetNext(t)
    BY <1>0, <1>13 DEF GetNext
<1>14. CASE GetCas(t)
    BY <1>0, <1>14 DEF GetCas
<1>15. CASE GetGot(t)
    BY <1>0, <1>15, CountBounds DEF GetGot
<1>16. CASE GetUnref(t)
    BY <1>0, <1>16, CountBounds DEF GetUnref
<1> QED
    BY <1>1, <1>2, <1>3, <1>4, <1>5, <1>6, <1>7, <1>8, <1>9, <1>10, <1>11,
       <1>12, <1>13, <1>14, <1>15, <1>16 DEF Act, Step

(* Only a push and a successful compare-exchange of try_get change the list;
   a node is linked before it is on it. *)
LEMMA ListStep ==
    ASSUME ListInv, NEW t \in Threads, Act(t)
    PROVE  /\ StackInv'
           /\ \/ Listed' = Listed
              \/ /\ AddPush(t) /\ freeListHead = seen[t]
                 /\ Listed' = Listed \union {node[t]}
              \/ /\ GetCas(t) /\ freeListHead = head[t]
                 /\ head[t] \in Listed /\ Listed' = Listed \ {head[t]}
<1> USE DEF ListInv, shared, getLocals, addLocals, SetRefs
<1>1. CASE AddLink(t)
    <2>1. node[t] \in Nodes /\ Adds(t, node[t])
        BY <1>1, TypeFacts DEF AddLink, Adds, AddPc
    <2>2. node[t] \notin Listed
        BY <2>1, SoleHolder DEF Has
    <2>3. \A n \in Listed : freeListNext'[n] = freeListNext[n]
        BY <1>1, <2>2 DEF AddLink, TypeOK, Listed
    <2> QED
        BY <1>1, <2>3, ListKept DEF AddLink
<1>2. CASE AddPush(t) /\ freeListHead = seen[t]
    <2>1. node[t] \in Nodes /\ Links(t, node[t])
        BY <1>2, TypeFacts DEF AddPush, Links, AddPc
    <2>2. node[t] \notin Listed
        BY <2>1, SoleHolder DEF Has
    <2>3. freeListNext[node[t]] = freeListHead
        BY <1>2 DEF AddPush, ThreadInv
    <2>4. freeListHead' = node[t] /\ freeListNext' = freeListNext
        BY <1>2 DEF AddPush
    <2> QED
        BY <1>2, <2>1, <2>2, <2>3, <2>4, ListPushed
<1>3. CASE GetCas(t) /\ freeListHead = head[t]
    <2>1. head[t] \in Nodes
        BY <1>3, TypeFacts DEF GetCas, GetPc
    <2>2. freeListHead # Null /\ freeListHead' = freeListNext[freeListHead]
          /\ freeListNext' = freeListNext
        BY <1>3, <2>1, NodesAssumption DEF GetCas, ThreadInv
    <2> QED
        BY <1>3, <2>2, ListPopped
<1>4. CASE /\ ~AddLink(t) /\ ~(AddPush(t) /\ freeListHead = seen[t])
           /\ ~(GetCas(t) /\ freeListHead = head[t])
    <2>1. freeListHead' = freeListHead /\ freeListNext' = freeListNext
        BY <1>4, Zenon DEF Act, Step, Allocate, AddCall, AddFlag, AddFirst,
            AddCount, AddPush, AddUndo, GetCall, GetLoad, GetRefs, GetRef,
            GetNext, GetCas, GetGot, GetUnref
    <2> QED
        BY <2>1, ListKept
<1> QED
    BY <1>1, <1>2, <1>3, <1>4

LEMMA OtherThreads ==
    ASSUME ListInv, NEW t \in Threads, Act(t), NEW u \in Threads \ {t}
    PROVE  ThreadInv(u)'
<1>1. Local(t) /\ ThreadInv(u)
    BY ActIsLocal DEF ListInv
<1>2. /\ pc[u] \in {"count", "push"} =>
            freeListNext'[node[u]] = freeListNext[node[u]]
      /\ pc[u] = "cas" => freeListNext'[head[u]] = freeListNext[head[u]]
    <2>1. CASE AddLink(t)
        <3>1. node[t] \in Nodes /\ Adds(t, node[t]) /\ NodeInv(node[t])
            BY <2>1, TypeFacts DEF AddLink, Adds, AddPc, ListInv
        <3>2. \A w \in Threads \ {t} : ~Has(w, node[t]) /\ ~Refers(w, node[t])
            BY <3>1, SoleHolder, TakenType DEF Has
        <3>3. pc[u] \in {"count", "push"} => node[u] \in Nodes \ {node[t]}
            BY <3>2, TypeFacts DEF Has, Adds, Links, AddPc, ListInv
        <3>4. pc[u] = "cas" => head[u] \in Nodes \ {node[t]}
            BY <3>2, TypeFacts DEF Refers, GetPc, ListInv
        <3>5. \A n \in Nodes \ {node[t]} :
                    freeListNext'[n] = freeListNext[n]
            BY <2>1 DEF AddLink, TypeOK, ListInv
        <3> QED
            BY <3>3, <3>4, <3>5
    <2>2. CASE ~AddLink(t)
        <3>1. freeListNext' = freeListNext
            BY <2>2, Zenon DEF Act, Step, Allocate, AddCall, AddFlag,
                AddFirst, AddCount, AddPush, AddUndo, GetCall, GetLoad,
                GetRefs, GetRef, GetNext, GetCas, GetGot, GetUnref, shared
        <3> QED
            BY <3>1
    <2> QED
        BY <2>1, <2>2
<1>3. /\ pc'[u] = pc[u] /\ owned'[u] = owned[u]
      /\ head'[u] = head[u] /\ next'[u] = next[u] /\ refs'[u] = refs[u]
      /\ node'[u] = node[u] /\ seen'[u] = seen[u]
    BY <1>1 DEF Local
<1> QED
    BY <1>1, <1>2, <1>3 DEF ThreadInv

LEMMA OwnThread ==
    ASSUME ListInv, NEW t \in Threads, Act(t)
    PROVE  ThreadInv(t)'
<1> USE DEF TypeOK, ThreadInv, GetPc, AddPc, Goto, Return, shared, getLocals,
            addLocals
<1>0. TypeOK /\ ThreadInv(t)
    BY DEF ListInv
<1>1. CASE \E n \in Nodes : Allocate(t, n)
    BY <1>0, <1>1 DEF Allocate
<1>2. CASE \E n \in Nodes : AddCall(t, n)
    BY <1>0, <1>2 DEF AddCall
<1>3. CASE AddFlag(t)
    BY <1>0, <1>3 DEF AddFlag
<1>4. CASE AddFirst(t)
    BY <1>0, <1>4 DEF AddFirst
<1>5. CASE AddLink(t)
    BY <1>0, <1>5 DEF AddLink
<1>6. CASE AddCount(t)
    BY <1>0, <1>6 DEF AddCount
<1>7. CASE AddPush(t)
    BY <1>0, <1>7 DEF AddPush, LeaveAdd
<1>8. CASE AddUndo(t)
    BY <1>0, <1>8 DEF AddUndo, LeaveAdd
<1>9. CASE GetCall(t)
    BY <1>0, <1>9 DEF GetCall
<1>10. CASE GetLoad(t)
    BY <1>0, <1>10 DEF GetLoad
<1>11. CASE GetRefs(t)
    BY <1>0, <1>11 DEF GetRefs, References
<1>12. CASE GetRef(t)
    BY <1>0, <1>12 DEF GetRef
<1>13. CASE GetNext(t)
    BY <1>0, <1>13 DEF GetNext
<1>14. CASE GetCas(t)
    <2>1. CASE freeListHead = head[t]
        <3>1. head[t] \in Nodes /\ head[t] \in Listed
            BY <1>14, <2>1, ListStep, TypeFacts, ListPopped, NodesAssumption
                DEF GetCas, ListInv
        <3>2. head[t] \notin owned[t]
            BY <3>1 DEF ListInv, NodeInv, Has, Keeps
        <3> QED
            BY <1>0, <1>14, <2>1, <3>2 DEF GetCas
    <2>2. CASE freeListHead # head[t]
        BY <1>0, <1>14, <2>2 DEF GetCas
    <2> QED
        BY <2>1, <2>2
<1>15. CASE GetGot(t)
    BY <1>0, <1>15 DEF GetGot
<1>16. CASE GetUnref(t)
    <2>1. CASE freeListRefs[node[t]] = ShouldBeOnFreeList + 1
        <3>1. node[t] \in Nodes /\ NodeInv(node[t])
            BY <1>16, TypeFacts DEF GetUnref, ListInv
        <3>2. ~Loose(node[t])
            BY <2>1, <3>1, TakenType DEF NodeInv
        <3>3. node[t] \notin owned[t]
            BY <3>2 DEF Loose, Keeps
        <3> QED
            BY <1>0, <1>16, <2>1, <3>3 DEF GetUnref
    <2>2. CASE freeListRefs[node[t]] # ShouldBeOnFreeList + 1
        BY <1>0, <1>16, <2>2 DEF GetUnref
    <2> QED
        BY <2>1, <2>2
<1> QED
    BY <1>1, <1>2, <1>3, <1>4, <1>5, <1>6, <1>7, <1>8, <1>9, <1>10, <1>11,
       <1>12, <1>13, <1>14, <1>15, <1>16 DEF Act, Step

(* The steps in which nothing happens to any node, except that a thread goes
   on with what it has. *)
LEMMA NodeStepPure ==
    ASSUME ListInv, NEW t \in Threads, Act(t), NEW n \in Nodes,
           \/ \E m \in Nodes : AddCall(t, m)
           \/ AddFirst(t) \/ AddLink(t)
           \/ AddPush(t) /\ freeListHead # seen[t]
           \/ GetCall(t) \/ GetLoad(t) \/ GetRefs(t) \/ GetNext(t)
           \/ GetRef(t) /\ freeListRefs[head[t]] # refs[t]
           \/ GetCas(t) /\ freeListHead # head[t]
    PROVE  NodeInv(n)'
<1> USE DEF TypeOK, GetPc, AddPc, Goto, Return, shared, getLocals, addLocals,
            Refers, Keeps, Adds, Links
<1>1. TypeOK /\ Local(t) /\ NodeInv(n)
    BY ActIsLocal DEF ListInv
<1>2. /\ freeListRefs' = freeListRefs /\ fresh' = fresh
      /\ Listed' = Listed
    <2>1. ~(AddPush(t) /\ freeListHead = seen[t])
        BY DEF AddPush, AddFirst, AddLink, AddCall, GetCall, GetLoad, GetRefs,
               GetNext, GetRef, GetCas
    <2>2. ~(GetCas(t) /\ freeListHead = head[t])
        BY DEF AddPush, AddFirst, AddLink, AddCall, GetCall, GetLoad, GetRefs,
               GetNext, GetRef, GetCas
    <2>3. freeListRefs' = freeListRefs /\ fresh' = fresh
        BY DEF AddPush, AddFirst, AddLink, AddCall, GetCall, GetLoad, GetRefs,
               GetNext, GetRef, GetCas
    <2> QED
        BY <2>1, <2>2, <2>3, ListStep
<1>3. /\ Keeps(t, n)' <=> Keeps(t, n)
      /\ Adds(t, n)' <=> Adds(t, n)
      /\ Links(t, n)' <=> Links(t, n)
      /\ Refers(t, n)' <=> Refers(t, n)
    <2>1. CASE \E m \in Nodes : AddCall(t, m)
        BY <1>1, <2>1 DEF AddCall
    <2>2. CASE AddFirst(t)
        BY <1>1, <2>2 DEF AddFirst
    <2>3. CASE AddLink(t)
        BY <1>1, <2>3 DEF AddLink
    <2>4. CASE AddPush(t) /\ freeListHead # seen[t]
        BY <1>1, <2>4 DEF AddPush
    <2>5. CASE GetCall(t)
        BY <1>1, <2>5 DEF GetCall
    <2>6. CASE GetLoad(t)
        BY <1>1, <2>6 DEF GetLoad
    <2>7. CASE GetRefs(t)
        BY <1>1, <2>7 DEF GetRefs
    <2>8. CASE GetNext(t)
        BY <1>1, <2>8 DEF GetNext
    <2>9. CASE GetRef(t) /\ freeListRefs[head[t]] # refs[t]
        BY <1>1, <2>9 DEF GetRef
    <2>10. CASE GetCas(t) /\ freeListHead # head[t]
        BY <1>1, <2>10 DEF GetCas
    <2> QED
        BY <2>1, <2>2, <2>3, <2>4, <2>5, <2>6, <2>7, <2>8, <2>9, <2>10
<1> QED
    BY <1>1, <1>2, <1>3, NodeUntouched DEF InPlace

(* What t does to the node it holds in its hands. *)
Work(t, m) ==
    \/ Allocate(t, m)
    \/ node[t] = m /\ (AddFlag(t) \/ AddCount(t) \/ AddUndo(t) \/ GetUnref(t))
    \/ node[t] = m /\ AddPush(t) /\ freeListHead = seen[t]
    \/ head[t] = m /\ GetRef(t) /\ freeListRefs[m] = refs[t]
    \/ head[t] = m /\ GetCas(t) /\ freeListHead = m
    \/ head[t] = m /\ GetGot(t)

LEMMA NodeStepOther ==
    ASSUME ListInv, NEW t \in Threads, Act(t), NEW m \in Nodes, Work(t, m),
           NEW n \in Nodes \ {m}
    PROVE  NodeInv(n)'
<1> USE DEF TypeOK, GetPc, AddPc, Goto, Return, SetRefs, shared, getLocals,
            addLocals, Refers, Keeps, Adds, Links
<1>1. TypeOK /\ Local(t) /\ NodeInv(n)
    BY ActIsLocal DEF ListInv
<1>2. n \in Listed' <=> n \in Listed
    <2>1. AddPush(t) => node[t] = m
        BY DEF Work, Allocate, AddFlag, AddCount, AddUndo, GetUnref, AddPush,
               GetRef, GetCas, GetGot
    <2>2. GetCas(t) => head[t] = m
        BY DEF Work, Allocate, AddFlag, AddCount, AddUndo, GetUnref, AddPush,
               GetRef, GetCas, GetGot
    <2> QED
        BY <2>1, <2>2, ListStep
<1>3. /\ n \in fresh' <=> n \in fresh
      /\ freeListRefs'[n] = freeListRefs[n]
      /\ Keeps(t, n)' <=> Keeps(t, n)
      /\ Adds(t, n)' <=> Adds(t, n)
      /\ Links(t, n)' <=> Links(t, n)
      /\ Refers(t, n)' <=> Refers(t, n)
    <2>1. CASE Allocate(t, m)
        BY <1>1, <2>1 DEF Allocate
    <2>2. CASE node[t] = m /\ AddFlag(t)
        BY <1>1, <2>2 DEF AddFlag
    <2>3. CASE node[t] = m /\ AddCount(t)
        BY <1>1, <2>3 DEF AddCount
    <2>4. CASE node[t] = m /\ AddUndo(t)
        BY <1>1, <2>4 DEF AddUndo, LeaveAdd
    <2>5. CASE node[t] = m /\ GetUnref(t)
        BY <1>1, <2>5 DEF GetUnref
    <2>6. CASE node[t] = m /\ AddPush(t) /\ freeListHead = seen[t]
        BY <1>1, <2>6 DEF AddPush, LeaveAdd
    <2>7. CASE head[t] = m /\ GetRef(t) /\ freeListRefs[m] = refs[t]
        BY <1>1, <2>7 DEF GetRef
    <2>8. CASE head[t] = m /\ GetCas(t) /\ freeListHead = m
        BY <1>1, <2>8 DEF GetCas
    <2>9. CASE head[t] = m /\ GetGot(t)
        BY <1>1, <2>9 DEF GetGot
    <2> QED
        BY <2>1, <2>2, <2>3, <2>4, <2>5, <2>6, <2>7, <2>8, <2>9 DEF Work
<1> QED
    BY <1>1, <1>2, <1>3, NodeUntouched DEF InPlace

(* The node that t has: what the others take of it stays, and whether they
   are in it at all. *)
LEMMA OthersStay ==
    ASSUME ListInv, NEW t \in Threads, Act(t), NEW m \in Nodes, Has(t, m)
    PROVE  /\ \A u \in Threads \ {t} : ~Has(u, m)'
           /\ m \notin fresh /\ m \notin Listed
           /\ (Refers(t, m)' <=> Refers(t, m)) => Taken(m)' = Taken(m)
<1>1. Local(t) /\ NodeInv(m)
    BY ActIsLocal DEF ListInv
<1>2. (Refers(t, m)' <=> Refers(t, m)) =>
            \A u \in Threads : Refers(u, m)' <=> Refers(u, m)
    BY <1>1, LocalParts
<1> QED
    BY <1>1, <1>2, SoleHolder, LocalParts, TakenSame

LEMMA NodeStepAdd ==
    ASSUME ListInv, NEW t \in Threads, Act(t),
           NEW k \in Nodes, k = node[t],
           AddFlag(t) \/ AddCount(t) \/ AddUndo(t)
    PROVE  NodeInv(k)'
<1> USE DEF Goto, Return, SetRefs, shared, getLocals, addLocals
<1>1. k \in Nodes /\ k = node[t]
    OBVIOUS
<1>2. TypeOK /\ NodeInv(k) /\ ThreadInv(t) /\ Has(t, k)
      /\ pc[t] \in {"flag", "count", "undo"}
    BY <1>1 DEF AddFlag, AddCount, AddUndo, ListInv, Has, Keeps, Adds, Links
<1>3. /\ \A u \in Threads \ {t} : ~Has(u, k)'
      /\ k \notin fresh' /\ k \notin Listed'
    <2>1. fresh' = fresh /\ Listed' = Listed
        <3>1. ~(AddPush(t) /\ freeListHead = seen[t])
            BY <1>2 DEF AddPush
        <3>2. ~(GetCas(t) /\ freeListHead = head[t])
            BY <1>2 DEF GetCas
        <3> QED
            BY <3>1, <3>2, ListStep DEF AddFlag, AddCount, AddUndo
    <2> QED
        BY <1>1, <1>2, <2>1, OthersStay
<1>4. ~Refers(t, k) /\ ~Refers(t, k)' /\ k \notin owned'[t]
      /\ Taken(k)' = Taken(k) /\ Taken(k) \in Nat
    <2>1. ~Refers(t, k)
        BY <1>2 DEF Refers
    <2>2. ~Refers(t, k)'
        BY <1>2 DEF AddFlag, AddCount, AddUndo, LeaveAdd, TypeOK, Refers
    <2>3. k \notin owned'[t]
        BY <1>1, <1>2 DEF ThreadInv, AddFlag, AddCount, AddUndo, AddPc
    <2> QED
        BY <1>1, <1>2, <2>1, <2>2, <2>3, OthersStay, TakenType
<1>5. /\ Keeps(t, k) => freeListRefs[k] = Taken(k)
      /\ Links(t, k) => freeListRefs[k] = Taken(k) + 1
      /\ Adds(t, k) => Taken(k) = 0
    BY <1>1, <1>2, SoleHolder
<1>6. CASE AddFlag(t)
    <2>1. freeListRefs[k] = Taken(k)
        BY <1>1, <1>5, <1>6 DEF AddFlag, Keeps
    <2>2. freeListRefs'[k] = Taken(k)' + ShouldBeOnFreeList
        BY <1>1, <1>2, <1>4, <1>6, <2>1 DEF AddFlag, TypeOK
    <2>3. ~Keeps(t, k)' /\ ~Links(t, k)'
        BY <1>2, <1>4, <1>6 DEF AddFlag, TypeOK, Keeps, Links
    <2>4. Adds(t, k)' <=> freeListRefs[k] = 0
        BY <1>1, <1>2, <1>6 DEF AddFlag, TypeOK, Adds
    <2> QED
        BY <1>1, <1>3, <1>4, <2>1, <2>2, <2>3, <2>4, NodeOfOne
<1>7. CASE AddCount(t)
    <2>1. freeListRefs'[k] = Taken(k)' + 1
        BY <1>1, <1>2, <1>4, <1>5, <1>7 DEF AddCount, TypeOK, Adds
    <2>2. ~Keeps(t, k)' /\ ~Adds(t, k)' /\ Links(t, k)'
        BY <1>1, <1>2, <1>4, <1>7 DEF AddCount, TypeOK, Keeps, Adds, Links
    <2> QED
        BY <1>1, <1>3, <1>4, <2>1, <2>2, NodeOfOne
<1>8. CASE AddUndo(t)
    <2>1. freeListRefs[k] = Taken(k) + 1
        BY <1>1, <1>5, <1>8 DEF AddUndo, Links
    <2>2. freeListRefs'[k] = Taken(k)' + ShouldBeOnFreeList
        BY <1>1, <1>2, <1>4, <1>8, <2>1, FlagAssumption DEF AddUndo, TypeOK
    <2>3. ~Keeps(t, k)' /\ ~Links(t, k)'
        BY <1>2, <1>4, <1>8 DEF AddUndo, LeaveAdd, TypeOK, Keeps, Links
    <2>4. Adds(t, k)' <=> freeListRefs[k] = 1
        BY <1>1, <1>2, <1>8 DEF AddUndo, LeaveAdd, TypeOK, Adds
    <2>5. freeListRefs[k] = 1 <=> Taken(k) = 0
        BY <1>4, <2>1
    <2> QED
        BY <1>1, <1>3, <1>4, <2>2, <2>3, <2>4, <2>5, NodeOfOne
<1> QED
    BY <1>6, <1>7, <1>8

LEMMA NodeStepPush ==
    ASSUME ListInv, NEW t \in Threads, NEW k \in Nodes, k = node[t],
           AddPush(t), freeListHead = seen[t]
    PROVE  NodeInv(k)'
<1> USE DEF Goto, Return, shared, getLocals, addLocals
<1>1. k \in Nodes /\ k = node[t]
    OBVIOUS
<1>2. TypeOK /\ NodeInv(k) /\ ThreadInv(t) /\ Links(t, k) /\ Act(t)
    BY <1>1 DEF AddPush, ListInv, Links, Act, Step
<1>3. /\ freeListRefs[k] = Taken(k) + 1
      /\ \A u \in Threads \ {t} : ~Has(u, k)'
      /\ k \notin fresh
    BY <1>2, OthersStay, SoleHolder DEF Has
<1>4. k \in Listed' /\ fresh' = fresh /\ freeListRefs' = freeListRefs
    <2>1. Listed' = Listed \union {k}
        BY <1>1, <1>2, ListStep, ListPushed, OthersStay
            DEF AddPush, GetCas, ListInv, ThreadInv, Has
    <2> QED
        BY <2>1 DEF AddPush
<1>5. Taken(k)' = Taken(k)
    <2>1. ~Refers(t, k) /\ ~Refers(t, k)'
        BY <1>2 DEF AddPush, LeaveAdd, TypeOK, Refers
    <2> QED
        BY <1>2, <2>1, OthersStay DEF Has
<1>6. ~Has(t, k)'
    <2>1. k \notin owned'[t]
        BY <1>1, <1>2 DEF ThreadInv, AddPush, AddPc
    <2> QED
        BY <1>2, <2>1 DEF AddPush, LeaveAdd, TypeOK, Has, Keeps, Adds, Links
<1>7. k \notin fresh' /\ freeListRefs'[k] = Taken(k)' + 1
    BY <1>3, <1>4, <1>5
<1>8. \A u \in Threads : ~Has(u, k)'
    BY <1>3, <1>6
<1> QED
    BY <1>4, <1>7, <1>8, NodeOfList

LEMMA NodeStepAllocate ==
    ASSUME ListInv, NEW t \in Threads, NEW k \in Nodes, Allocate(t, k)
    PROVE  NodeInv(k)'
<1>1. TypeOK /\ NodeInv(k) /\ Local(t) /\ Act(t)
    BY ActIsLocal DEF ListInv, Act
<1>2. k \in fresh /\ pc[t] = "idle" /\ fresh' = fresh \ {k} /\ pc' = pc
      /\ owned'[t] = owned[t] \union {k} /\ freeListRefs' = freeListRefs
    BY <1>1 DEF Allocate, TypeOK
<1>3. /\ k \notin Listed /\ \A u \in Threads : ~Has(u, k)
      /\ freeListRefs[k] = Taken(k)
    BY <1>1, <1>2 DEF NodeInv, Loose
<1>4. Listed' = Listed
    <2>1. ~AddPush(t) /\ ~GetCas(t)
        BY <1>2 DEF AddPush, GetCas
    <2> QED
        BY <1>1, <2>1, ListStep
<1>5. \A u \in Threads \ {t} : ~Has(u, k)'
    BY <1>1, <1>3, LocalParts
<1>6. ~Refers(t, k) /\ ~Refers(t, k)' /\ Keeps(t, k)' /\ ~Adds(t, k)'
      /\ ~Links(t, k)'
    BY <1>2 DEF Refers, Keeps, Adds, Links
<1>7. Taken(k)' = Taken(k)
    <2>1. \A u \in Threads : Refers(u, k)' <=> Refers(u, k)
        BY <1>1, <1>6, LocalParts
    <2> QED
        BY <2>1, TakenSame
<1>8. k \notin fresh' /\ k \notin Listed' /\ freeListRefs'[k] = Taken(k)'
    BY <1>2, <1>3, <1>4, <1>7
<1> QED
    BY <1>5, <1>6, <1>8, NodeOfOne

LEMMA NodeStepRef ==
    ASSUME ListInv, NEW t \in Threads, NEW k \in Nodes, k = head[t],
           GetRef(t), freeListRefs[k] = refs[t]
    PROVE  NodeInv(k)'
<1> USE DEF Goto, SetRefs
<1>1. TypeOK /\ NodeInv(k) /\ ThreadInv(t) /\ Local(t) /\ Act(t)
    BY ActIsLocal DEF ListInv, Act, Step
<1>2. /\ pc[t] = "ref" /\ pc'[t] = "next" /\ head' = head
      /\ node' = node /\ owned' = owned /\ fresh' = fresh
      /\ freeListRefs'[k] = freeListRefs[k] + 1
    BY <1>1 DEF GetRef, TypeOK, addLocals
<1>3. InPlace(t, k)
    <2>1. Listed' = Listed
        <3>1. ~AddPush(t) /\ ~GetCas(t)
            BY <1>2 DEF AddPush, GetCas
        <3> QED
            BY <1>1, <3>1, ListStep
    <2> QED
        BY <1>2, <2>1 DEF InPlace, Keeps, Adds, Links
<1>4. Taken(k)' = Taken(k) + 1
    <2>1. ~Refers(t, k) /\ Refers(t, k)'
        BY <1>2 DEF Refers
    <2>2. \A u \in Threads \ {t} : Refers(u, k)' <=> Refers(u, k)
        BY <1>1, LocalParts
    <2> QED
        BY <2>1, <2>2, TakenGrows
<1>5. freeListRefs[k] \in Nat /\ Taken(k) \in Nat /\ ShouldBeOnFreeList \in Nat
    BY <1>1, TakenType DEF TypeOK
<1>6. ~Loose(k) /\ ~Counted(k) => Taken(k) # 0
    <2>1. ASSUME ~Loose(k) /\ ~Counted(k), Taken(k) = 0 PROVE FALSE
        <3>1. freeListRefs[k] = ShouldBeOnFreeList
            BY <1>1, <1>5, <2>1 DEF NodeInv
        <3>2. refs[t] % ShouldBeOnFreeList # 0
            BY <1>1, <1>2 DEF ThreadInv
        <3> QED
            BY <3>1, <3>2, ModFacts
    <2> QED
        BY <2>1
<1>7. freeListRefs'[k] - Taken(k)' = freeListRefs[k] - Taken(k)
      /\ Taken(k)' # 0 /\ freeListRefs'[k] \in Nat
    BY <1>2, <1>4, <1>5
<1> QED
    BY <1>1, <1>3, <1>5, <1>6, <1>7, InPlaceParts, NodeReferred

LEMMA NodeStepCas ==
    ASSUME ListInv, NEW t \in Threads, NEW k \in Nodes, k = head[t],
           GetCas(t), freeListHead = k
    PROVE  NodeInv(k)'
<1> USE DEF Goto
<1>1. TypeOK /\ NodeInv(k) /\ ThreadInv(t) /\ Local(t) /\ Act(t)
    BY ActIsLocal DEF ListInv, Act, Step
<1>2. /\ pc[t] = "cas" /\ pc'[t] = "got" /\ head' = head /\ node' = node
      /\ owned' = owned /\ fresh' = fresh /\ freeListRefs' = freeListRefs
    BY <1>1 DEF GetCas, TypeOK
<1>3. k \in Listed /\ k \notin Listed'
    BY <1>1, <1>2, ListStep, ListPopped, NodesAssumption
        DEF AddPush, ListInv, GetCas, ThreadInv
<1>4. /\ \A u \in Threads : ~Has(u, k)
      /\ k \notin fresh /\ freeListRefs[k] = Taken(k) + 1
    BY <1>1, <1>3 DEF NodeInv, Counted
<1>5. Refers(t, k) /\ Refers(t, k)' /\ Links(t, k)'
    BY <1>2 DEF Refers, Links
<1>6. ~Keeps(t, k)' /\ ~Adds(t, k)'
    BY <1>2, <1>4 DEF Has, Keeps, Adds
<1>7. Taken(k)' = Taken(k)
    <2>1. \A u \in Threads : Refers(u, k)' <=> Refers(u, k)
        BY <1>1, <1>5, LocalParts
    <2> QED
        BY <2>1, TakenSame
<1>8. \A u \in Threads \ {t} : ~Has(u, k)'
    BY <1>1, <1>4, LocalParts
<1>9. k \notin fresh' /\ freeListRefs'[k] = Taken(k)' + 1
    BY <1>2, <1>4, <1>7
<1> QED
    BY <1>3, <1>5, <1>6, <1>8, <1>9, NodeOfOne

LEMMA NodeStepGot ==
    ASSUME ListInv, NEW t \in Threads, NEW k \in Nodes, k = head[t], GetGot(t)
    PROVE  NodeInv(k)'
<1> USE DEF Goto, Return, SetRefs
<1>1. TypeOK /\ NodeInv(k) /\ Local(t) /\ Act(t)
    BY ActIsLocal DEF ListInv, Act, Step
<1>2. /\ pc[t] = "got" /\ pc'[t] = "idle" /\ k \in owned'[t]
      /\ fresh' = fresh /\ freeListRefs'[k] = freeListRefs[k] - 2
    BY <1>1 DEF GetGot, TypeOK
<1>3. Refers(t, k) /\ Links(t, k) /\ ~Refers(t, k)' /\ Keeps(t, k)'
      /\ ~Adds(t, k)' /\ ~Links(t, k)'
    BY <1>2 DEF Refers, Keeps, Adds, Links
<1>4. /\ \A u \in Threads \ {t} : ~Has(u, k)'
      /\ k \notin fresh /\ k \notin Listed /\ freeListRefs[k] = Taken(k) + 1
    BY <1>1, <1>3, SoleHolder, OthersStay DEF Has
<1>5. Listed' = Listed
    <2>1. ~AddPush(t) /\ ~GetCas(t)
        BY <1>2 DEF AddPush, GetCas
    <2> QED
        BY <1>1, <2>1, ListStep
<1>6. Taken(k)' = Taken(k) - 1 /\ Taken(k) \in Nat
    <2>1. \A u \in Threads \ {t} : Refers(u, k)' <=> Refers(u, k)
        BY <1>1, LocalParts
    <2> QED
        BY <1>3, <2>1, TakenShrinks, TakenType
<1>7. k \notin fresh' /\ k \notin Listed' /\ freeListRefs'[k] = Taken(k)'
    BY <1>2, <1>4, <1>5, <1>6
<1> QED
    BY <1>3, <1>4, <1>7, NodeOfOne

LEMMA NodeStepUnref ==
    ASSUME ListInv, NEW t \in Threads, NEW k \in Nodes, k = node[t],
           GetUnref(t)
    PROVE  NodeInv(k)'
<1> USE DEF Goto, Return, SetRefs
<1>1. TypeOK /\ NodeInv(k) /\ Local(t) /\ Act(t)
    BY ActIsLocal DEF ListInv, Act, Step
<1>2. /\ pc[t] = "unref" /\ head' = head /\ owned' = owned /\ fresh' = fresh
      /\ freeListRefs'[k] = freeListRefs[k] - 1
      /\ pc'[t] \in {"first", "refs", "idle"}
      /\ pc'[t] = "first" <=> freeListRefs[k] = ShouldBeOnFreeList + 1
      /\ pc'[t] = "first" => node' = node
    BY <1>1 DEF GetUnref, TypeOK, getLocals
<1>3. Refers(t, k) /\ ~Refers(t, k)'
    BY <1>2 DEF Refers
<1>4. Taken(k)' = Taken(k) - 1 /\ Taken(k) > 0 /\ Taken(k) \in Nat
    <2>1. \A u \in Threads \ {t} : Refers(u, k)' <=> Refers(u, k)
        BY <1>1, LocalParts
    <2> QED
        BY <1>3, <2>1, TakenShrinks, TakenType
<1>5. Listed' = Listed
    <2>1. ~AddPush(t) /\ ~GetCas(t)
        BY <1>2 DEF AddPush, GetCas
    <2> QED
        BY <1>1, <2>1, ListStep
<1>6. /\ freeListRefs[k] \in Nat /\ ShouldBeOnFreeList \in Nat
      /\ Taken(k) + 1 < ShouldBeOnFreeList
    BY <1>1, TakenType DEF TypeOK
<1>7. /\ Loose(k) => freeListRefs[k] = Taken(k)
      /\ Counted(k) => freeListRefs[k] = Taken(k) + 1
      /\ ~Loose(k) /\ ~Counted(k) =>
            freeListRefs[k] = Taken(k) + ShouldBeOnFreeList
    BY <1>1 DEF NodeInv
<1>8. CASE freeListRefs[k] = ShouldBeOnFreeList + 1
    <2>1. ~Loose(k) /\ ~Counted(k)
        BY <1>6, <1>7, <1>8
    <2>2. \A u \in Threads : ~Has(u, k)
        BY <1>1, <1>4, <2>1 DEF NodeInv, Has, Loose, Counted
    <2>3. k \notin fresh' /\ k \notin Listed'
        BY <1>2, <1>5, <2>1 DEF Loose, Counted
    <2>4. \A u \in Threads \ {t} : ~Has(u, k)'
        BY <1>1, <2>2, LocalParts
    <2>5. Taken(k)' = 0 /\ freeListRefs'[k] = Taken(k)' + ShouldBeOnFreeList
        BY <1>2, <1>4, <1>6, <1>7, <1>8, <2>1
    <2>6. Adds(t, k)' /\ ~Keeps(t, k)' /\ ~Links(t, k)'
        BY <1>2, <1>8, <2>2 DEF Has, Adds, Keeps, Links
    <2> QED
        BY <2>3, <2>4, <2>5, <2>6, NodeOfOne
<1>9. CASE freeListRefs[k] # ShouldBeOnFreeList + 1
    <2>1. InPlace(t, k)
        BY <1>2, <1>5, <1>9 DEF InPlace, Keeps, Adds, Links
    <2>2. ~Loose(k) /\ ~Counted(k) => Taken(k) # 0 /\ Taken(k)' # 0
        BY <1>4, <1>6, <1>7, <1>9
    <2>3. freeListRefs'[k] \in Nat
          /\ freeListRefs'[k] - Taken(k)' = freeListRefs[k] - Taken(k)
        BY <1>2, <1>4, <1>6, <1>7
    <2> QED
        BY <1>1, <1>6, <2>1, <2>2, <2>3, InPlaceParts, NodeReferred
<1> QED
    BY <1>8, <1>9

LEMMA NodeStep ==
    ASSUME ListInv, NEW t \in Threads, Act(t), NEW n \in Nodes
    PROVE  NodeInv(n)'
<1>1. ASSUME NEW m \in Nodes, Work(t, m)
      PROVE  NodeInv(n)'
    <2>1. CASE n # m
        BY <1>1, <2>1, NodeStepOther
    <2>2. CASE n = m
        <3>1. CASE Allocate(t, n)
            BY <3>1, NodeStepAllocate
        <3>2. CASE node[t] = n /\ (AddFlag(t) \/ AddCount(t) \/ AddUndo(t))
            BY <3>2, NodeStepAdd
        <3>3. CASE node[t] = n /\ GetUnref(t)
            BY <3>3, NodeStepUnref
        <3>4. CASE node[t] = n /\ AddPush(t) /\ freeListHead = seen[t]
            BY <3>4, NodeStepPush
        <3>5. CASE head[t] = n /\ GetRef(t) /\ freeListRefs[n] = refs[t]
            BY <3>5, NodeStepRef
        <3>6. CASE head[t] = n /\ GetCas(t) /\ freeListHead = n
            BY <3>6, NodeStepCas
        <3>7. CASE head[t] = n /\ GetGot(t)
            BY <3>7, NodeStepGot
        <3> QED
            BY <1>1, <2>2, <3>1, <3>2, <3>3, <3>4, <3>5, <3>6, <3>7 DEF Work
    <2> QED
        BY <2>1, <2>2
<1>2. /\ AddFlag(t) \/ AddCount(t) \/ AddUndo(t) \/ GetUnref(t) \/ AddPush(t)
            => node[t] \in Nodes
      /\ GetRef(t) \/ GetCas(t) \/ GetGot(t) => head[t] \in Nodes
    BY TypeFacts DEF AddFlag, AddCount, AddUndo, GetUnref, AddPush, GetRef,
        GetCas, GetGot, AddPc, GetPc, ListInv
<1>3. CASE AddFlag(t) \/ AddCount(t) \/ AddUndo(t) \/ GetUnref(t)
    BY <1>1, <1>2, <1>3 DEF Work
<1>4. CASE AddPush(t)
    BY <1>1, <1>2, <1>4, NodeStepPure DEF Work
<1>5. CASE GetRef(t)
    BY <1>1, <1>2, <1>5, NodeStepPure DEF Work
<1>6. CASE GetCas(t)
    BY <1>1, <1>2, <1>6, NodeStepPure DEF Work
<1>7. CASE GetGot(t)
    BY <1>1, <1>2, <1>7 DEF Work
<1>8. CASE \E m \in Nodes : Allocate(t, m)
    BY <1>1, <1>8 DEF Work
<1>9. CASE \/ \E m \in Nodes : AddCall(t, m)
           \/ AddFirst(t) \/ AddLink(t)
           \/ GetCall(t) \/ GetLoad(t) \/ GetRefs(t) \/ GetNext(t)
    BY <1>9, NodeStepPure
<1> QED
    BY <1>3, <1>4, <1>5, <1>6, <1>7, <1>8, <1>9 DEF Act, Step

LEMMA ListInvInit == Init => ListInv
<1> SUFFICES ASSUME Init PROVE ListInv
    OBVIOUS
<1>1. TypeOK
    BY DEF Init, TypeOK, Pc, GetPc, AddPc
<1>2. StackInv /\ Listed = {}
    <2> DEFINE q == [i \in 1 .. 0 |-> Null]
    <2>1. q \in [1 .. 0 -> Nodes] /\ Chain(freeListHead, freeListNext, 0, q)
        BY DEF Init, Chain
    <2> HIDE DEF q
    <2>2. StackInv
        BY <2>1 DEF StackInv
    <2>3. Listed = Elements(0, q)
        BY <2>1, ChainIsReached, ListedIsReached
    <2>4. Elements(0, q) = {}
        BY DEF Elements
    <2> QED
        BY <2>2, <2>3, <2>4
<1>3. ASSUME NEW n \in Nodes PROVE NodeInv(n)
    <2>1. \A t \in Threads : ~Refers(t, n) /\ ~Has(t, n)
        BY DEF Init, Refers, Has, Keeps, Adds, Links
    <2>2. Taken(n) = 0
        BY <2>1, TakenType
    <2>3. n \in fresh /\ n \notin Listed /\ freeListRefs[n] = 0
        BY <1>2 DEF Init
    <2>4. Loose(n) /\ ~Counted(n) /\ ~\E t \in Threads : Adds(t, n)
        BY <2>1, <2>3 DEF Loose, Counted, Has
    <2> QED
        BY <2>1, <2>2, <2>3, <2>4 DEF NodeInv
<1>4. \A t \in Threads : ThreadInv(t)
    BY DEF Init, ThreadInv, AddPc
<1> QED
    BY <1>1, <1>2, <1>3, <1>4 DEF ListInv

LEMMA ListInvNext == ListInv /\ [Next]_vars => ListInv'
<1> SUFFICES ASSUME ListInv, [Next]_vars PROVE ListInv'
    OBVIOUS
<1>1. CASE Next
    <2>1. PICK t \in Threads : Act(t)
        BY <1>1 DEF Next, Act
    <2>2. \A n \in Nodes : NodeInv(n)'
        BY <2>1, NodeStep
    <2>3. \A u \in Threads : ThreadInv(u)'
        BY <2>1, OwnThread, OtherThreads
    <2>4. StackInv' /\ TypeOK'
        BY <2>1, ListStep, TypeStep
    <2> QED
        BY <2>2, <2>3, <2>4 DEF ListInv
<1>2. CASE UNCHANGED vars
    <2>1. Listed' = Listed /\ StackInv'
        BY <1>2, ListKept DEF vars, shared, ListInv
    <2>2. TypeOK'
        BY <1>2 DEF vars, shared, getLocals, addLocals, ListInv, TypeOK
    <2>3. ASSUME NEW t \in Threads
          PROVE  ThreadInv(t)' /\ Local(t)
        BY <1>2 DEF vars, shared, getLocals, addLocals, ListInv, ThreadInv,
            Local
    <2>4. ASSUME NEW n \in Nodes PROVE NodeInv(n)'
        <3>1. /\ SameParts(n) /\ freeListRefs'[n] = freeListRefs[n]
              /\ \A t \in Threads : Refers(t, n)' <=> Refers(t, n)
            BY <1>2, <2>1 DEF vars, shared, getLocals, addLocals, SameParts,
                Keeps, Adds, Links, Refers
        <3> QED
            BY <3>1, NodeKept DEF ListInv
    <2> QED
        BY <2>1, <2>2, <2>3, <2>4 DEF ListInv
<1> QED
    BY <1>1, <1>2

-----------------------------------------------------------------------------
(* What the invariant says of a run *)

LEMMA InvIsSound == ListInv => ListIsSound
<1> SUFFICES ASSUME ListInv PROVE ListIsSound
    OBVIOUS
<1>1. ASSUME NEW t \in Threads, NEW n \in Held(t)
      PROVE  n \in Nodes /\ Has(t, n)
    <2>1. n \in owned[t] \/ (pc[t] = "got" /\ n = head[t])
        BY <1>1 DEF Held
    <2>2. n \in Nodes
        BY <2>1, TypeFacts DEF ListInv, TypeOK, GetPc
    <2> QED
        BY <2>1, <2>2 DEF Has, Keeps, Links
<1>2. HeldOnce
    BY <1>1 DEF HeldOnce, ListInv, NodeInv
<1>3. ListEnds
    <2>1. PICK k \in Nat : \E q \in [1 .. k -> Nodes] :
                Chain(freeListHead, freeListNext, k, q)
        BY DEF ListInv, StackInv
    <2>2. PICK q \in [1 .. k -> Nodes] :
                Chain(freeListHead, freeListNext, k, q)
        BY <2>1
    <2>3. Listed = Elements(k, q)
        BY <2>1, <2>2, ChainIsReached, ListedIsReached
    <2>4. ASSUME freeListHead # Null
          PROVE  q[1] \in Listed /\ freeListNext[q[1]] = Null
        <3>1. k # 0 /\ 1 \in 1 .. k
            BY <2>1, <2>2, <2>4 DEF Chain
        <3> QED
            BY <2>2, <2>3, <3>1 DEF Chain, Elements
    <2> QED
        BY <2>4 DEF ListEnds
<1>4. GotIsNotFlagged
    <2>1. ASSUME NEW t \in Threads, pc[t] = "got"
          PROVE  freeListRefs[head[t]] < ShouldBeOnFreeList
        <3>1. head[t] \in Nodes /\ Links(t, head[t])
            BY <2>1, TypeFacts DEF Links, GetPc, ListInv
        <3>2. freeListRefs[head[t]] = Taken(head[t]) + 1
            BY <3>1, SoleHolder DEF Has, ListInv
        <3> QED
            BY <3>2, TakenType
    <2> QED
        BY <2>1 DEF GotIsNotFlagged
<1>5. OneAdder
    <2>1. ASSUME NEW t \in Threads, pc[t] \in {"first", "link", "count"}
          PROVE  node[t] \in Nodes /\ Adds(t, node[t])
        BY <2>1, TypeFacts DEF Adds, AddPc, ListInv
    <2> QED
        BY <2>1 DEF OneAdder, ListInv, NodeInv, Has, Adds
<1> QED
    BY <1>2, <1>3, <1>4, <1>5 DEF ListIsSound, ListInv

LEMMA InvLosesNone == ListInv => NoneLostAtRest
<1> SUFFICES ASSUME ListInv, \A t \in Threads : pc[t] = "idle"
             PROVE  /\ Nodes = fresh \union Listed
                                 \union UNION {owned[t] : t \in Threads}
                    /\ \A n \in Nodes :
                            freeListRefs[n] = IF n \in Listed THEN 1 ELSE 0
    BY DEF NoneLostAtRest
<1>1. ASSUME NEW n \in Nodes
      PROVE  /\ n \in fresh \/ n \in Listed
                \/ \E t \in Threads : n \in owned[t]
             /\ freeListRefs[n] = IF n \in Listed THEN 1 ELSE 0
    <2>1. \A t \in Threads : ~Refers(t, n) /\ ~Adds(t, n) /\ ~Links(t, n)
        BY DEF Refers, Adds, Links
    <2>2. Taken(n) = 0
        BY <2>1, TakenType
    <2>3. NodeInv(n) /\ (Loose(n) \/ Counted(n))
        BY <1>1, <2>1, <2>2 DEF ListInv, NodeInv
    <2>4. Counted(n) <=> n \in Listed
        BY <2>1 DEF Counted
    <2>5. Loose(n) <=> n \in fresh \/ \E t \in Threads : n \in owned[t]
        BY DEF Loose, Keeps
    <2>6. n \in Listed => freeListRefs[n] = 1
        BY <2>2, <2>3, <2>4 DEF NodeInv
    <2>7. n \notin Listed => freeListRefs[n] = 0
        BY <2>2, <2>3, <2>4 DEF NodeInv
    <2> QED
        BY <2>3, <2>4, <2>5, <2>6, <2>7
<1>2. fresh \subseteq Nodes /\ Listed \subseteq Nodes
      /\ \A t \in Threads : owned[t] \subseteq Nodes
    BY DEF ListInv, TypeOK, Listed
<1> QED
    BY <1>1, <1>2

(* For any number of threads and of blocks: add and try_get hand a block to
   one thread at a time, whatever the interleaving of their atomic operations,
   the list never runs in a circle, and try_get's assertion that a block it
   takes off is not flagged cannot fail. *)
THEOREM ListStaysSound == Spec => []ListIsSound
<1>1. Spec => []ListInv
    BY ListInvInit, ListInvNext, PTL DEF Spec
<1> QED
    BY <1>1, InvIsSound, PTL

(* For any number of threads and of blocks: when all calls have returned,
   every block is with its owner, on the list or never used, and no count is
   left over. *)
THEOREM NoNodeIsLost == Spec => []NoneLostAtRest
<1>1. Spec => []ListInv
    BY ListInvInit, ListInvNext, PTL DEF Spec
<1> QED
    BY <1>1, InvLosesNone, PTL

-----------------------------------------------------------------------------
(* The semaphore and the hash of producers *)

(* The instances have their own names for the cardinality of a set. *)
LEMMA SameCardinality ==
  \A S : /\ Sem!Cardinality(S) = Cardinality(S)
         /\ Hash!Cardinality(S) = Cardinality(S)
BY DEF Sem!Cardinality, Hash!Cardinality, Cardinality

-----------------------------------------------------------------------------
(* Types *)

LEMMA SemTypeStep == Sem!TypeOK /\ [Sem!Next]_(Sem!vars) => Sem!TypeOK'
<1>. USE WaitersAssumption, CountAssumption
     DEF Sem!TypeOK, Sem!Users, Sem!Pc, Sem!Goto, Sem!Minimum
<1>. SUFFICES ASSUME Sem!TypeOK, [Sem!Next]_(Sem!vars) PROVE Sem!TypeOK'
  OBVIOUS
<1>1. ASSUME NEW w \in Waiters, NEW n \in 1 .. MaxCount,
             NEW how \in {"try", "timed", "forever"}, Sem!Call(w, n, how)
      PROVE  Sem!TypeOK'
  BY <1>1 DEF Sem!Call
<1>2. ASSUME NEW w \in Waiters, NEW from \in {"try", "spin"}, Sem!TakeSome(w,
             from)
      PROVE  Sem!TypeOK'
  BY <1>2 DEF Sem!TakeSome, Sem!Take
<1>3. ASSUME NEW w \in Waiters, Sem!TryFails(w) PROVE Sem!TypeOK'
  BY <1>3 DEF Sem!TryFails
<1>4. ASSUME NEW w \in Waiters, Sem!StopSpinning(w) PROVE Sem!TypeOK'
  BY <1>4 DEF Sem!StopSpinning
<1>5. ASSUME NEW w \in Waiters, NEW from \in {"kernel", "retry"},
             Sem!TakeKernelPermit(w, from)
      PROVE  Sem!TypeOK'
  BY <1>5 DEF Sem!TakeKernelPermit
<1>6. ASSUME NEW w \in Waiters,
             \/ Sem!TimeOut(w) \/ Sem!Leave(w) \/ Sem!SeeSignalled(w)
                   \/ Sem!RetryFails(w)
      PROVE  Sem!TypeOK'
  BY <1>6 DEF Sem!TimeOut, Sem!Leave, Sem!SeeSignalled, Sem!RetryFails
<1>7. ASSUME NEW w \in Waiters, Sem!More(w) PROVE Sem!TypeOK'
  BY <1>7 DEF Sem!More, Sem!Take
<1>8. ASSUME NEW s \in Signallers, NEW n \in 1 .. MaxCount, Sem!Signal(s, n)
      PROVE  Sem!TypeOK'
  BY <1>8 DEF Sem!Signal
<1>9. ASSUME NEW s \in Signallers, Sem!Release(s) PROVE Sem!TypeOK'
  BY <1>9 DEF Sem!Release
<1>10. CASE UNCHANGED Sem!vars
  BY <1>10 DEF Sem!vars
<1>. QED
  BY <1>1, <1>2, <1>3, <1>4, <1>5, <1>6, <1>7, <1>8, <1>9, <1>10
  DEF Sem!Next, Sem!Wait, Sem!TryWaitMany, Sem!Spin, Sem!WakeUp, Sem!RetryTakes

-----------------------------------------------------------------------------
(* How the sets that the invariants count change *)

LEMMA WaitingIsFinite ==
  /\ IsFiniteSet(Sem!Waiting) /\ Cardinality(Sem!Waiting) \in Nat
  /\ Sem!Waiting # {} => Cardinality(Sem!Waiting) > 0
<1>1. IsFiniteSet(Sem!Waiting)
  BY WaitersAssumption, FS_Subset, Sem!Waiting \subseteq Waiters DEF Sem!Waiting
<1>. QED
  BY <1>1, FS_CardinalityType, FS_EmptySet

LEMMA OwedIsFinite ==
  /\ IsFiniteSet(Sem!Owed) /\ Cardinality(Sem!Owed) \in Nat
  /\ Sem!Owed = {} => Cardinality(Sem!Owed) = 0
<1>1. IsFiniteSet(1 .. MaxCount)
  BY CountAssumption, FS_Interval
<1>2. IsFiniteSet(Signallers \X (1 .. MaxCount))
  BY <1>1, WaitersAssumption, FS_Product
<1>3. IsFiniteSet(Sem!Owed)
  BY <1>2, FS_Subset, Sem!Owed \subseteq Signallers \X (1 .. MaxCount)
  DEF Sem!Owed
<1>. QED
  BY <1>3, FS_CardinalityType, FS_EmptySet

(* What one signaller owes. *)
LEMMA OneOwes ==
  ASSUME NEW s, NEW k \in Nat
  PROVE  /\ IsFiniteSet({s} \X (1 .. k))
         /\ Cardinality({s} \X (1 .. k)) = k
<1>1. IsFiniteSet({s}) /\ Cardinality({s}) = 1
  BY FS_Singleton
<1>2. IsFiniteSet(1 .. k) /\ Cardinality(1 .. k) = k
  BY FS_Interval
<1>3. IsFiniteSet({s} \X (1 .. k))
  BY <1>1, <1>2, FS_Product
<1>4. Cardinality({s} \X (1 .. k)) = Cardinality({s}) * Cardinality(1 .. k)
  BY <1>1, <1>2, FS_Product
<1>. QED
  BY <1>1, <1>2, <1>3, <1>4

(* A waiter that starts to count as waiting, one that stops, and one that
   goes on: only its place decides. *)
LEMMA WaitingMoves ==
  ASSUME Sem!TypeOK, NEW w \in Waiters, NEW to \in Sem!Pc, Sem!Goto(w, to)
  PROVE  LET asleep(p) == p \in {"kernel", "timedout", "retry"}
         IN  Cardinality(Sem!Waiting)' = Cardinality(Sem!Waiting)
                 + (IF asleep(to) THEN 1 ELSE 0)
                 - (IF asleep(semPc[w]) THEN 1 ELSE 0)
<1>. USE DEF Sem!TypeOK, Sem!Users, Sem!Goto, Sem!Waiting
<1>1. IsFiniteSet(Sem!Waiting) /\ Cardinality(Sem!Waiting) \in Nat
  BY WaitingIsFinite
<1>2. Sem!Waiting' = IF to \in {"kernel", "timedout", "retry"}
                 THEN Sem!Waiting \union {w} ELSE Sem!Waiting \ {w}
  BY DEF Sem!Pc
<1>3. w \in Sem!Waiting <=> semPc[w] \in {"kernel", "timedout", "retry"}
  OBVIOUS
<1>4. /\ Cardinality(Sem!Waiting \union {w})
            = IF w \in Sem!Waiting THEN Cardinality(Sem!Waiting)
              ELSE Cardinality(Sem!Waiting) + 1
      /\ Cardinality(Sem!Waiting \ {w})
            = IF w \in Sem!Waiting THEN Cardinality(Sem!Waiting) - 1
              ELSE Cardinality(Sem!Waiting)
  BY <1>1, FS_AddElement, FS_RemoveElement
<1>. HIDE DEF Sem!Waiting
<1>5. Cardinality(Sem!Waiting)' = Cardinality(Sem!Waiting')
  OBVIOUS
<1>. QED
  BY <1>1, <1>2, <1>3, <1>4, <1>5

(* A step of a signaller moves no waiter. *)
LEMMA WaitingStays ==
  ASSUME Sem!TypeOK, NEW s \in Signallers, NEW to, Sem!Goto(s, to)
  PROVE  Cardinality(Sem!Waiting)' = Cardinality(Sem!Waiting)
<1>1. Sem!Waiting' = Sem!Waiting
  BY WaitersAssumption DEF Sem!Waiting, Sem!Goto, Sem!TypeOK, Sem!Users
<1>. QED
  BY <1>1

(* A signaller that owed nothing comes to owe k. *)
Owing(f) == {p \in Signallers \X (1 .. MaxCount) : p[2] <= f[p[1]]}

LEMMA OwingIsFinite ==
  ASSUME NEW f
  PROVE  IsFiniteSet(Owing(f)) /\ Cardinality(Owing(f)) \in Nat
<1>1. IsFiniteSet(1 .. MaxCount)
  BY CountAssumption, FS_Interval
<1>2. IsFiniteSet(Signallers \X (1 .. MaxCount))
  BY <1>1, WaitersAssumption, FS_Product
<1>3. Owing(f) \subseteq Signallers \X (1 .. MaxCount)
  BY DEF Owing
<1>. QED
  BY <1>2, <1>3, FS_Subset, FS_CardinalityType

LEMMA OwingMore ==
  ASSUME NEW f \in [Signallers -> 0 .. MaxCount], NEW s \in Signallers,
         f[s] = 0, NEW k \in 0 .. MaxCount
  PROVE  Cardinality(Owing([f EXCEPT ![s] = k])) = Cardinality(Owing(f)) + k
<1>. DEFINE own == {s} \X (1 .. k)
<1>1. IsFiniteSet(Owing(f)) /\ Cardinality(Owing(f)) \in Nat
  BY OwingIsFinite
<1>2. IsFiniteSet(own) /\ Cardinality(own) = k
  BY OneOwes
<1>3. Owing([f EXCEPT ![s] = k]) = Owing(f) \union own
  BY CountAssumption DEF Owing
<1>4. Owing(f) \intersect own = {}
  BY CountAssumption DEF Owing
<1>. HIDE DEF own
<1>5. Cardinality(Owing(f) \intersect own) = 0
  BY <1>4, FS_EmptySet
<1>6. Cardinality(Owing(f) \union own)
        = Cardinality(Owing(f)) + Cardinality(own)
          - Cardinality(Owing(f) \intersect own)
  BY <1>1, <1>2, FS_Union
<1>7. Cardinality(Owing(f) \union own) = Cardinality(Owing(f)) + k
  BY <1>1, <1>2, <1>5, <1>6
<1>. QED
  BY <1>3, <1>7

LEMMA OwedGrows ==
  ASSUME Sem!TypeOK, NEW s \in Signallers, toRelease[s] = 0,
         NEW k \in 0 .. MaxCount, toRelease' = [toRelease EXCEPT ![s] = k]
  PROVE  Cardinality(Sem!Owed)' = Cardinality(Sem!Owed) + k
<1>1. Sem!Owed = Owing(toRelease) /\ Sem!Owed' = Owing(toRelease')
  BY DEF Sem!Owed, Owing
<1>2. Cardinality(Sem!Owed)' = Cardinality(Sem!Owed')
  OBVIOUS
<1>. QED
  BY <1>1, <1>2, OwingMore DEF Sem!TypeOK

LEMMA OwedShrinks ==
  ASSUME Sem!TypeOK, NEW s \in Signallers,
         toRelease' = [toRelease EXCEPT ![s] = 0]
  PROVE  Cardinality(Sem!Owed)' = Cardinality(Sem!Owed) - toRelease[s]
<1>1. Sem!Owed = Owing(toRelease) /\ Sem!Owed' = Owing(toRelease')
  BY DEF Sem!Owed, Owing
<1>2. Cardinality(Sem!Owed)' = Cardinality(Sem!Owed')
  OBVIOUS
<1>. DEFINE new == [toRelease EXCEPT ![s] = 0]
            k == toRelease[s]
<1>3. /\ new \in [Signallers -> 0 .. MaxCount] /\ new[s] = 0
      /\ k \in 0 .. MaxCount
  BY CountAssumption DEF Sem!TypeOK
<1>4. [new EXCEPT ![s] = k] = toRelease
  BY DEF Sem!TypeOK
<1>. HIDE DEF new, k
<1>5. Cardinality(Owing([new EXCEPT ![s] = k])) = Cardinality(Owing(new)) + k
  BY <1>3, OwingMore
<1>6. Cardinality(Owing(new)) \in Nat
  BY OwingIsFinite
<1>7. Cardinality(Owing(toRelease)) = Cardinality(Owing(new)) + k
  BY <1>4, <1>5
<1>8. Cardinality(Owing(new)) = Cardinality(Owing(toRelease)) - k
  BY <1>3, <1>6, <1>7
<1>9. toRelease' = new /\ k = toRelease[s]
  BY DEF new, k
<1>. QED
  BY <1>1, <1>2, <1>8, <1>9

-----------------------------------------------------------------------------
(* The counts *)

(* Every step preserves the two equations: it moves as many permits, sleepers
   and permits owed from one side to the other as it adds there. *)
LEMMA CountStep ==
  Sem!CountsMatch /\ [Sem!Next]_(Sem!vars)
      => (Sem!PermitsAreCounted /\ Sem!KernelMatchesSleepers)'
<1>. DEFINE W == Cardinality(Sem!Waiting)
            O == Cardinality(Sem!Owed)
<1>. SUFFICES ASSUME Sem!CountsMatch, [Sem!Next]_(Sem!vars)
     PROVE  /\ m_count' + acquired' + W' = signalled'
            /\ W' = m_sema' + O' + (IF m_count' < 0 THEN -m_count' ELSE 0)
  BY SameCardinality DEF Sem!PermitsAreCounted, Sem!KernelMatchesSleepers
<1>. DEFINE Goal == /\ m_count' + acquired' + W' = signalled'
                    /\ W' = m_sema' + O'
                             + (IF m_count' < 0 THEN -m_count' ELSE 0)
<1>1. Sem!TypeOK
  BY DEF Sem!CountsMatch
<1>2. /\ m_count + acquired + W = signalled
      /\ W = m_sema + O + (IF m_count < 0 THEN -m_count ELSE 0)
  BY SameCardinality
  DEF Sem!CountsMatch, Sem!PermitsAreCounted, Sem!KernelMatchesSleepers
<1>3. W \in Nat /\ O \in Nat
  BY WaitingIsFinite, OwedIsFinite
<1>4. /\ m_count \in Int /\ m_sema \in Nat /\ signalled \in Nat
      /\ acquired \in Nat /\ MaxCount \in Nat
  BY <1>1, CountAssumption DEF Sem!TypeOK
<1>5. ASSUME UNCHANGED toRelease PROVE O' = O
  BY <1>5 DEF Sem!Owed
<1>6. ASSUME UNCHANGED semPc PROVE W' = W
  BY <1>6 DEF Sem!Waiting
<1>7. ASSUME NEW w \in Waiters, NEW n \in 1 .. MaxCount,
             NEW how \in {"try", "timed", "forever"}, Sem!Call(w, n, how)
      PROVE  Goal
  <2>1. W' = W
    BY <1>1, <1>3, <1>7, WaitingMoves DEF Sem!Call, Sem!Pc
  <2>. QED
    BY <1>2, <1>5, <1>7, <2>1 DEF Sem!Call
<1>8. ASSUME NEW w \in Waiters, NEW from \in {"try", "spin"}, Sem!TakeSome(w,
             from)
      PROVE  Goal
  <2>1. W' = W
    BY <1>1, <1>3, <1>8, WaitingMoves DEF Sem!TakeSome, Sem!Pc
  <2>2. max[w] \in 0 .. MaxCount
    BY <1>1 DEF Sem!TypeOK
  <2>. QED
    BY <1>2, <1>3, <1>4, <1>5, <1>8, <2>1, <2>2
    DEF Sem!TakeSome, Sem!Take, Sem!Minimum
<1>9. ASSUME NEW w \in Waiters, Sem!TryFails(w) PROVE Goal
  <2>1. W' = W
    BY <1>1, <1>3, <1>9, WaitingMoves DEF Sem!TryFails, Sem!Pc
  <2>. QED
    BY <1>2, <1>5, <1>9, <2>1 DEF Sem!TryFails
<1>10. ASSUME NEW w \in Waiters, Sem!StopSpinning(w) PROVE Goal
  <2>1. m_count > 0 => W' = W
    BY <1>1, <1>3, <1>10, WaitingMoves DEF Sem!StopSpinning, Sem!Pc
  <2>2. ~(m_count > 0) => W' = W + 1
    BY <1>1, <1>3, <1>10, WaitingMoves DEF Sem!StopSpinning, Sem!Pc
  <2>. QED
    BY <1>2, <1>3, <1>4, <1>5, <1>10, <2>1, <2>2 DEF Sem!StopSpinning
<1>11. ASSUME NEW w \in Waiters, NEW from \in {"kernel", "retry"},
              Sem!TakeKernelPermit(w, from)
       PROVE  Goal
  <2>1. W' = W - 1
    BY <1>1, <1>3, <1>11, WaitingMoves DEF Sem!TakeKernelPermit, Sem!Pc
  <2>. QED
    BY <1>2, <1>3, <1>4, <1>5, <1>11, <2>1 DEF Sem!TakeKernelPermit
<1>12. ASSUME NEW w \in Waiters,
              Sem!TimeOut(w) \/ Sem!SeeSignalled(w) \/ Sem!RetryFails(w)
       PROVE  Goal
  <2>1. W' = W
    BY <1>1, <1>3, <1>12, WaitingMoves
    DEF Sem!TimeOut, Sem!SeeSignalled, Sem!RetryFails, Sem!Pc
  <2>. QED
    BY <1>2, <1>5, <1>12, <2>1 DEF Sem!TimeOut, Sem!SeeSignalled, Sem!RetryFails
<1>13. ASSUME NEW w \in Waiters, Sem!Leave(w) PROVE Goal
  <2>1. W' = W - 1
    BY <1>1, <1>3, <1>13, WaitingMoves DEF Sem!Leave, Sem!Pc
  <2>. QED
    BY <1>2, <1>3, <1>4, <1>5, <1>13, <2>1 DEF Sem!Leave
<1>14. ASSUME NEW w \in Waiters, Sem!More(w) PROVE Goal
  <2>1. W' = W
    BY <1>1, <1>3, <1>14, WaitingMoves DEF Sem!More, Sem!Pc
  <2>2. max[w] \in 1 .. MaxCount
    BY <1>1, <1>14 DEF Sem!TypeOK, Sem!More
  <2>. QED
    BY <1>2, <1>3, <1>4, <1>5, <1>14, <2>1, <2>2
    DEF Sem!More, Sem!Take, Sem!Minimum
<1>15. ASSUME NEW s \in Signallers, NEW n \in 1 .. MaxCount, Sem!Signal(s, n)
       PROVE  Goal
  <2>1. CASE m_count < 0
    <3>1. Sem!Minimum(-m_count, n) \in 0 .. MaxCount
      BY <1>4, <2>1 DEF Sem!Minimum
    <3>2. toRelease[s] = 0
      BY <1>1, <1>15 DEF Sem!Signal, Sem!TypeOK
    <3>3. O' = O + Sem!Minimum(-m_count, n)
      BY <1>1, <1>15, <2>1, <3>1, <3>2, OwedGrows DEF Sem!Signal
    <3>4. W' = W
      BY <1>1, <1>15, <2>1, WaitingStays DEF Sem!Signal
    <3>. QED
      BY <1>2, <1>3, <1>4, <1>15, <2>1, <3>3, <3>4 DEF Sem!Signal, Sem!Minimum
  <2>2. CASE ~(m_count < 0)
    BY <1>2, <1>3, <1>4, <1>5, <1>6, <1>15, <2>2 DEF Sem!Signal
  <2>. QED
    BY <2>1, <2>2
<1>16. ASSUME NEW s \in Signallers, Sem!Release(s) PROVE Goal
  <2>1. O' = O - toRelease[s]
    BY <1>1, <1>16, OwedShrinks DEF Sem!Release
  <2>2. W' = W
    BY <1>1, <1>16, WaitingStays DEF Sem!Release
  <2>3. toRelease[s] \in Nat
    BY <1>1, CountAssumption DEF Sem!TypeOK
  <2>. QED
    BY <1>2, <1>3, <1>4, <1>16, <2>1, <2>2, <2>3 DEF Sem!Release
<1>17. CASE UNCHANGED Sem!vars
  BY <1>2, <1>5, <1>6, <1>17 DEF Sem!vars
<1>. QED
  BY <1>7, <1>8, <1>9, <1>10, <1>11, <1>12, <1>13, <1>14, <1>15, <1>16, <1>17
  DEF Sem!Next, Sem!Wait, Sem!TryWaitMany, Sem!Spin, Sem!WakeUp, Sem!RetryTakes

LEMMA CountInit == Sem!Init => Sem!CountsMatch
<1>. SUFFICES ASSUME Sem!Init PROVE Sem!CountsMatch
  OBVIOUS
<1>1. Sem!TypeOK
  BY WaitersAssumption, CountAssumption
  DEF Sem!Init, Sem!TypeOK, Sem!Users, Sem!Pc
<1>2. Sem!Waiting = {} /\ Sem!Owed = {}
  BY WaitersAssumption DEF Sem!Init, Sem!Waiting, Sem!Owed, Sem!Users
<1>3. Cardinality(Sem!Waiting) = 0 /\ Cardinality(Sem!Owed) = 0
  BY <1>2, FS_EmptySet
<1>. QED
  BY <1>1, <1>3, SameCardinality
  DEF Sem!Init, Sem!CountsMatch, Sem!PermitsAreCounted,
      Sem!KernelMatchesSleepers

(* No permit is lost or made and none is left behind in the kernel, however
   many threads wait, time out and signal. *)
THEOREM CountsAlwaysMatch == Sem!Spec => []CountsMatch
<1>1. Sem!CountsMatch /\ [Sem!Next]_(Sem!vars) => Sem!CountsMatch'
  BY SemTypeStep, CountStep DEF Sem!CountsMatch
<1>. QED
  BY CountInit, <1>1, PTL DEF Sem!Spec, CountsMatch

(* A thread sleeps with nothing to wake it only when every permit is taken. *)
THEOREM SleepersAreWoken == Sem!Spec => []NoLostWakeup
<1>1. Sem!CountsMatch => Sem!NoLostWakeup
  <2>. SUFFICES ASSUME Sem!CountsMatch, NEW w \in Waiters, semPc[w] = "kernel",
                       m_sema = 0, Sem!Owed = {}
       PROVE  acquired = signalled
    BY DEF Sem!NoLostWakeup
  <2>. DEFINE W == Cardinality(Sem!Waiting)
  <2>1. W \in Nat /\ W > 0
    BY WaitingIsFinite DEF Sem!Waiting
  <2>2. W = IF m_count < 0 THEN -m_count ELSE 0
    BY OwedIsFinite, SameCardinality
    DEF Sem!CountsMatch, Sem!TypeOK, Sem!KernelMatchesSleepers
  <2>3. m_count + acquired + W = signalled
    BY SameCardinality DEF Sem!CountsMatch, Sem!PermitsAreCounted
  <2>. QED
    BY <2>1, <2>2, <2>3 DEF Sem!CountsMatch, Sem!TypeOK
<1>. QED
  BY CountsAlwaysMatch, <1>1, PTL DEF CountsMatch, NoLostWakeup

-----------------------------------------------------------------------------
(* Refinement *)

(* What a step takes was signalled: a permit of the count is not yet taken,
   and neither is one of the kernel. *)
LEMMA TakenIsSignalled ==
  ASSUME Sem!CountsMatch
  PROVE  /\ acquired + m_count <= signalled
         /\ m_sema > 0 => acquired + 1 <= signalled
<1>1. Cardinality(Sem!Waiting) \in Nat /\ Cardinality(Sem!Owed) \in Nat
  BY WaitingIsFinite, OwedIsFinite
<1>. QED
  BY <1>1, SameCardinality
  DEF Sem!CountsMatch, Sem!TypeOK, Sem!PermitsAreCounted,
      Sem!KernelMatchesSleepers

LEMMA AbstractStep ==
  Sem!CountsMatch /\ [Sem!Next]_(Sem!vars) => [Abstract!Next]_(Abstract!vars)
<1>. SUFFICES ASSUME Sem!CountsMatch, [Sem!Next]_(Sem!vars)
     PROVE  \/ \E n \in 1 .. MaxCount :
                  Abstract!Signal(n) \/ Abstract!Acquire(n)
            \/ UNCHANGED <<signalled, acquired>>
  BY DEF Abstract!Next, Abstract!vars
<1>. DEFINE Goal ==
        \/ \E n \in 1 .. MaxCount : Abstract!Signal(n) \/ Abstract!Acquire(n)
        \/ UNCHANGED <<signalled, acquired>>
<1>1. Sem!TypeOK /\ MaxCount \in Nat \ {0} /\ 1 \in 1 .. MaxCount
  BY CountAssumption DEF Sem!CountsMatch
<1>2. ASSUME NEW n \in 1 .. MaxCount, n <= m_count, Sem!Take(n),
             UNCHANGED signalled
      PROVE  Goal
  <2>1. acquired + n <= signalled
    BY <1>1, <1>2, TakenIsSignalled DEF Sem!TypeOK
  <2>. QED
    BY <1>2, <2>1 DEF Sem!Take, Abstract!Acquire
<1>3. ASSUME NEW w \in Waiters, NEW from \in {"try", "spin"}, Sem!TakeSome(w,
             from)
      PROVE  Goal
  <2>1. max[w] \in 1 .. MaxCount
    BY <1>1, <1>3 DEF Sem!TypeOK, Sem!TakeSome
  <2>2. /\ Sem!Minimum(m_count, max[w]) \in 1 .. MaxCount
        /\ Sem!Minimum(m_count, max[w]) <= m_count
    BY <1>1, <1>3, <2>1 DEF Sem!TypeOK, Sem!TakeSome, Sem!Minimum
  <2>. QED
    BY <1>2, <1>3, <2>2 DEF Sem!TakeSome
<1>4. ASSUME NEW w \in Waiters, Sem!StopSpinning(w) PROVE Goal
  <2>1. CASE m_count > 0
    <3>1. acquired + 1 <= signalled
      BY <1>1, <2>1, TakenIsSignalled DEF Sem!TypeOK
    <3>. QED
      BY <1>1, <1>4, <2>1, <3>1 DEF Sem!StopSpinning, Abstract!Acquire
  <2>2. CASE ~(m_count > 0)
    BY <1>4, <2>2 DEF Sem!StopSpinning
  <2>. QED
    BY <2>1, <2>2
<1>5. ASSUME NEW w \in Waiters, NEW from \in {"kernel", "retry"},
             Sem!TakeKernelPermit(w, from)
      PROVE  Goal
  BY <1>1, <1>5, TakenIsSignalled DEF Sem!TakeKernelPermit, Abstract!Acquire
<1>6. ASSUME NEW w \in Waiters, Sem!More(w) PROVE Goal
  <2>1. max[w] \in 1 .. MaxCount
    BY <1>1, <1>6 DEF Sem!TypeOK, Sem!More
  <2>2. CASE m_count > 0 /\ max[w] > 1
    <3>1. /\ Sem!Minimum(m_count, max[w] - 1) \in 1 .. MaxCount
          /\ Sem!Minimum(m_count, max[w] - 1) <= m_count
      BY <1>1, <2>1, <2>2 DEF Sem!TypeOK, Sem!Minimum
    <3>. QED
      BY <1>2, <1>6, <2>2, <3>1 DEF Sem!More
  <2>3. CASE m_count > 0 /\ max[w] = 1
    BY <1>1, <1>6, <2>3 DEF Sem!More, Sem!Take, Sem!Minimum, Sem!TypeOK
  <2>4. CASE ~(m_count > 0)
    BY <1>6, <2>4 DEF Sem!More
  <2>. QED
    BY <2>1, <2>2, <2>3, <2>4
<1>7. ASSUME NEW s \in Signallers, NEW n \in 1 .. MaxCount, Sem!Signal(s, n)
      PROVE  Goal
  BY <1>7 DEF Sem!Signal, Abstract!Signal
<1>8. ASSUME \/ \E w \in Waiters :
                  \/ Sem!TryFails(w) \/ Sem!TimeOut(w) \/ Sem!Leave(w)
                  \/ Sem!SeeSignalled(w) \/ Sem!RetryFails(w)
                  \/ \E n \in 1 .. MaxCount, how
                        \in {"try", "timed", "forever"} :
                        Sem!Call(w, n, how)
             \/ \E s \in Signallers : Sem!Release(s)
             \/ UNCHANGED Sem!vars
      PROVE  UNCHANGED <<signalled, acquired>>
  BY <1>8
  DEF Sem!TryFails, Sem!TimeOut, Sem!Leave, Sem!SeeSignalled, Sem!RetryFails,
      Sem!Call, Sem!Release,
              Sem!vars
<1>. QED
  BY <1>3, <1>4, <1>5, <1>6, <1>7, <1>8
  DEF Sem!Next, Sem!Wait, Sem!TryWaitMany, Sem!Spin, Sem!WakeUp, Sem!RetryTakes

(* The lightweight semaphore implements the counting semaphore: nobody takes a
   permit before it is signalled. *)
THEOREM SemaphoreImplemented == Sem!Spec => ImplementsSemaphore
<1>1. Sem!Init => Abstract!Init
  BY DEF Sem!Init, Abstract!Init
<1>. QED
  BY <1>1, AbstractStep, CountsAlwaysMatch, PTL
  DEF CountsMatch, Sem!Spec, ImplementsSemaphore, Abstract!Spec

-----------------------------------------------------------------------------
(* The hash of producers: what its invariant speaks of *)

HashPc == {"idle", "search", "copy", "count", "test", "resize", "store",
           "clear", "giveUp", "check", "link", "insert"}
Entries == Threads \union {None}
Rows(S) == UNION {[0 .. (c - 1) -> S] : c \in Nat \ {0, 1}}
Tables == 1 .. Len(key)

HashTypes ==
  /\ hashOf \in [Threads -> Nat]
  /\ key \in Seq(Rows(Entries)) /\ value \in Seq(Rows(Entries \X Nat))
  /\ prev \in Seq(Nat) /\ mainTable \in Nat /\ resizing \in BOOLEAN
  /\ hashPc \in [Threads -> HashPc]
  /\ main \in [Threads -> Nat] /\ table \in [Threads -> Nat]
  /\ index \in [Threads -> Nat] /\ newCount \in [Threads -> Nat]
  /\ made \in [Threads -> Entries \X Nat]
  /\ got \in [Threads -> SUBSET (Entries \X Nat)]

(* The slots that a search visits between s and i. *)
Path(c, s, i) ==
  IF s <= i THEN s .. (i - 1) ELSE (s .. (c - 1)) \union (0 .. (i - 1))
Home(t, h) == Hash!At(h, hashOf[t])
Here(t, h) == Hash!At(h, index[t])

Keyed(t, h) == \E i \in DOMAIN key[h] : key[h][i] = t
Anywhere(t) == \E h \in Tables : Keyed(t, h)
Mine(t) == <<t, 1>>
Locking == {"resize", "store", "clear", "giveUp"}

(* The tables: newer ones are not smaller, and the newest is the main one but
   while a caller is about to store it. *)
TablesAre ==
  /\ Len(value) = Len(key) /\ Len(prev) = Len(key)
  /\ \A h \in Tables : DOMAIN value[h] = DOMAIN key[h] /\ prev[h] = h - 1
  /\ \A g, h \in Tables : g <= h => Hash!Capacity(g) <= Hash!Capacity(h)
  /\ mainTable \in Tables

OneResizes ==
  /\ (\A t \in Threads : hashPc[t] # "store") => mainTable = Len(key)
  /\ \A t \in Threads : hashPc[t] = "store" =>
        table[t] = Len(key) /\ Len(key) = mainTable + 1
  /\ \A t, u \in Threads : hashPc[t] \in Locking /\ hashPc[u] \in Locking
        => t = u
  /\ \A t \in Threads : hashPc[t] \in Locking => resizing

(* The keys of a table: a thread is in one slot, which a search for it
   reaches. *)
KeysAre(h) ==
  /\ h > mainTable => \A i \in DOMAIN key[h] : key[h][i] = None
  /\ \A i \in DOMAIN key[h] :
        /\ value[h][i] = IF key[h][i] = None THEN Hash!NoProducer
                         ELSE Mine(key[h][i])
        /\ key[h][i] # None =>
              \A j \in Path(Hash!Capacity(h), Home(key[h][i], h), i) :
                  key[h][j] # None
  /\ \A i, j \in DOMAIN key[h] :
        key[h][i] = key[h][j] /\ key[h][i] # None => i = j

Searched(t) ==
  /\ table[t] \in 1 .. main[t]
  /\ \A h \in Tables : h > table[t] => ~Keyed(t, h)
  /\ \A i \in Path(Hash!Capacity(table[t]), Home(t, table[t]),
                   Here(t, table[t])) :
        key[table[t]][i] \notin {None, t}

Passed(t) ==
  \A i \in Path(Hash!Capacity(main[t]), Home(t, main[t]), Here(t, main[t])) :
      key[main[t]][i] # None

CallIs(t) ==
  /\ hashPc[t] # "idle" => main[t] \in 1 .. mainTable
  /\ hashPc[t] = "search" => Searched(t)
  /\ hashPc[t] = "copy" =>
        /\ \E h \in Tables : h < main[t] /\ Keyed(t, h)
        /\ ~Keyed(t, main[t])
  /\ hashPc[t] \in {"count", "giveUp"} \/ Hash!InsideCount(t) => ~Anywhere(t)
  /\ hashPc[t] \in {"copy", "insert"} => Passed(t)
  /\ made[t] = IF hashPc[t] \in {"copy", "link", "insert"} THEN Mine(t)
               ELSE Hash!NoProducer
  /\ Mine(t) \in Hash!Producers
        <=> hashPc[t] \in {"link", "insert"} \/ Anywhere(t)
  /\ got[t] \subseteq {Mine(t)}
  /\ got[t] # {} => Anywhere(t)

(* The list: a producer is on it from the exchange that links it. *)
OnList == {p \in Hash!Producers : hashPc[p[1]] # "link"}
ListIs ==
  /\ \A p \in Hash!Producers : p[1] \in Threads /\ p = Mine(p[1])
  /\ tail \in OnList \union {Hash!NoProducer}
  /\ \A p \in Hash!Producers :
        producerNext[p] \in OnList \union {Hash!NoProducer}
  /\ OnList \subseteq Hash!Behind
  /\ tail # Hash!NoProducer
        => \E p \in OnList : producerNext[p] = Hash!NoProducer

(* The threads that have, or may still put, a key in table h or one before
   it, when the count that they were told is at most n. *)
Within(h, n) ==
  {t \in Threads : \/ \E g \in Tables : g <= h /\ Keyed(t, g)
                   \/ hashPc[t] \in {"link", "insert"} /\ main[t] <= h
                   \/ Hash!InsideCount(t) /\ newCount[t] <= n}
CountedThreads == {t \in Threads : Anywhere(t) \/ Hash!InsideCount(t)}
CountIs ==
  /\ count = Cardinality(CountedThreads)
  /\ \A h \in Tables : \A n \in Nat :
        n + 1 >= Hash!ThreeQuarters(Hash!Capacity(h))
            => Cardinality(Within(h, n)) <= n

HashInv ==
  /\ HashTypes /\ TablesAre /\ OneResizes
  /\ \A h \in Tables : KeysAre(h)
  /\ \A t \in Threads : CallIs(t)
  /\ ListIs /\ CountIs

-----------------------------------------------------------------------------
(* Tables, rows and slots *)

LEMMA RowFacts ==
  ASSUME HashTypes, NEW h \in Tables
  PROVE  /\ Hash!Capacity(h) \in Nat /\ Hash!Capacity(h) >= 2
         /\ DOMAIN key[h] = 0 .. (Hash!Capacity(h) - 1)
         /\ key[h] \in [0 .. (Hash!Capacity(h) - 1) -> Entries]
<1>1. key[h] \in Rows(Entries)
  BY DEF HashTypes, Tables
<1>2. PICK c \in Nat \ {0, 1} : key[h] \in [0 .. (c - 1) -> Entries]
  BY <1>1 DEF Rows
<1>3. Cardinality(0 .. (c - 1)) = c
  BY <1>2, FS_Interval
<1>4. DOMAIN key[h] = 0 .. (c - 1)
  BY <1>2
<1>5. Hash!Capacity(h) = c
  BY <1>3, <1>4, SameCardinality DEF Hash!Capacity
<1>. QED
  BY <1>2, <1>4, <1>5

LEMMA SlotFacts ==
  ASSUME HashTypes, NEW h \in Tables, NEW i \in Nat
  PROVE  Hash!At(h, i) \in 0 .. (Hash!Capacity(h) - 1) /\ Hash!At(h, i)
             \in DOMAIN key[h]
<1>1. Hash!Capacity(h) \in Nat /\ Hash!Capacity(h) >= 2
      /\ DOMAIN key[h] = 0 .. (Hash!Capacity(h) - 1)
  BY RowFacts
<1>. DEFINE c == Hash!Capacity(h)
<1>2. c \in Nat /\ c >= 2
  BY <1>1
<1>. HIDE DEF c
<1>3. i % c \in 0 .. (c - 1)
  BY <1>2
<1>. QED
  BY <1>1, <1>3 DEF Hash!At, c

(* The path to the slot after i has i itself and no other new slot; it is
   empty when that slot is where the search began. *)
LEMMA PathStep ==
  ASSUME NEW c \in Nat, c >= 2, NEW s \in 0 .. (c - 1), NEW i \in 0 .. (c - 1)
  PROVE  /\ (i + 1) % c \in 0 .. (c - 1)
         /\ Path(c, s, (i + 1) % c) \subseteq Path(c, s, i) \union {i}
         /\ Path(c, s, s) = {}
         /\ Path(c, s, i) \subseteq 0 .. (c - 1)
<1>1. (i + 1) % c = IF i + 1 = c THEN 0 ELSE i + 1
  <2>1. CASE i + 1 = c
    BY <2>1
  <2>2. CASE i + 1 < c
    BY <2>2
  <2>. QED
    BY <2>1, <2>2
<1>. QED
  BY <1>1 DEF Path

(* Of two slots one is on the path to the other. *)
LEMMA PathOrder ==
  ASSUME NEW c \in Nat, NEW s \in 0 .. (c - 1), NEW i \in 0 .. (c - 1),
         NEW j \in 0 .. (c - 1), i # j
  PROVE  i \in Path(c, s, j) \/ j \in Path(c, s, i)
BY DEF Path

LEMMA HomeFacts ==
  ASSUME HashTypes, NEW h \in Tables, NEW t \in Threads
  PROVE  /\ Home(t, h) \in 0 .. (Hash!Capacity(h) - 1)
         /\ Here(t, h) \in 0 .. (Hash!Capacity(h) - 1)
         /\ Here(t, h) \in DOMAIN key[h]
         /\ Path(Hash!Capacity(h), Home(t, h), Home(t, h)) = {}
         /\ Path(Hash!Capacity(h), Home(t, h), Here(t, h))
               \subseteq DOMAIN key[h]
<1>1. hashOf[t] \in Nat /\ index[t] \in Nat
  BY DEF HashTypes
<1>2. /\ Home(t, h) \in 0 .. (Hash!Capacity(h) - 1)
      /\ Here(t, h) \in 0 .. (Hash!Capacity(h) - 1)
  BY <1>1, SlotFacts DEF Home, Here
<1>3. /\ Hash!Capacity(h) \in Nat /\ Hash!Capacity(h) >= 2
      /\ DOMAIN key[h] = 0 .. (Hash!Capacity(h) - 1)
  BY RowFacts
<1>. QED
  BY <1>2, <1>3, PathStep

LEMMA RowsPut ==
  ASSUME NEW S, NEW s \in Seq(Rows(S)), NEW m \in 1 .. Len(s),
         NEW i \in DOMAIN s[m], NEW x \in S, NEW new,
         new = [s EXCEPT ![m][i] = x]
  PROVE  /\ new \in Seq(Rows(S)) /\ Len(new) = Len(s)
         /\ \A h \in 1 .. Len(s) :
              /\ DOMAIN new[h] = DOMAIN s[h]
              /\ \A j \in DOMAIN s[h] :
                    new[h][j] = IF h = m /\ j = i THEN x ELSE s[h][j]
<1>1. s[m] \in Rows(S)
  OBVIOUS
<1>2. PICK c \in Nat \ {0, 1} : s[m] \in [0 .. (c - 1) -> S]
  BY <1>1 DEF Rows
<1>. DEFINE row == [s[m] EXCEPT ![i] = x]
<1>3. row \in [0 .. (c - 1) -> S]
  BY <1>2
<1>4. row \in Rows(S)
  BY <1>2, <1>3 DEF Rows
<1>5. \A j \in DOMAIN s[m] : row[j] = IF j = i THEN x ELSE s[m][j]
  OBVIOUS
<1>6. DOMAIN row = DOMAIN s[m]
  OBVIOUS
<1>7. new = [s EXCEPT ![m] = row]
  OBVIOUS
<1>. HIDE DEF row
<1>8. new \in Seq(Rows(S)) /\ Len(new) = Len(s)
  BY <1>4, <1>7
<1>9. \A h \in 1 .. Len(s) : new[h] = IF h = m THEN row ELSE s[h]
  BY <1>4, <1>7
<1>. QED
  BY <1>5, <1>6, <1>8, <1>9

LEMMA RowsAppended ==
  ASSUME NEW S, NEW s \in Seq(Rows(S)), NEW c \in Nat \ {0, 1},
         NEW row \in [0 .. (c - 1) -> S], NEW new, new = Append(s, row)
  PROVE  /\ new \in Seq(Rows(S)) /\ Len(new) = Len(s) + 1
         /\ \A h \in 1 .. Len(s) : new[h] = s[h]
         /\ new[Len(s) + 1] = row
<1>1. row \in Rows(S)
  BY DEF Rows
<1>. QED
  BY <1>1

(* A power of two is the number of subsets of an interval, which has more
   subsets than elements. *)
LEMMA PowersOfTwo == \A k \in Nat : 2^k \in Nat /\ 2^k > k
<1>. DEFINE I(k) == 1 .. k
            T == {k \in Nat : ~(Cardinality(SUBSET I(k)) > k)}
<1>1. ASSUME NEW k \in Nat
      PROVE  /\ IsFiniteSet(SUBSET I(k)) /\ Cardinality(SUBSET I(k)) \in Nat
             /\ 2^k = Cardinality(SUBSET I(k))
  <2>1. IsFiniteSet(I(k)) /\ Cardinality(I(k)) = k
    BY FS_Interval
  <2>. HIDE DEF I
  <2>2. IsFiniteSet(SUBSET I(k))
        /\ Cardinality(SUBSET I(k)) = 2^Cardinality(I(k))
    BY <2>1, FS_SUBSET
  <2>. QED
    BY <2>1, <2>2, FS_CardinalityType
<1>2. T = {}
  <2>1. SUFFICES ASSUME T # {} PROVE FALSE
    OBVIOUS
  <2>2. PICK m \in T : \A k \in T : m <= k
    BY <2>1, LeastNatural
  <2>3. m \in Nat /\ ~(Cardinality(SUBSET I(m)) > m)
    BY <2>2
  <2>4. CASE m = 0
    <3>1. {} \in SUBSET I(m)
      OBVIOUS
    <3>2. Cardinality(SUBSET I(m)) # 0
      BY <1>1, <2>3, <3>1, FS_EmptySet
    <3>. QED
      BY <1>1, <2>3, <2>4, <3>2
  <2>5. CASE m # 0
    <3>. DEFINE k == m - 1
    <3>1. k \in Nat /\ m = k + 1 /\ k \notin T
      BY <2>2, <2>3, <2>5
    <3>2. Cardinality(SUBSET I(k)) > k
      BY <3>1
    <3>3. I(k) \subseteq I(m) /\ m \in I(m) /\ m \notin I(k)
      BY <3>1
    <3>. HIDE DEF I, k
    <3>4. SUBSET I(k) \subseteq SUBSET I(m)
          /\ I(m) \in SUBSET I(m) /\ I(m) \notin SUBSET I(k)
      BY <3>3
    <3>5. SUBSET I(k) # SUBSET I(m)
          /\ SUBSET I(k) \in SUBSET (SUBSET I(m))
      BY <3>4
    <3>6. IsFiniteSet(SUBSET I(m))
      BY <1>1, <2>3
    <3>7. /\ Cardinality(SUBSET I(k)) <= Cardinality(SUBSET I(m))
          /\ Cardinality(SUBSET I(k)) # Cardinality(SUBSET I(m))
      BY ONLY <3>5, <3>6, FS_Subset
    <3>8. Cardinality(SUBSET I(k)) \in Nat /\ Cardinality(SUBSET I(m)) \in Nat
      BY <1>1, <2>3, <3>1
    <3>. QED
      BY <2>3, <3>1, <3>2, <3>7, <3>8
  <2>. QED
    BY <2>4, <2>5
<1>. QED
  BY <1>1, <1>2

(* The larger table is not smaller. *)
LEMMA NewCapacityGrows ==
  ASSUME NEW c \in Nat, c >= 2, NEW n \in Nat, n >= Hash!Half(c)
  PROVE  Hash!NewCapacity(n, c) \in Nat /\ Hash!NewCapacity(n, c) >= c
<1>. DEFINE T == {k \in Nat : n < Hash!Half(c * 2^k)}
<1>1. ASSUME NEW k \in Nat
      PROVE  /\ c * 2^k \in Nat /\ c * 2^k >= c /\ Hash!Half(c * 2^k) >= 2^k
  <2>1. 2^k \in Nat /\ 2^k > k
    BY <1>1, PowersOfTwo
  <2>2. PICK p \in Nat \ {0} : p = 2^k
    BY <1>1, <2>1
  <2>3. c * p \in Nat /\ c * p >= c /\ c * p >= 2 * p
    OBVIOUS
  <2>4. \A x \in Nat : x >= 2 * p => x \div 2 >= p
    OBVIOUS
  <2>. QED
    BY <2>2, <2>3, <2>4 DEF Hash!Half
<1>2. n \in T /\ n >= 1
  <2>1. n < Hash!Half(c * 2^n)
    <3>1. n < 2^n /\ 2^n \in Nat
      BY PowersOfTwo
    <3>2. Hash!Half(c * 2^n) >= 2^n /\ c * 2^n \in Nat
      BY <1>1
    <3>3. Hash!Half(c * 2^n) \in Nat
      BY <3>2 DEF Hash!Half
    <3>. QED
      BY <3>1, <3>2, <3>3
  <2>. QED
    BY <2>1 DEF Hash!Half
<1>3. PICK m \in T : \A k \in T : m <= k
  BY <1>2, LeastNatural
<1>4. m \in 1 .. n
  <2>1. m # 0
    <3>1. SUFFICES ASSUME m = 0 PROVE FALSE
      OBVIOUS
    <3>2. n < Hash!Half(c * 2^0)
      BY <1>3, <3>1
    <3>3. 2^0 = 1
      BY SMT
    <3>. QED
      BY <3>2, <3>3 DEF Hash!Half
  <2>. QED
    BY <1>2, <1>3, <2>1
<1>. DEFINE P(k) == /\ n < Hash!Half(c * 2^k)
                    /\ \A j \in 1 .. (k - 1) : n >= Hash!Half(c * 2^j)
<1>5. P(m)
  <2>1. n < Hash!Half(c * 2^m)
    BY <1>3
  <2>2. ASSUME NEW j \in 1 .. (m - 1) PROVE n >= Hash!Half(c * 2^j)
    <3>1. j \in Nat /\ j < m
      BY <1>4, <2>2
    <3>2. ~(n < Hash!Half(c * 2^j))
      BY <1>3, <3>1
    <3>3. Hash!Half(c * 2^j) \in Nat
      BY <1>1, <3>1 DEF Hash!Half
    <3>. QED
      BY <3>2, <3>3
  <2>. QED
    BY <2>1, <2>2
<1>6. (CHOOSE k \in 1 .. n : P(k)) \in 1 .. n
  <2>. HIDE DEF P
  <2>. QED
    BY <1>4, <1>5
<1>7. Hash!NewCapacity(n, c) = c * 2^(CHOOSE k \in 1 .. n : P(k))
  BY DEF Hash!NewCapacity
<1>. HIDE DEF P
<1>8. PICK k \in Nat : k = (CHOOSE j \in 1 .. n : P(j))
  BY <1>6
<1>. QED
  BY <1>1, <1>7, <1>8

-----------------------------------------------------------------------------
(* What every step of a thread leaves alone *)

(* Keys are only added, by the thread that they name, and tables only at the
   end. *)
TablesGrow(t) ==
  /\ key' \in Seq(Rows(Entries)) /\ Len(key) <= Len(key')
  /\ \A h \in Tables :
        /\ DOMAIN key'[h] = DOMAIN key[h] /\ Hash!Capacity(h)'
              = Hash!Capacity(h)
        /\ \A i \in DOMAIN key[h] : \/ key'[h][i] = key[h][i]
                                    \/ key[h][i] = None /\ key'[h][i] = t
  /\ \A h \in Tables' \ Tables : \A i \in DOMAIN key'[h] : key'[h][i] = None
  /\ hashOf' = hashOf

OtherThreadsStay(t) ==
  \A u \in Threads \ {t} :
      /\ hashPc'[u] = hashPc[u] /\ main'[u] = main[u] /\ table'[u] = table[u]
      /\ index'[u] = index[u] /\ newCount'[u] = newCount[u]
      /\ made'[u] = made[u] /\ got'[u] = got[u]

LEMMA SameTables ==
  ASSUME HashTypes, UNCHANGED <<key, hashOf>>, NEW t \in Threads
  PROVE  TablesGrow(t)
BY DEF TablesGrow, HashTypes, Tables, Hash!Capacity

(* Keys stay, and so do those of the other threads. *)
LEMMA KeysStay ==
  ASSUME NEW t \in Threads, TablesGrow(t), HashTypes
  PROVE  /\ \A h \in Tables : h \in Tables'
         /\ \A h \in Tables : \A i \in DOMAIN key[h] :
               key[h][i] # None => key'[h][i] = key[h][i]
         /\ \A h \in Tables : \A u \in Threads :
               Keyed(u, h) => Keyed(u, h)'
         /\ \A h \in Tables : \A u \in Threads \ {t} :
               Keyed(u, h)' => Keyed(u, h)
         /\ \A h \in Tables' : \A u \in Threads :
               Keyed(u, h)' /\ h \notin Tables => FALSE
<1>1. Len(key) \in Nat /\ Len(key') \in Nat
  BY DEF TablesGrow, HashTypes
<1>2. ASSUME NEW h \in Tables PROVE h \in Tables'
  BY <1>1 DEF Tables, TablesGrow
<1>3. ASSUME NEW h \in Tables, NEW i \in DOMAIN key[h], key[h][i] # None
      PROVE  key'[h][i] = key[h][i]
  BY <1>3 DEF TablesGrow
<1>4. ASSUME NEW h \in Tables, NEW u \in Threads, Keyed(u, h)
      PROVE  Keyed(u, h)'
  <2>1. PICK i \in DOMAIN key[h] : key[h][i] = u
    BY <1>4 DEF Keyed
  <2>2. i \in DOMAIN key'[h] /\ key'[h][i] = u
    BY <1>3, <2>1, NoneAssumption DEF TablesGrow
  <2>. QED
    BY <2>2 DEF Keyed
<1>5. ASSUME NEW h \in Tables, NEW u \in Threads \ {t}, Keyed(u, h)'
      PROVE  Keyed(u, h)
  <2>1. PICK i \in DOMAIN key'[h] : key'[h][i] = u
    BY <1>5 DEF Keyed
  <2>2. i \in DOMAIN key[h] /\ key[h][i] = u
    BY <2>1 DEF TablesGrow
  <2>. QED
    BY <2>2 DEF Keyed
<1>6. ASSUME NEW h \in Tables', NEW u \in Threads, Keyed(u, h)',
             h \notin Tables
      PROVE  FALSE
  BY <1>6, NoneAssumption DEF Keyed, TablesGrow
<1>. QED
  BY <1>2, <1>3, <1>4, <1>5, <1>6

LEMMA AnywhereStays ==
  ASSUME NEW t \in Threads, TablesGrow(t), HashTypes
  PROVE  /\ \A u \in Threads : Anywhere(u) => Anywhere(u)'
         /\ \A u \in Threads \ {t} : Anywhere(u)' => Anywhere(u)
BY KeysStay DEF Anywhere

(* A path of full slots stays full. *)
LEMMA OtherCalls ==
  ASSUME HashTypes, HashTypes', NEW t \in Threads, TablesGrow(t),
         OtherThreadsStay(t), mainTable \in Tables, mainTable' \in Nat,
         mainTable <= mainTable', NEW u \in Threads, u # t, CallIs(u),
         Mine(u) \in Hash!Producers' <=> Mine(u) \in Hash!Producers
  PROVE  CallIs(u)'
<1>1. /\ hashPc'[u] = hashPc[u] /\ main'[u] = main[u] /\ table'[u] = table[u]
      /\ index'[u] = index[u] /\ newCount'[u] = newCount[u]
      /\ made'[u] = made[u] /\ got'[u] = got[u] /\ hashOf' = hashOf
  BY DEF OtherThreadsStay, TablesGrow
<1>2. Anywhere(u)' <=> Anywhere(u)
  BY AnywhereStays
<1>3. \A h \in Tables : Keyed(u, h)' <=> Keyed(u, h)
  BY KeysStay
<1>4. \A h \in Tables : /\ h \in Tables' /\ Hash!Capacity(h)' = Hash!Capacity(h)
                        /\ Home(u, h)' = Home(u, h) /\ Here(u, h)' = Here(u, h)
  BY <1>1, KeysStay DEF TablesGrow, Home, Here, Hash!At
<1>5. Len(key) \in Nat /\ main[u] \in Nat /\ mainTable \in Nat
  BY DEF HashTypes
<1>6. ASSUME hashPc[u] # "idle"
      PROVE  /\ main[u] \in 1 .. mainTable' /\ main[u] \in Tables
             /\ main[u] \in 1 .. mainTable
  BY <1>5, <1>6 DEF CallIs, Tables
<1>7. ASSUME hashPc[u] = "search" PROVE Searched(u)'
  <2>1. Searched(u) /\ table[u] \in 1 .. main[u]
    BY <1>7 DEF CallIs, Searched
  <2>2. table[u] \in Tables
    BY <1>5, <1>6, <1>7, <2>1 DEF Tables
  <2>3. \A h \in Tables' : h > table[u] => ~Keyed(u, h)'
    BY <1>3, <2>1, KeysStay DEF Searched
  <2>4. Path(Hash!Capacity(table[u]), Home(u, table[u]), Here(u, table[u]))
          \subseteq DOMAIN key[table[u]]
    BY <2>2, HomeFacts
  <2>5. \A i \in DOMAIN key[table[u]] :
            key[table[u]][i] \notin {None, u}
                => key'[table[u]][i] \notin {None, u}
    BY <2>2, KeysStay
  <2>. QED
    BY <1>1, <1>4, <2>1, <2>2, <2>3, <2>4, <2>5 DEF Searched
<1>8. ASSUME hashPc[u] \in {"copy", "insert"} PROVE Passed(u)'
  <2>1. Passed(u) /\ main[u] \in Tables
    BY <1>6, <1>8 DEF CallIs
  <2>2. Path(Hash!Capacity(main[u]), Home(u, main[u]), Here(u, main[u]))
          \subseteq DOMAIN key[main[u]]
    BY <2>1, HomeFacts
  <2>3. \A i \in DOMAIN key[main[u]] :
            key[main[u]][i] # None => key'[main[u]][i] # None
    BY <2>1, KeysStay
  <2>. QED
    BY <1>1, <1>4, <2>1, <2>2, <2>3 DEF Passed
<1>9. ASSUME hashPc[u] = "copy", NEW m \in Tables, m = main[u]
      PROVE  /\ \E h \in Tables' : h < main'[u] /\ Keyed(u, h)'
             /\ ~Keyed(u, m)'
  <2>1. PICK h \in Tables : h < main[u] /\ Keyed(u, h)
    BY <1>9 DEF CallIs
  <2>2. ~Keyed(u, m)
    BY <1>6, <1>9 DEF CallIs
  <2>. QED
    BY <1>1, <1>3, <1>4, <1>9, <2>1, <2>2
<1>10. Hash!InsideCount(u)' <=> Hash!InsideCount(u)
  BY <1>1 DEF Hash!InsideCount
<1>11. Mine(u)' = Mine(u)
  BY DEF Mine
<1>12. ASSUME NEW m \in Tables, m = main[u], ~Keyed(u, m)'
       PROVE  ~Keyed(u, main[u])'
  BY <1>1, <1>12 DEF Keyed
<1>. QED
  BY <1>1, <1>2, <1>6, <1>7, <1>8, <1>9, <1>10, <1>11, <1>12 DEF CallIs

-----------------------------------------------------------------------------
(* The parts of the invariant that a step does not touch *)

LEMMA SameKeys ==
  ASSUME HashTypes, TablesAre, \A h \in Tables : KeysAre(h),
         UNCHANGED <<key, value, prev, hashOf>>,
         mainTable' \in Tables, mainTable <= mainTable'
  PROVE  TablesAre' /\ \A h \in Tables' : KeysAre(h)'
<1>1. Tables' = Tables /\ \A h \in Tables : Hash!Capacity(h)' = Hash!Capacity(h)
  BY DEF Tables, Hash!Capacity
<1>2. TablesAre'
  BY <1>1 DEF TablesAre
<1>3. ASSUME NEW h \in Tables PROVE KeysAre(h)'
  <2>1. mainTable \in Nat /\ mainTable' \in Nat /\ h \in Nat
    BY DEF HashTypes, Tables
  <2>2. KeysAre(h)
    OBVIOUS
  <2>3. h > mainTable' => \A i \in DOMAIN key'[h] : key'[h][i] = None
    BY <2>1, <2>2 DEF KeysAre
  <2>4. \A u : Home(u, h)' = Home(u, h)
    BY <1>1 DEF Home, Hash!At
  <2>. QED
    BY <1>1, <2>2, <2>3, <2>4 DEF KeysAre, Mine, Hash!NoProducer
<1>. QED
  BY <1>1, <1>2, <1>3

(* A step outside the section of the lock. *)
LEMMA LocksStay ==
  ASSUME OneResizes, NEW t \in Threads, OtherThreadsStay(t),
         hashPc[t] \notin Locking, hashPc'[t] \notin Locking,
         UNCHANGED <<resizing, mainTable>>, Len(key') = Len(key)
  PROVE  OneResizes'
<1>1. \A u \in Threads : u # t => hashPc'[u] = hashPc[u] /\ table'[u] = table[u]
  BY DEF OtherThreadsStay
<1>2. \A u \in Threads : hashPc'[u] \in Locking <=> hashPc[u] \in Locking
  BY <1>1
<1>3. \A u \in Threads : hashPc'[u] = "store" <=> hashPc[u] = "store"
  BY <1>1 DEF Locking
<1>4. hashPc[t] # "store"
  BY DEF Locking
<1>. QED
  BY <1>1, <1>2, <1>3, <1>4 DEF OneResizes

(* A step of the caller that holds the lock, and goes on holding it. *)
LEMMA LockHeld ==
  ASSUME OneResizes, NEW t \in Threads, OtherThreadsStay(t),
         hashPc[t] \in Locking, hashPc[t] # "store", hashPc'[t] \in Locking,
         hashPc'[t] # "store", UNCHANGED <<resizing, mainTable>>,
         Len(key') = Len(key)
  PROVE  OneResizes'
<1>1. \A u \in Threads : u # t => hashPc'[u] = hashPc[u] /\ table'[u] = table[u]
  BY DEF OtherThreadsStay
<1>2. \A u \in Threads : hashPc'[u] \in Locking <=> hashPc[u] \in Locking
  BY <1>1
<1>3. \A u \in Threads : hashPc'[u] = "store" <=> hashPc[u] = "store"
  BY <1>1
<1>. QED
  BY <1>1, <1>2, <1>3 DEF OneResizes

LEMMA LockReleased ==
  ASSUME OneResizes, NEW t \in Threads, OtherThreadsStay(t),
         hashPc[t] \in Locking, hashPc[t] # "store", hashPc'[t] \notin Locking,
         UNCHANGED mainTable, Len(key') = Len(key)
  PROVE  OneResizes'
<1>1. \A u \in Threads : u # t => hashPc'[u] = hashPc[u] /\ table'[u] = table[u]
  BY DEF OtherThreadsStay
<1>2. \A u \in Threads : hashPc'[u] \notin Locking
  BY <1>1 DEF OneResizes
<1>3. \A u \in Threads : hashPc'[u] # "store" /\ hashPc[u] # "store"
  BY <1>1, <1>2 DEF OneResizes, Locking
<1>. QED
  BY <1>2, <1>3 DEF OneResizes

LEMMA MainIsLast ==
  ASSUME OneResizes, NEW t \in Threads, hashPc[t]
             \in Locking, hashPc[t] # "store"
  PROVE  mainTable = Len(key)
BY DEF OneResizes, Locking

LEMMA ListStays ==
  ASSUME HashTypes, ListIs, NEW t \in Threads, OtherThreadsStay(t),
         hashPc[t] # "link", hashPc'[t] # "link", UNCHANGED <<producerNext,
                                                              tail>>
  PROVE  ListIs'
<1>1. Hash!Producers' = Hash!Producers /\ Hash!Behind' = Hash!Behind
  BY DEF Hash!Producers, Hash!Behind, Hash!NoProducer
<1>2. \A p \in Hash!Producers : hashPc'[p[1]] = "link" <=> hashPc[p[1]] = "link"
  BY DEF ListIs, OtherThreadsStay
<1>3. OnList' = OnList
  BY <1>1, <1>2 DEF OnList
<1>. QED
  BY <1>1, <1>3 DEF ListIs, Mine, Hash!NoProducer

-----------------------------------------------------------------------------
(* The count *)

LEMMA WithinIsFinite ==
  ASSUME NEW h, NEW n
  PROVE  /\ IsFiniteSet(Within(h, n)) /\ Cardinality(Within(h, n)) \in Nat
         /\ IsFiniteSet(CountedThreads) /\ Cardinality(CountedThreads) \in Nat
<1>1. Within(h, n) \subseteq Threads /\ CountedThreads \subseteq Threads
  BY DEF Within, CountedThreads
<1>. QED
  BY <1>1, ThreadsAssumption, FS_Subset, FS_CardinalityType

(* Only its own step moves a thread into a set that is counted. *)
LEMMA OthersWithin ==
  ASSUME HashTypes, NEW t \in Threads, TablesGrow(t), OtherThreadsStay(t),
         NEW u \in Threads, u # t
  PROVE  /\ u \in CountedThreads' <=> u \in CountedThreads
         /\ \A h \in Tables, n \in Nat : u \in Within(h, n)'
               => u \in Within(h, n)
<1>1. hashPc'[u] = hashPc[u] /\ main'[u] = main[u] /\ newCount'[u] = newCount[u]
  BY DEF OtherThreadsStay
<1>2. Hash!InsideCount(u)' <=> Hash!InsideCount(u)
  BY <1>1 DEF Hash!InsideCount
<1>3. Anywhere(u)' <=> Anywhere(u)
  BY AnywhereStays
<1>4. \A g \in Tables' : Keyed(u, g)' => g \in Tables /\ Keyed(u, g)
  BY KeysStay
<1>5. u \in CountedThreads' <=> u \in CountedThreads
  BY <1>2, <1>3 DEF CountedThreads
<1>6. ASSUME NEW h \in Tables, NEW n \in Nat, u \in Within(h, n)'
      PROVE  u \in Within(h, n)
  BY <1>1, <1>2, <1>4, <1>6 DEF Within
<1>. QED
  BY <1>5, <1>6

(* A step that moves no thread into one of the sets. *)
LEMMA WithinStays ==
  ASSUME HashTypes, CountIs, NEW t
             \in Threads, TablesGrow(t), OtherThreadsStay(t),
         NEW h \in Tables, NEW n \in Nat,
         n + 1 >= Hash!ThreeQuarters(Hash!Capacity(h))',
         t \in Within(h, n)' => t \in Within(h, n)
  PROVE  Cardinality(Within(h, n))' <= n
<1>1. n + 1 >= Hash!ThreeQuarters(Hash!Capacity(h))
  BY DEF TablesGrow, Hash!ThreeQuarters
<1>2. Within(h, n)' \subseteq Within(h, n)
  <2>1. \A u \in Threads : u \in Within(h, n)' => u \in Within(h, n)
    BY OthersWithin
  <2>2. Within(h, n)' \subseteq Threads
    BY DEF Within
  <2>. QED
    BY <2>1, <2>2
<1>3. Cardinality(Within(h, n)') <= Cardinality(Within(h, n))
  BY <1>2, WithinIsFinite, FS_Subset
<1>4. Cardinality(Within(h, n)') \in Nat
  BY <1>2, WithinIsFinite, FS_Subset, FS_CardinalityType
<1>5. Cardinality(Within(h, n)) <= n
  BY <1>1 DEF CountIs
<1>6. Cardinality(Within(h, n)) \in Nat
  BY WithinIsFinite
<1>. QED
  BY <1>3, <1>4, <1>5, <1>6

LEMMA CountStays ==
  ASSUME HashTypes, CountIs, NEW t
             \in Threads, TablesGrow(t), OtherThreadsStay(t),
         Len(key') = Len(key), t \in CountedThreads' <=> t \in CountedThreads,
         UNCHANGED count,
         \A h \in Tables, n \in Nat :
             /\ n + 1 >= Hash!ThreeQuarters(Hash!Capacity(h))
             /\ t \in Within(h, n)'
             => t \in Within(h, n)
  PROVE  CountIs'
<1>1. CountedThreads' = CountedThreads
  <2>1. \A u \in Threads : u \in CountedThreads' <=> u \in CountedThreads
    BY OthersWithin
  <2>2. CountedThreads \subseteq Threads /\ CountedThreads' \subseteq Threads
    BY DEF CountedThreads
  <2>. QED
    BY <2>1, <2>2
<1>2. count' = Cardinality(CountedThreads)'
  BY <1>1 DEF CountIs
<1>3. ASSUME NEW h \in Tables', NEW n \in Nat,
             n + 1 >= Hash!ThreeQuarters(Hash!Capacity(h))'
      PROVE  Cardinality(Within(h, n))' <= n
  <2>1. h \in Tables
    BY <1>3 DEF Tables
  <2>2. n + 1 >= Hash!ThreeQuarters(Hash!Capacity(h))
    BY <1>3, <2>1 DEF TablesGrow, Hash!ThreeQuarters
  <2>. QED
    BY <1>3, <2>1, <2>2, WithinStays
<1>. QED
  BY <1>2, <1>3 DEF CountIs

(* A step that takes its thread out of the count. *)
LEMMA CountGivenBack ==
  ASSUME HashTypes, CountIs, NEW t \in Threads, UNCHANGED <<key, hashOf>>,
         OtherThreadsStay(t), t \in CountedThreads, t \notin CountedThreads',
         hashPc'[t] \notin {"link", "insert"}, count' = count - 1
  PROVE  CountIs'
<1>1. TablesGrow(t) /\ Tables' = Tables
  BY SameTables DEF Tables
<1>2. CountedThreads' = CountedThreads \ {t}
  <2>1. \A u \in Threads : u # t
            => (u \in CountedThreads' <=> u \in CountedThreads)
    BY <1>1, OthersWithin
  <2>2. CountedThreads \subseteq Threads /\ CountedThreads' \subseteq Threads
    BY DEF CountedThreads
  <2>. QED
    BY <2>1, <2>2
<1>3. Cardinality(CountedThreads \ {t}) = Cardinality(CountedThreads) - 1
  BY WithinIsFinite, FS_RemoveElement
<1>4. count' = Cardinality(CountedThreads)'
  BY <1>2, <1>3 DEF CountIs
<1>5. ASSUME NEW h \in Tables', NEW n \in Nat,
             n + 1 >= Hash!ThreeQuarters(Hash!Capacity(h))'
      PROVE  Cardinality(Within(h, n))' <= n
  <2>1. t \notin Within(h, n)'
    BY DEF Within, CountedThreads, Anywhere
  <2>. QED
    BY <1>1, <1>5, <2>1, WithinStays
<1>. QED
  BY <1>4, <1>5 DEF CountIs

-----------------------------------------------------------------------------
(* Steps that change only what is their thread's own *)

LEMMA OwnStep ==
  ASSUME HashInv, HashTypes', NEW t \in Threads, OtherThreadsStay(t),
         UNCHANGED <<hashOf, Hash!tables, mainTable, Hash!list>>,
         hashPc[t] # "link", hashPc'[t] # "link"
  PROVE  /\ TablesGrow(t) /\ TablesAre' /\ \A h \in Tables' : KeysAre(h)'
         /\ ListIs'
         /\ \A u \in Threads : u # t => CallIs(u)'
         /\ Tables' = Tables /\ Hash!Producers' = Hash!Producers
         /\ \A h \in Tables : Hash!Capacity(h)' = Hash!Capacity(h)
         /\ \A h : Keyed(t, h)' <=> Keyed(t, h)
         /\ Anywhere(t)' <=> Anywhere(t)
<1>1. UNCHANGED <<hashOf, key, value, prev, mainTable, producerNext, tail>>
  BY DEF Hash!tables, Hash!list
<1>2. /\ HashTypes /\ TablesAre /\ ListIs
      /\ \A h \in Tables : KeysAre(h)
      /\ \A u \in Threads : CallIs(u)
  BY DEF HashInv
<1>3. TablesGrow(t)
  BY <1>1, <1>2, SameTables
<1>4. mainTable \in Tables /\ mainTable \in Nat
  BY <1>2 DEF TablesAre, HashTypes
<1>5. mainTable' \in Tables /\ mainTable' \in Nat /\ mainTable <= mainTable'
  BY <1>1, <1>4
<1>6. TablesAre' /\ \A h \in Tables' : KeysAre(h)'
  BY <1>1, <1>2, <1>5, SameKeys
<1>7. ListIs'
  BY <1>1, <1>2, ListStays
<1>8. Tables' = Tables /\ Hash!Producers' = Hash!Producers
  BY <1>1 DEF Tables, Hash!Producers
<1>9. \A u \in Threads : u # t => CallIs(u)'
  BY <1>2, <1>3, <1>4, <1>5, <1>8, OtherCalls
<1>10. \A h : Hash!Capacity(h)'
           = Hash!Capacity(h) /\ (Keyed(t, h)' <=> Keyed(t, h))
  BY <1>1 DEF Hash!Capacity, Keyed
<1>11. Anywhere(t)' <=> Anywhere(t)
  BY <1>8, <1>10 DEF Anywhere
<1>. QED
  BY <1>3, <1>6, <1>7, <1>8, <1>9, <1>10, <1>11

LEMMA OwnCount ==
  ASSUME HashInv, HashTypes', NEW t \in Threads, OtherThreadsStay(t),
         UNCHANGED <<hashOf, key, count>>,
         Hash!InsideCount(t)' <=> Hash!InsideCount(t),
         Hash!InsideCount(t) => newCount'[t] = newCount[t],
         hashPc'[t] \in {"link", "insert"} =>
             hashPc[t] \in {"link", "insert"} /\ main'[t] = main[t]
  PROVE  CountIs'
<1>1. TablesGrow(t) /\ HashTypes /\ CountIs
  BY SameTables DEF HashInv
<1>2. Tables' = Tables /\ \A h : Keyed(t, h)' <=> Keyed(t, h)
  BY DEF Tables, Keyed
<1>3. t \in CountedThreads' <=> t \in CountedThreads
  BY <1>2 DEF CountedThreads, Anywhere
<1>4. ASSUME NEW h \in Tables, NEW n \in Nat, t \in Within(h, n)'
      PROVE  t \in Within(h, n)
  BY <1>2, <1>4 DEF Within
<1>. QED
  BY <1>1, <1>3, <1>4, CountStays

(* What is left to show of such a step. *)
LEMMA OwnStepKeeps ==
  ASSUME HashInv, HashTypes', NEW t \in Threads, OtherThreadsStay(t),
         UNCHANGED <<hashOf, Hash!tables, mainTable, Hash!list>>,
         hashPc[t] # "link", hashPc'[t] # "link",
         OneResizes', CountIs', CallIs(t)'
  PROVE  HashInv'
<1>1. TablesAre' /\ ListIs' /\ \A h \in Tables' : KeysAre(h)'
  BY OwnStep
<1>2. \A u \in Threads : u # t => CallIs(u)'
  BY OwnStep
<1>3. \A u \in Threads : CallIs(u)'
  BY <1>2
<1>. QED
  BY <1>1, <1>3 DEF HashInv

(* The end of a call. *)
LEMMA Returned ==
  ASSUME HashTypes, NEW t \in Threads, NEW P \in SUBSET (Entries \X Nat),
         Hash!Return(t, P)
  PROVE  /\ OtherThreadsStay(t)
         /\ hashPc' \in [Threads -> HashPc] /\ main' \in [Threads -> Nat]
         /\ table' \in [Threads -> Nat] /\ index' \in [Threads -> Nat]
         /\ newCount' \in [Threads -> Nat]
         /\ made' \in [Threads -> Entries \X Nat]
         /\ got' \in [Threads -> SUBSET (Entries \X Nat)]
         /\ hashPc'[t] = "idle" /\ made'[t] = Hash!NoProducer
         /\ got'[t] = got[t] \union P
<1>1. Hash!NoProducer \in Entries \X Nat
  BY DEF Hash!NoProducer, Entries
<1>. QED
  BY <1>1 DEF HashTypes, HashPc, Hash!Return, Hash!Goto, OtherThreadsStay

(* A call is given its producer, which has a key in some table. *)
LEMMA ReturnedCall ==
  ASSUME HashTypes, NEW t \in Threads, CallIs(t), hashPc'[t] = "idle",
         made'[t] = Hash!NoProducer, got'[t] \subseteq got[t] \union {Mine(t)},
         got'[t] # {} => Anywhere(t)',
         Mine(t) \in Hash!Producers' <=> Anywhere(t)'
  PROVE  CallIs(t)'
BY DEF CallIs, Hash!InsideCount, Mine, Hash!NoProducer

-----------------------------------------------------------------------------
(* The search *)

LEMMA HashCall ==
  ASSUME HashInv, NEW t \in Threads, Hash!Call(t)
  PROVE  HashInv'
<1>1. HashTypes /\ TablesAre /\ OneResizes /\ CallIs(t)
  BY DEF HashInv
<1>2. mainTable \in Nat /\ mainTable \in Tables
  BY <1>1 DEF HashTypes, TablesAre
<1>3. HashTypes' /\ OtherThreadsStay(t)
  BY <1>1, <1>2
  DEF HashTypes, HashPc, Hash!Call, Hash!Goto, OtherThreadsStay, Hash!tables
<1>4. /\ hashPc[t] = "idle" /\ hashPc'[t] = "search"
      /\ main'[t] = mainTable /\ table'[t] = mainTable
      /\ index'[t] = hashOf[t] /\ made'[t] = made[t] /\ got'[t] = got[t]
      /\ UNCHANGED <<hashOf, Hash!tables, mainTable, count, resizing,
                     Hash!list>>
  BY <1>1 DEF HashTypes, Hash!Call, Hash!Goto
<1>5. OneResizes'
  BY <1>1, <1>3, <1>4, LocksStay DEF Locking, Hash!tables
<1>6. CountIs'
  BY <1>3, <1>4, OwnCount DEF Hash!InsideCount, Hash!tables
<1>7. /\ Tables' = Tables /\ Hash!Producers' = Hash!Producers
      /\ \A h \in Tables : Hash!Capacity(h)' = Hash!Capacity(h)
      /\ \A h : Keyed(t, h)' <=> Keyed(t, h)
      /\ Anywhere(t)' <=> Anywhere(t)
      /\ \A h \in Tables : KeysAre(h)
  BY <1>3, <1>4, OwnStep DEF HashInv
<1>8. Searched(t)'
  <2>1. \A h \in Tables' : h > mainTable => ~Keyed(t, h)'
    BY <1>7, NoneAssumption DEF KeysAre, Keyed
  <2>2. Path(Hash!Capacity(mainTable), Home(t, mainTable), Home(t, mainTable))
            = {}
    BY <1>1, <1>2, HomeFacts
  <2>3. /\ Hash!Capacity(table[t])' = Hash!Capacity(mainTable)
        /\ Home(t, table[t])' = Home(t, mainTable)
        /\ Here(t, table[t])' = Home(t, mainTable)
    BY <1>2, <1>4, <1>7 DEF Home, Here, Hash!At, Hash!Capacity, Hash!tables
  <2>6. mainTable \in 1 .. mainTable
    BY <1>2 DEF Tables
  <2>. QED
    BY <1>4, <2>1, <2>2, <2>3, <2>6 DEF Searched
<1>9. CallIs(t)'
  <2>1. mainTable \in 1 .. mainTable
    BY <1>2 DEF Tables
  <2>. QED
    BY <1>1, <1>4, <1>7, <1>8, <2>1
    DEF CallIs, Hash!InsideCount, Mine, Hash!NoProducer
<1>. QED
  BY <1>3, <1>4, <1>5, <1>6, <1>9, OwnStepKeeps

(* The slot that a search looks at. *)
LEMMA ProbedSlot ==
  ASSUME HashInv, NEW t \in Threads, hashPc[t] = "search"
  PROVE  /\ table[t] \in Tables /\ main[t] \in Tables
         /\ table[t] <= main[t] /\ Here(t, table[t]) \in DOMAIN key[table[t]]
         /\ Hash!Probed(t) = key[table[t]][Here(t, table[t])]
         /\ Hash!Probed(t) = t =>
              /\ value[table[t]][Here(t, table[t])] = Mine(t)
              /\ Keyed(t, table[t]) /\ Anywhere(t)
<1>1. HashTypes /\ TablesAre /\ CallIs(t)
      /\ \A h \in Tables : KeysAre(h)
  BY DEF HashInv
<1>2. /\ main[t] \in 1 .. mainTable /\ mainTable \in 1 .. Len(key)
      /\ table[t] \in 1 .. main[t]
  BY <1>1 DEF CallIs, Searched, TablesAre, Tables
<1>3. Len(key) \in Nat /\ main[t] \in Nat /\ table[t] \in Nat
  BY <1>1 DEF HashTypes
<1>4. table[t] \in Tables /\ main[t] \in Tables /\ table[t] <= main[t]
  BY <1>2, <1>3 DEF Tables
<1>5. Here(t, table[t]) \in DOMAIN key[table[t]]
  BY <1>1, <1>4, HomeFacts
<1>6. Hash!Probed(t) = key[table[t]][Here(t, table[t])]
  BY DEF Hash!Probed, Here
<1>7. ASSUME Hash!Probed(t) = t
      PROVE  /\ value[table[t]][Here(t, table[t])] = Mine(t)
             /\ Keyed(t, table[t]) /\ Anywhere(t)
  <2>1. KeysAre(table[t])
    BY <1>1, <1>4
  <2>2. value[table[t]][Here(t, table[t])] = Mine(t)
    BY <1>5, <1>6, <1>7, <2>1, NoneAssumption DEF KeysAre
  <2>3. Keyed(t, table[t])
    BY <1>5, <1>6, <1>7 DEF Keyed
  <2>. QED
    BY <1>4, <2>2, <2>3 DEF Anywhere
<1>. QED
  BY <1>4, <1>5, <1>6, <1>7

LEMMA MineIsTyped ==
  ASSUME NEW t \in Threads
  PROVE  Mine(t) \in Entries \X Nat /\ Hash!NoProducer \in Entries \X Nat
         /\ Mine(t) # Hash!NoProducer
BY NoneAssumption DEF Mine, Hash!NoProducer, Entries

LEMMA HashFound ==
  ASSUME HashInv, NEW t \in Threads, Hash!Found(t)
  PROVE  HashInv'
<1>1. HashTypes /\ TablesAre /\ OneResizes /\ CallIs(t)
  BY DEF HashInv
<1>2. /\ hashPc[t] = "search" /\ Hash!Probed(t) = t
      /\ UNCHANGED <<hashOf, Hash!tables, mainTable, count, resizing,
                     Hash!list>>
  BY DEF Hash!Found
<1>3. /\ table[t] \in Tables /\ main[t] \in Tables
      /\ table[t] <= main[t] /\ Keyed(t, table[t]) /\ Anywhere(t)
      /\ value[table[t]][Hash!At(table[t], index[t])] = Mine(t)
  BY <1>2, ProbedSlot DEF Here
<1>4. Mine(t) \in Entries \X Nat
  BY MineIsTyped
<1>5. Mine(t) \in Hash!Producers
  BY <1>1, <1>3 DEF CallIs
<1>6. CASE table[t] = main[t]
  <2>1. Hash!Return(t, {Mine(t)})
    BY <1>3, <1>6 DEF Hash!Found
  <2>2. {Mine(t)} \in SUBSET (Entries \X Nat)
    BY <1>4
  <2>3. HashTypes' /\ OtherThreadsStay(t) /\ hashPc'[t] = "idle"
        /\ made'[t] = Hash!NoProducer /\ got'[t] = got[t] \union {Mine(t)}
    BY <1>1, <1>2, <2>1, <2>2, Returned DEF HashTypes, Hash!tables
  <2>4. OneResizes'
    BY <1>1, <1>2, <2>3, LocksStay DEF Locking, Hash!tables
  <2>5. CountIs'
    BY <1>2, <2>3, OwnCount DEF Hash!InsideCount, Hash!tables
  <2>6. Hash!Producers' = Hash!Producers /\ (Anywhere(t)' <=> Anywhere(t))
    BY <1>2, <2>3, OwnStep
  <2>7. CallIs(t)'
    BY <1>1, <1>3, <1>5, <2>3, <2>6, ReturnedCall
  <2>. QED
    BY <1>2, <2>3, <2>4, <2>5, <2>7, OwnStepKeeps
<1>7. CASE table[t] # main[t]
  <2>1. /\ made' = [made EXCEPT ![t] = Mine(t)]
        /\ index' = [index EXCEPT ![t] = hashOf[t]]
        /\ Hash!Goto(t, "copy") /\ UNCHANGED <<main, table, newCount, got>>
    BY <1>3, <1>7 DEF Hash!Found
  <2>2. HashTypes' /\ OtherThreadsStay(t)
    BY <1>1, <1>2, <1>4, <2>1
    DEF HashTypes, HashPc, Hash!Goto, OtherThreadsStay, Hash!tables
  <2>3. /\ hashPc'[t] = "copy" /\ made'[t] = Mine(t) /\ index'[t] = hashOf[t]
        /\ main'[t] = main[t] /\ got'[t] = got[t]
    BY <1>1, <2>1 DEF HashTypes, Hash!Goto
  <2>4. OneResizes'
    BY <1>1, <1>2, <2>2, <2>3, LocksStay DEF Locking, Hash!tables
  <2>5. CountIs'
    BY <1>2, <2>2, <2>3, OwnCount DEF Hash!InsideCount, Hash!tables
  <2>6. /\ Hash!Producers' = Hash!Producers /\ (Anywhere(t)' <=> Anywhere(t))
        /\ \A h : Keyed(t, h)' <=> Keyed(t, h)
        /\ Tables' = Tables /\ \A h \in Tables :
              Hash!Capacity(h)' = Hash!Capacity(h)
    BY <1>2, <2>2, <2>3, OwnStep
  <2>7. table[t] < main[t] /\ ~Keyed(t, main[t])
    <3>1. main[t] \in Nat /\ table[t] \in Nat
      BY <1>1 DEF HashTypes
    <3>2. table[t] < main[t]
      BY <1>3, <1>7, <3>1
    <3>. QED
      BY <1>1, <1>2, <1>3, <3>2 DEF CallIs, Searched
  <2>8. Passed(t)'
    <3>1. Path(Hash!Capacity(main[t]), Home(t, main[t]), Home(t, main[t])) = {}
      BY <1>1, <1>3, HomeFacts
    <3>2. /\ Hash!Capacity(main[t])' = Hash!Capacity(main[t])
          /\ Home(t, main[t])' = Home(t, main[t])
          /\ Here(t, main[t])' = Home(t, main[t])
      BY <1>2, <1>3, <2>3, <2>6
      DEF Home, Here, Hash!At, Hash!Capacity, Hash!tables
    <3>. QED
      BY <3>1, <3>2 DEF Passed
  <2>9. \A m : m = main[t] => /\ main'[t] = m /\ ~Keyed(t, m)'
                              /\ (Keyed(t, main[t])' => Keyed(t, m)')
    BY <2>3, <2>6, <2>7 DEF Keyed
  <2>10. \E h \in Tables' : h < main'[t] /\ Keyed(t, h)'
    BY <1>3, <2>3, <2>6, <2>7
  <2>11. CallIs(t)'
    BY <1>1, <1>2, <1>3, <1>5, <2>3, <2>6, <2>8, <2>9, <2>10
    DEF CallIs, Hash!InsideCount, Mine
  <2>. QED
    BY <1>2, <2>2, <2>3, <2>4, <2>5, <2>11, OwnStepKeeps
<1>. QED
  BY <1>6, <1>7

LEMMA HashNotFound ==
  ASSUME HashInv, NEW t \in Threads, Hash!NotFound(t)
  PROVE  HashInv'
<1>1. HashTypes /\ TablesAre /\ OneResizes /\ CallIs(t)
      /\ \A h \in Tables : KeysAre(h)
  BY DEF HashInv
<1>2. /\ hashPc[t] = "search" /\ Hash!Probed(t) = None
      /\ UNCHANGED <<hashOf, Hash!tables, mainTable, count, resizing,
                     Hash!list>>
  BY DEF Hash!NotFound
<1>3. /\ table[t] \in Tables /\ main[t] \in Tables /\ table[t] <= main[t]
      /\ Here(t, table[t]) \in DOMAIN key[table[t]]
      /\ key[table[t]][Here(t, table[t])] = None
  BY <1>2, ProbedSlot
<1>4. prev[table[t]] = table[t] - 1 /\ table[t] \in Nat \ {0}
      /\ main[t] \in Nat /\ Len(key) \in Nat
  BY <1>1, <1>3 DEF TablesAre, HashTypes, Tables
<1>5. HashTypes' /\ OtherThreadsStay(t)
  <2>1. prev[table[t]] \in Nat
    BY <1>4
  <2>2. hashPc' \in [Threads -> HashPc]
        /\ \A u \in Threads \ {t} : hashPc'[u] = hashPc[u]
    BY <1>1 DEF HashTypes, HashPc, Hash!NotFound, Hash!Goto
  <2>. QED
    BY <1>1, <2>1, <2>2
    DEF HashTypes, Hash!NotFound, OtherThreadsStay, Hash!tables
<1>6. /\ table'[t] = table[t] - 1 /\ index'[t] = hashOf[t]
      /\ hashPc'[t] = IF table[t] = 1 THEN "count" ELSE "search"
      /\ main'[t] = main[t] /\ made'[t] = made[t] /\ got'[t] = got[t]
  BY <1>1, <1>4 DEF HashTypes, Hash!NotFound, Hash!Goto
<1>7. OneResizes'
  BY <1>1, <1>2, <1>5, <1>6, LocksStay DEF Locking, Hash!tables
<1>8. CountIs'
  BY <1>2, <1>5, <1>6, OwnCount DEF Hash!InsideCount, Hash!tables
<1>9. /\ Hash!Producers' = Hash!Producers /\ (Anywhere(t)' <=> Anywhere(t))
      /\ \A h : Keyed(t, h)' <=> Keyed(t, h)
      /\ Tables' = Tables /\ \A h \in Tables :
            Hash!Capacity(h)' = Hash!Capacity(h)
  BY <1>2, <1>5, <1>6, OwnStep
(* Every key is on the way of a search for it to an empty slot. *)
<1>10. ~Keyed(t, table[t])
  <2>. DEFINE h == table[t]
              e == Here(t, h)
  <2>1. SUFFICES ASSUME NEW i \in DOMAIN key[h], key[h][i] = t PROVE FALSE
    BY DEF Keyed
  <2>2. KeysAre(h)
    BY <1>1, <1>3
  <2>3. \A j \in Path(Hash!Capacity(h), Home(t, h), i) : key[h][j] # None
    BY <2>1, <2>2, NoneAssumption DEF KeysAre
  <2>4. /\ i # e /\ i \notin Path(Hash!Capacity(h), Home(t, h), e)
        /\ key[h][e] = None
    BY <1>1, <1>2, <1>3, <2>1, NoneAssumption DEF CallIs, Searched
  <2>5. /\ Hash!Capacity(h) \in Nat /\ DOMAIN key[h]
              = 0 .. (Hash!Capacity(h) - 1)
        /\ Home(t, h) \in 0 .. (Hash!Capacity(h) - 1)
        /\ e \in 0 .. (Hash!Capacity(h) - 1)
    BY <1>1, <1>3, RowFacts, HomeFacts
  <2>6. e \in Path(Hash!Capacity(h), Home(t, h), i)
    BY <2>1, <2>4, <2>5, PathOrder
  <2>. QED
    BY <2>3, <2>4, <2>6
<1>11. \A h \in Tables : h > table[t] - 1 => ~Keyed(t, h)
  <2>1. \A h \in Tables : h > table[t] => ~Keyed(t, h)
    BY <1>1, <1>2 DEF CallIs, Searched
  <2>2. \A h \in Tables : h > table[t] - 1 => h > table[t] \/ h = table[t]
    BY <1>4 DEF Tables
  <2>. QED
    BY <1>10, <2>1, <2>2
<1>12. CASE table[t] = 1
  <2>1. ~Anywhere(t)
    BY <1>4, <1>11, <1>12 DEF Anywhere, Tables
  <2>. QED
    <3>1. CallIs(t)'
      BY <1>1, <1>2, <1>6, <1>9, <1>12, <2>1
      DEF CallIs, Hash!InsideCount, Mine, Hash!NoProducer
    <3>. QED
      BY <1>2, <1>5, <1>6, <1>7, <1>8, <3>1, OwnStepKeeps
<1>13. CASE table[t] # 1
  <2>1. table[t] - 1 \in Tables /\ table[t] - 1 \in 1 .. main[t]
    BY <1>3, <1>4, <1>13 DEF Tables
  <2>2. Searched(t)'
    <3>. DEFINE g == table[t] - 1
    <3>1. Path(Hash!Capacity(g), Home(t, g), Home(t, g)) = {}
      BY <1>1, <2>1, HomeFacts
    <3>2. PICK h \in Tables : h = g
      BY <2>1
    <3>3. /\ Hash!Capacity(h)' = Hash!Capacity(h) /\ Home(t, h)' = Home(t, h)
          /\ Here(t, h)' = Home(t, h) /\ table'[t] = h
      BY <1>2, <1>6, <1>9, <3>2 DEF Home, Here, Hash!At
    <3>. HIDE DEF g
    <3>4. \A i \in Path(Hash!Capacity(h)', Home(t, h)', Here(t, h)') :
              key'[h][i] \notin {None, t}
      BY <3>1, <3>2, <3>3
    <3>5. \A f \in Tables' : f > h => ~Keyed(t, f)'
      BY <1>9, <1>11, <3>2 DEF g
    <3>6. h \in 1 .. main'[t]
      BY <1>6, <2>1, <3>2 DEF g
    <3>7. /\ Hash!Capacity(table[t])' = Hash!Capacity(h)'
          /\ Home(t, table[t])' = Home(t, h)'
          /\ Here(t, table[t])' = Here(t, h)'
      BY <3>3 DEF Home, Here, Hash!At, Hash!Capacity
    <3>. QED
      BY <3>3, <3>4, <3>5, <3>6, <3>7 DEF Searched
  <2>3. CallIs(t)'
    BY <1>1, <1>2, <1>6, <1>9, <1>13, <2>2
    DEF CallIs, Hash!InsideCount, Mine, Hash!NoProducer
  <2>. QED
    BY <1>2, <1>5, <1>6, <1>7, <1>8, <1>13, <2>3, OwnStepKeeps
<1>. QED
  BY <1>12, <1>13

LEMMA HashSearchOn ==
  ASSUME HashInv, NEW t \in Threads, Hash!SearchOn(t)
  PROVE  HashInv'
<1>1. HashTypes /\ TablesAre /\ OneResizes /\ CallIs(t)
  BY DEF HashInv
<1>2. /\ hashPc[t] = "search" /\ Hash!Probed(t) \notin {t, None}
      /\ UNCHANGED <<hashOf, Hash!tables, mainTable, count, resizing, Hash!list,
                     hashPc,
                     main, table, newCount, made, got>>
  BY DEF Hash!SearchOn
<1>. DEFINE h == table[t]
            c == Hash!Capacity(h)
            e == Here(t, h)
<1>3. /\ h \in Tables /\ e \in DOMAIN key[h]
      /\ key[h][e] \notin {t, None}
  BY <1>2, ProbedSlot
<1>4. /\ c \in Nat /\ c >= 2 /\ DOMAIN key[h] = 0 .. (c - 1)
      /\ Home(t, h) \in 0 .. (c - 1) /\ e \in 0 .. (c - 1)
  BY <1>1, <1>3, RowFacts, HomeFacts
<1>5. HashTypes' /\ OtherThreadsStay(t) /\ index'[t] = e + 1
  <2>1. Hash!At(h, index[t]) + 1 \in Nat /\ e = Hash!At(h, index[t])
    BY <1>4 DEF Here
  <2>2. index' = [index EXCEPT ![t] = Hash!At(h, index[t]) + 1]
    BY DEF Hash!SearchOn
  <2>. QED
    BY <1>1, <1>2, <2>1, <2>2 DEF HashTypes, OtherThreadsStay, Hash!tables
<1>6. OneResizes'
  BY <1>1, <1>2, <1>5, LocksStay DEF Locking, Hash!tables
<1>7. CountIs'
  BY <1>2, <1>5, OwnCount DEF Hash!InsideCount, Hash!tables
<1>8. /\ Hash!Producers' = Hash!Producers /\ (Anywhere(t)' <=> Anywhere(t))
      /\ \A g : Keyed(t, g)' <=> Keyed(t, g)
      /\ Tables' = Tables /\ \A g \in Tables :
            Hash!Capacity(g)' = Hash!Capacity(g)
  BY <1>2, <1>5, OwnStep
<1>9. Searched(t)'
  <2>1. Here(t, h)' = (e + 1) % c /\ Home(t, h)' = Home(t, h)
        /\ Hash!Capacity(h)' = c
    BY <1>2, <1>3, <1>5, <1>8 DEF Here, Home, Hash!At
  <2>2. Path(c, Home(t, h), (e + 1) % c)
            \subseteq Path(c, Home(t, h), e) \union {e}
    BY <1>4, PathStep
  <2>3. \A i \in Path(c, Home(t, h), e) : key[h][i] \notin {None, t}
    BY <1>1, <1>2 DEF CallIs, Searched
  <2>4. key' = key
    BY <1>2 DEF Hash!tables
  <2>5. table'[t] = h /\ main'[t] = main[t]
    BY <1>2
  <2>6. h \in 1 .. main[t] /\ \A g \in Tables : g > h => ~Keyed(t, g)
    BY <1>1, <1>2 DEF CallIs, Searched
  <2>. HIDE DEF c, e
  <2>7. \A i \in Path(c, Home(t, h), (e + 1) % c) : key'[h][i] \notin {None, t}
    BY <1>3, <2>2, <2>3, <2>4
  <2>8. /\ Hash!Capacity(table[t])' = Hash!Capacity(h)'
        /\ Home(t, table[t])' = Home(t, h)'
        /\ Here(t, table[t])' = Here(t, h)'
    OBVIOUS
  <2>. HIDE DEF h
  <2>. QED
    BY <1>8, <2>1, <2>5, <2>6, <2>7, <2>8 DEF Searched
<1>10. CallIs(t)'
  BY <1>1, <1>2, <1>8, <1>9 DEF CallIs, Hash!InsideCount, Mine, Hash!NoProducer
<1>. QED
  BY <1>2, <1>5, <1>6, <1>7, <1>10, OwnStepKeeps

-----------------------------------------------------------------------------
(* Putting a key into a table *)

LEMMA HashPutFails ==
  ASSUME HashInv, NEW t \in Threads, NEW from \in {"copy", "insert"},
         Hash!Put(t, from), key[main[t]][Hash!At(main[t], index[t])] # None
  PROVE  HashInv'
<1>1. HashTypes /\ TablesAre /\ OneResizes /\ CallIs(t)
  BY DEF HashInv
<1>2. /\ hashPc[t] = from
      /\ index' = [index EXCEPT ![t] = Hash!At(main[t], index[t]) + 1]
      /\ UNCHANGED <<hashOf, Hash!tables, mainTable, count, resizing, Hash!list,
                     hashPc,
                     main, table, newCount, made, got>>
  BY DEF Hash!Put, Hash!tables
<1>. DEFINE h == main[t]
            c == Hash!Capacity(h)
            e == Here(t, h)
<1>3. h \in Tables
  <2>1. main[t] \in 1 .. mainTable /\ mainTable \in 1 .. Len(key)
        /\ Len(key) \in Nat
    BY <1>1, <1>2 DEF CallIs, TablesAre, Tables, HashTypes
  <2>. QED
    BY <2>1 DEF Tables
<1>4. /\ c \in Nat /\ c >= 2 /\ DOMAIN key[h] = 0 .. (c - 1)
      /\ Home(t, h) \in 0 .. (c - 1) /\ e \in 0 .. (c - 1)
      /\ key[h][e] # None
  BY <1>1, <1>3, RowFacts, HomeFacts DEF Here
<1>5. HashTypes' /\ OtherThreadsStay(t) /\ index'[t] = e + 1
  <2>1. Hash!At(h, index[t]) + 1 \in Nat /\ e = Hash!At(h, index[t])
    BY <1>4 DEF Here
  <2>. QED
    BY <1>1, <1>2, <2>1 DEF HashTypes, OtherThreadsStay, Hash!tables
<1>6. OneResizes'
  BY <1>1, <1>2, <1>5, LocksStay DEF Locking, Hash!tables
<1>7. CountIs'
  BY <1>2, <1>5, OwnCount DEF Hash!InsideCount, Hash!tables
<1>8. /\ Hash!Producers' = Hash!Producers /\ (Anywhere(t)' <=> Anywhere(t))
      /\ \A g : Keyed(t, g)' <=> Keyed(t, g)
      /\ Tables' = Tables /\ \A g \in Tables :
            Hash!Capacity(g)' = Hash!Capacity(g)
  BY <1>2, <1>5, OwnStep
<1>9. Passed(t)'
  <2>1. Here(t, h)' = (e + 1) % c /\ Home(t, h)' = Home(t, h)
        /\ Hash!Capacity(h)' = c
    BY <1>2, <1>3, <1>5, <1>8 DEF Here, Home, Hash!At
  <2>2. Path(c, Home(t, h), (e + 1) % c)
            \subseteq Path(c, Home(t, h), e) \union {e}
    BY <1>4, PathStep
  <2>3. \A i \in Path(c, Home(t, h), e) : key[h][i] # None
    BY <1>1, <1>2 DEF CallIs, Passed
  <2>4. key' = key /\ main'[t] = h
    BY <1>2 DEF Hash!tables
  <2>. HIDE DEF c, e
  <2>5. \A i \in Path(c, Home(t, h), (e + 1) % c) : key'[h][i] # None
    BY <1>4, <2>2, <2>3, <2>4
  <2>6. /\ Hash!Capacity(main[t])' = Hash!Capacity(h)'
        /\ Home(t, main[t])' = Home(t, h)'
        /\ Here(t, main[t])' = Here(t, h)'
    OBVIOUS
  <2>. HIDE DEF h
  <2>. QED
    BY <2>1, <2>4, <2>5, <2>6 DEF Passed
<1>10. \A g : g = main[t] => (Keyed(t, main[t])' <=> Keyed(t, g))
  BY <1>2, <1>8 DEF Keyed, Hash!tables
<1>11. CallIs(t)'
  BY <1>1, <1>2, <1>8, <1>9, <1>10
  DEF CallIs, Hash!InsideCount, Mine, Hash!NoProducer
<1>. QED
  BY <1>2, <1>5, <1>6, <1>7, <1>11, OwnStepKeeps

(* A free slot at the end of the path takes the key. *)
LEMMA HashPutDone ==
  ASSUME HashInv, NEW t \in Threads, NEW from \in {"copy", "insert"},
         Hash!Put(t, from), key[main[t]][Hash!At(main[t], index[t])] = None
  PROVE  HashInv'
<1>1. /\ HashTypes /\ TablesAre /\ OneResizes /\ CallIs(t) /\ CountIs
      /\ ListIs /\ \A h \in Tables : KeysAre(h)
      /\ \A u \in Threads : CallIs(u)
  BY DEF HashInv
<1>2. PICK m \in Tables : m = main[t] /\ m <= mainTable
  <2>1. main[t] \in 1 .. mainTable /\ mainTable \in 1 .. Len(key)
        /\ Len(key) \in Nat
    BY <1>1 DEF Hash!Put, CallIs, TablesAre, Tables, HashTypes
  <2>. QED
    BY <2>1 DEF Tables
<1>3. PICK i \in DOMAIN key[m] : i = Here(t, m)
  BY <1>1, HomeFacts
<1>4. /\ hashPc[t] = from /\ made[t] = Mine(t) /\ ~Keyed(t, m)
      /\ \A j \in Path(Hash!Capacity(m), Home(t, m), i) : key[m][j] # None
  <2>1. hashPc[t] = from
    BY DEF Hash!Put
  <2>2. made[t] = Mine(t) /\ ~Keyed(t, m) /\ Passed(t)
    BY <1>1, <1>2, <2>1 DEF CallIs, Hash!InsideCount, Anywhere
  <2>. QED
    BY <1>2, <1>3, <2>1, <2>2 DEF Passed
<1>5. /\ key' = [key EXCEPT ![m][i] = t]
      /\ value' = [value EXCEPT ![m][i] = Mine(t)]
      /\ Hash!Return(t, {Mine(t)}) /\ key[m][i] = None
      /\ UNCHANGED <<hashOf, prev, mainTable, count, resizing, Hash!list>>
  <2>1. i = Hash!At(main[t], index[t]) /\ m = main[t]
    BY <1>2, <1>3 DEF Here
  <2>. QED
    BY <1>4, <2>1 DEF Hash!Put
<1>6. Mine(t) \in Entries \X Nat /\ Mine(t) # Hash!NoProducer /\ t \in Entries
      /\ t # None
  BY MineIsTyped, NoneAssumption DEF Entries
<1>7. /\ key' \in Seq(Rows(Entries)) /\ Len(key') = Len(key)
      /\ \A h \in Tables :
            /\ DOMAIN key'[h] = DOMAIN key[h]
            /\ \A j \in DOMAIN key[h] :
                  key'[h][j] = IF h = m /\ j = i THEN t ELSE key[h][j]
  <2>1. key \in Seq(Rows(Entries)) /\ m \in 1 .. Len(key)
        /\ Tables = 1 .. Len(key)
    BY <1>1 DEF HashTypes, Tables
  <2>2. key' = [key EXCEPT ![m][i] = t] /\ i \in DOMAIN key[m] /\ t \in Entries
    BY <1>3, <1>5, <1>6
  <2>. QED
    BY ONLY <2>1, <2>2, RowsPut
<1>8. /\ value' \in Seq(Rows(Entries \X Nat)) /\ Len(value') = Len(value)
      /\ \A h \in Tables :
            /\ DOMAIN value'[h] = DOMAIN value[h]
            /\ \A j \in DOMAIN value[h] :
                  value'[h][j] = IF h = m /\ j = i THEN Mine(t)
                                 ELSE value[h][j]
  <2>1. m \in 1 .. Len(value) /\ i \in DOMAIN value[m]
        /\ Tables = 1 .. Len(value)
    BY <1>1, <1>3 DEF TablesAre, Tables
  <2>2. PICK S : S = Entries \X Nat
    OBVIOUS
  <2>3. value \in Seq(Rows(S)) /\ Mine(t) \in S
    BY <1>1, <1>6, <2>2 DEF HashTypes
  <2>4. value' = [value EXCEPT ![m][i] = Mine(t)]
    BY <1>5
  <2>5. /\ value' \in Seq(Rows(S)) /\ Len(value') = Len(value)
        /\ \A h \in Tables :
              /\ DOMAIN value'[h] = DOMAIN value[h]
              /\ \A j \in DOMAIN value[h] :
                    value'[h][j] = IF h = m /\ j = i THEN Mine(t)
                                   ELSE value[h][j]
    BY ONLY <2>1, <2>3, <2>4, RowsPut
  <2>. QED
    BY <2>2, <2>5
<1>9. {Mine(t)} \in SUBSET (Entries \X Nat)
  BY <1>3, <1>4, <1>5, <1>6
<1>10. /\ HashTypes' /\ OtherThreadsStay(t) /\ hashPc'[t] = "idle"
      /\ made'[t] = Hash!NoProducer /\ got'[t] = got[t] \union {Mine(t)}
  BY <1>1, <1>2, <1>3, <1>4, <1>5, <1>7, <1>8, <1>9, Returned DEF HashTypes
<1>11. /\ Tables' = Tables /\ \A h \in Tables :
             Hash!Capacity(h)' = Hash!Capacity(h)
      /\ TablesGrow(t)
  <2>1. Tables' = Tables
    BY <1>7 DEF Tables
  <2>2. \A h \in Tables : Hash!Capacity(h)' = Hash!Capacity(h)
    BY <1>7 DEF Hash!Capacity
  <2>3. \A h \in Tables : \A j \in DOMAIN key[h] :
            key'[h][j] = key[h][j] \/ (key[h][j] = None /\ key'[h][j] = t)
    BY <1>5, <1>7
  <2>4. Len(key) \in Nat
    BY <1>1 DEF HashTypes
  <2>. QED
    BY <1>2, <1>4, <1>5, <1>7, <2>1, <2>2, <2>3, <2>4 DEF TablesGrow
<1>12. TablesAre'
  BY <1>1, <1>2, <1>4, <1>5, <1>7, <1>8, <1>11 DEF TablesAre
<1>13. ASSUME NEW h \in Tables PROVE KeysAre(h)'
  <2>1. KeysAre(h)
    BY <1>1
  <2>2. h > mainTable' => \A j \in DOMAIN key'[h] : key'[h][j] = None
    <3>1. h > mainTable => h # m
      BY <1>1, <1>2 DEF HashTypes, Tables
    <3>. QED
      BY <1>2, <1>4, <1>5, <1>7, <2>1, <3>1 DEF KeysAre
  <2>3. ASSUME NEW j \in DOMAIN key'[h]
        PROVE  value'[h][j] = IF key'[h][j] = None THEN Hash!NoProducer
                              ELSE Mine(key'[h][j])
    <3>1. j \in DOMAIN key[h] /\ j \in DOMAIN value[h]
      BY <1>1, <1>7, <2>3 DEF TablesAre
    <3>. QED
      BY <1>6, <1>7, <1>8, <2>1, <3>1 DEF KeysAre
  <2>4. ASSUME NEW j \in DOMAIN key'[h], key'[h][j] # None,
               NEW k \in Path(Hash!Capacity(h), Home(key'[h][j], h), j)
        PROVE  key'[h][k] # None
    <3>1. j \in DOMAIN key[h]
      BY <1>7, <2>4
    <3>4. PICK u \in Entries : u = key'[h][j] /\ u # None
      <4>1. key[h] \in [0 .. (Hash!Capacity(h) - 1) -> Entries]
        BY <1>1, RowFacts
      <4>. QED
        BY <1>6, <1>7, <2>4, <3>1, <4>1
    <3>5. k \in Path(Hash!Capacity(h), Home(u, h), j)
      BY <2>4, <3>4
    <3>6. key[h][k] # None
      BY <1>3, <1>4, <1>5, <1>7, <2>1, <3>1, <3>4, <3>5 DEF KeysAre
    <3>7. u \in Threads
      BY <3>4 DEF Entries
    <3>8. k \in DOMAIN key[h]
      <4>1. /\ Hash!Capacity(h) \in Nat /\ Hash!Capacity(h) >= 2
            /\ DOMAIN key[h] = 0 .. (Hash!Capacity(h) - 1)
        BY <1>1, RowFacts
      <4>2. Home(u, h) \in 0 .. (Hash!Capacity(h) - 1)
        BY <1>1, <3>7, HomeFacts
      <4>3. Path(Hash!Capacity(h), Home(u, h), j) \subseteq DOMAIN key[h]
        BY <3>1, <4>1, <4>2, PathStep
      <4>. QED
        BY <3>5, <4>3
    <3>. QED
      BY <1>6, <1>7, <3>6, <3>8
  <2>5. ASSUME NEW j \in DOMAIN key'[h], NEW k \in DOMAIN key'[h],
               key'[h][j] = key'[h][k], key'[h][j] # None
        PROVE  j = k
    <3>1. j \in DOMAIN key[h] /\ k \in DOMAIN key[h]
      BY <1>7, <2>5
    <3>2. \A l \in DOMAIN key[m] : key[m][l] # t
      BY <1>4 DEF Keyed
    <3>. QED
      BY <1>7, <2>1, <2>5, <3>1, <3>2 DEF KeysAre
  <2>6. /\ Hash!Capacity(h)' = Hash!Capacity(h)
        /\ \A j : Home(key[h][j], h)' = Home(key'[h][j], h)
    BY <1>5, <1>11 DEF Home, Hash!At
  <2>. QED
    BY <2>2, <2>3, <2>4, <2>5, <2>6 DEF KeysAre
<1>14. Keyed(t, m)' /\ Anywhere(t)'
  <2>1. ASSUME NEW h \in Tables, h = m PROVE Keyed(t, h)'
    BY <1>3, <1>4, <1>5, <1>7, <2>1 DEF Keyed
  <2>. QED
    BY <1>3, <1>4, <1>5, <1>11, <2>1 DEF Anywhere, Keyed
<1>15. hashPc[t] \notin Locking /\ hashPc'[t] \notin Locking
       /\ hashPc[t] # "link" /\ hashPc'[t] # "link"
  BY <1>2, <1>4, <1>5, <1>10 DEF Locking
<1>16. OneResizes' /\ ListIs'
  BY <1>1, <1>2, <1>4, <1>5, <1>7, <1>10, <1>15, LocksStay, ListStays
  DEF Hash!list
<1>17. Hash!Producers' = Hash!Producers /\ Mine(t) \in Hash!Producers
  BY <1>1, <1>4, <1>5 DEF Hash!Producers, CallIs, Anywhere, Hash!list
<1>18. CallIs(t)'
  <2>1. got'[t] \subseteq got[t] \union {Mine(t)}
    BY <1>10
  <2>2. Mine(t) \in Hash!Producers' <=> Anywhere(t)'
    BY <1>14, <1>17
  <2>. QED
    <3>1. /\ HashTypes /\ CallIs(t) /\ hashPc'[t] = "idle"
          /\ made'[t] = Hash!NoProducer /\ (got'[t] # {} => Anywhere(t)')
      BY <1>1, <1>10, <1>14
    <3>. QED
      BY <2>1, <2>2, <3>1, ReturnedCall
<1>19. ASSUME NEW u \in Threads, u # t PROVE CallIs(u)'
  <2>1. mainTable \in Tables /\ mainTable' = mainTable /\ mainTable \in Nat
    BY <1>1, <1>5 DEF TablesAre, HashTypes
  <2>. QED
    BY <1>1, <1>10, <1>11, <1>17, <1>19, <2>1, OtherCalls
<1>20. CountIs'
  <2>1. t \in CountedThreads' /\ t \in CountedThreads
    BY <1>1, <1>2, <1>4, <1>5, <1>14
    DEF CountedThreads, CallIs, Anywhere, Hash!InsideCount
  <2>2. ASSUME NEW h \in Tables, NEW n \in Nat, t \in Within(h, n)'
        PROVE  t \in Within(h, n)
    <3>1. PICK g \in Tables : g <= h /\ Keyed(t, g)'
      BY <1>10, <1>11, <2>2 DEF Within, Hash!InsideCount
    <3>2. CASE g # m
      <4>1. Keyed(t, g)
        BY <1>7, <3>1, <3>2 DEF Keyed
      <4>. QED
        BY <3>1, <4>1 DEF Within
    <3>3. CASE g = m /\ from = "copy"
      <4>1. PICK f \in Tables : f < m /\ Keyed(t, f)
        BY <1>1, <1>2, <1>4, <1>5, <3>3 DEF CallIs
      <4>2. f <= h
        BY <3>1, <3>3, <4>1 DEF Tables
      <4>. QED
        BY <4>1, <4>2 DEF Within
    <3>4. CASE g = m /\ from = "insert"
      BY <1>2, <1>4, <1>5, <3>1, <3>4 DEF Within
    <3>. QED
      BY <3>2, <3>3, <3>4
  <2>. QED
    BY <1>1, <1>2, <1>4, <1>5, <1>7, <1>10, <1>11, <2>1, <2>2, CountStays
<1>. QED
  BY <1>10, <1>11, <1>12, <1>13, <1>16, <1>18, <1>19, <1>20 DEF HashInv

-----------------------------------------------------------------------------
(* The count and the lock *)

LEMMA HashCount ==
  ASSUME HashInv, NEW t \in Threads, Hash!Count(t)
  PROVE  HashInv'
<1>1. HashTypes /\ TablesAre /\ OneResizes /\ CallIs(t) /\ CountIs
  BY DEF HashInv
<1>2. /\ hashPc[t] = "count"
      /\ UNCHANGED <<hashOf, Hash!tables, mainTable, resizing, Hash!list, main,
                     table,
                     index, made, got>>
  BY DEF Hash!Count
<1>3. count = Cardinality(CountedThreads) /\ count \in Nat
  BY <1>1, WithinIsFinite DEF CountIs
<1>4. HashTypes' /\ OtherThreadsStay(t) /\ hashPc'[t] = "test"
      /\ newCount'[t] = count + 1 /\ count' = count + 1
  <2>1. /\ newCount' = [newCount EXCEPT ![t] = count + 1]
        /\ hashPc' = [hashPc EXCEPT ![t] = "test"] /\ count' = count + 1
    BY DEF Hash!Count, Hash!Goto
  <2>2. PICK n \in Nat : n = count + 1
    BY <1>3
  <2>. QED
    BY <1>1, <1>2, <2>1, <2>2
    DEF HashTypes, HashPc, OtherThreadsStay, Hash!tables
<1>5. OneResizes'
  BY <1>1, <1>2, <1>4, LocksStay DEF Locking, Hash!tables
<1>6. /\ Hash!Producers' = Hash!Producers /\ (Anywhere(t)' <=> Anywhere(t))
      /\ TablesGrow(t) /\ Tables' = Tables
      /\ \A h : Keyed(t, h)' <=> Keyed(t, h)
  BY <1>2, <1>4, OwnStep
<1>7. CallIs(t)'
  BY <1>1, <1>2, <1>4, <1>6 DEF CallIs, Hash!InsideCount, Mine, Hash!NoProducer
<1>8. t \notin CountedThreads
  BY <1>1, <1>2 DEF CallIs, CountedThreads, Hash!InsideCount
<1>9. CountedThreads' = CountedThreads \union {t}
  <2>1. \A u \in Threads : u # t
            => (u \in CountedThreads' <=> u \in CountedThreads)
    BY <1>1, <1>4, <1>6, OthersWithin
  <2>2. CountedThreads \subseteq Threads /\ CountedThreads' \subseteq Threads
    BY DEF CountedThreads
  <2>3. t \in CountedThreads'
    BY <1>4 DEF CountedThreads, Hash!InsideCount
  <2>. QED
    BY <2>1, <2>2, <2>3
<1>10. Cardinality(CountedThreads \union {t}) = count + 1
       /\ IsFiniteSet(CountedThreads \union {t})
  BY <1>3, <1>8, WithinIsFinite, FS_AddElement
<1>11. ASSUME NEW h \in Tables', NEW n \in Nat,
              n + 1 >= Hash!ThreeQuarters(Hash!Capacity(h))'
       PROVE  Cardinality(Within(h, n))' <= n
  <2>1. CASE t \in Within(h, n)' => t \in Within(h, n)
    BY <1>1, <1>4, <1>6, <1>11, <2>1, WithinStays
  <2>2. CASE t \in Within(h, n)' /\ t \notin Within(h, n)
    <3>1. count + 1 <= n
      BY <1>4, <1>6, <2>2 DEF Within
    <3>2. Within(h, n)' \subseteq CountedThreads'
      BY DEF Within, CountedThreads, Anywhere, Hash!InsideCount
    <3>3. Cardinality(Within(h, n)') <= count + 1
      BY <1>9, <1>10, <3>2, FS_Subset
    <3>4. Cardinality(Within(h, n)') \in Nat
      BY <1>9, <1>10, <3>2, FS_Subset, FS_CardinalityType
    <3>. QED
      BY <1>3, <3>1, <3>3, <3>4
  <2>. QED
    BY <2>1, <2>2
<1>12. CountIs'
  BY <1>4, <1>9, <1>10, <1>11 DEF CountIs
<1>. QED
  BY <1>2, <1>4, <1>5, <1>7, <1>12, OwnStepKeeps

LEMMA HashTest ==
  ASSUME HashInv, NEW t \in Threads, Hash!Test(t)
  PROVE  HashInv'
<1>1. HashTypes /\ OneResizes /\ CallIs(t)
  BY DEF HashInv
<1>2. /\ hashPc[t] = "test"
      /\ UNCHANGED <<hashOf, Hash!tables, mainTable, count, Hash!list, main,
                     table,
                     index, newCount, made, got>>
  BY DEF Hash!Test, Hash!locals
<1>3. \/ /\ ~resizing /\ resizing' = TRUE
         /\ hashPc' = [hashPc EXCEPT ![t] = "resize"]
      \/ /\ resizing' = resizing
         /\ hashPc' = [hashPc EXCEPT ![t] = "check"]
  BY DEF Hash!Test, Hash!Goto
<1>4. HashTypes' /\ OtherThreadsStay(t) /\ hashPc'[t] \in {"resize", "check"}
  BY <1>1, <1>2, <1>3 DEF HashTypes, HashPc, OtherThreadsStay, Hash!tables
<1>5. OneResizes'
  <2>1. CASE hashPc' = [hashPc EXCEPT ![t] = "check"] /\ resizing' = resizing
    BY <1>1, <1>2, <1>4, <2>1, LocksStay DEF Locking, Hash!tables, HashTypes
  <2>2. CASE /\ ~resizing /\ resizing' = TRUE
             /\ hashPc' = [hashPc EXCEPT ![t] = "resize"]
    <3>1. \A u \in Threads : hashPc[u] \notin Locking /\ hashPc[u] # "store"
      BY <1>1, <2>2 DEF OneResizes, Locking
    <3>2. hashPc'[t] = "resize" /\ \A u \in Threads : u # t
              => hashPc'[u] = hashPc[u]
      BY <1>1, <2>2 DEF HashTypes
    <3>3. mainTable' = Len(key')
      BY <1>1, <1>2, <3>1 DEF OneResizes, Hash!tables
    <3>. QED
      BY <2>2, <3>1, <3>2, <3>3 DEF OneResizes
  <2>. QED
    BY <1>3, <2>1, <2>2
<1>6. /\ Hash!Producers' = Hash!Producers /\ (Anywhere(t)' <=> Anywhere(t))
  BY <1>2, <1>4, OwnStep
<1>7. CallIs(t)'
  BY <1>1, <1>2, <1>4, <1>6 DEF CallIs, Hash!InsideCount, Mine, Hash!NoProducer
<1>8. CountIs'
  BY <1>2, <1>4, OwnCount DEF Hash!InsideCount, Hash!tables
<1>. QED
  BY <1>2, <1>4, <1>5, <1>7, <1>8, OwnStepKeeps

LEMMA HashResizeFails ==
  ASSUME HashInv, NEW t \in Threads, Hash!ResizeFails(t)
  PROVE  HashInv'
<1>1. HashTypes /\ OneResizes /\ CallIs(t) /\ CountIs
  BY DEF HashInv
<1>2. /\ hashPc[t] = "resize" /\ count' = count - 1
      /\ hashPc' = [hashPc EXCEPT ![t] = "giveUp"]
      /\ UNCHANGED <<hashOf, Hash!tables, mainTable, resizing, Hash!list, main,
                     table,
                     index, newCount, made, got>>
  BY DEF Hash!ResizeFails, Hash!Goto, Hash!locals
<1>3. HashTypes' /\ OtherThreadsStay(t) /\ hashPc'[t] = "giveUp"
  BY <1>1, <1>2 DEF HashTypes, HashPc, OtherThreadsStay, Hash!tables
<1>4. OneResizes'
  BY <1>1, <1>2, <1>3, LockHeld DEF Locking, Hash!tables
<1>5. /\ Hash!Producers' = Hash!Producers /\ (Anywhere(t)' <=> Anywhere(t))
  BY <1>2, <1>3, OwnStep
<1>6. CallIs(t)'
  BY <1>1, <1>2, <1>3, <1>5 DEF CallIs, Hash!InsideCount, Mine, Hash!NoProducer
<1>7. CountIs'
  <2>1. t \in CountedThreads /\ t \notin CountedThreads'
    BY <1>1, <1>2, <1>3, <1>5 DEF CountedThreads, CallIs, Hash!InsideCount
  <2>. QED
    BY <1>1, <1>2, <1>3, <2>1, CountGivenBack DEF Hash!tables
<1>. QED
  BY <1>2, <1>3, <1>4, <1>6, <1>7, OwnStepKeeps

LEMMA NothingReturned ==
  ASSUME HashInv, NEW t \in Threads, Hash!Return(t, {}),
         UNCHANGED <<hashOf, Hash!tables, mainTable,
                     Hash!list>>, resizing' \in BOOLEAN,
         hashPc[t] # "link"
  PROVE  /\ HashTypes' /\ OtherThreadsStay(t) /\ hashPc'[t] = "idle"
         /\ ~Anywhere(t) /\ Mine(t) \notin Hash!Producers
              => CallIs(t)' /\ t \notin CountedThreads'
<1>1. HashTypes /\ CallIs(t)
  BY DEF HashInv
<1>2. {} \in SUBSET (Entries \X Nat)
  OBVIOUS
<1>3. HashTypes' /\ OtherThreadsStay(t) /\ hashPc'[t] = "idle"
      /\ made'[t] = Hash!NoProducer /\ got'[t] = got[t] \union {}
  BY <1>1, <1>2, Returned DEF HashTypes, Hash!tables
<1>4. /\ Hash!Producers' = Hash!Producers /\ (Anywhere(t)' <=> Anywhere(t))
  BY <1>3, OwnStep
<1>5. ASSUME ~Anywhere(t), Mine(t) \notin Hash!Producers
      PROVE  CallIs(t)' /\ t \notin CountedThreads'
  <2>1. got'[t] \subseteq got[t] \union {Mine(t)}
        /\ (got'[t] # {} => Anywhere(t)')
    BY <1>1, <1>3, <1>4, <1>5 DEF CallIs
  <2>2. Mine(t) \in Hash!Producers' <=> Anywhere(t)'
    BY <1>4, <1>5
  <2>3. CallIs(t)'
    BY <1>1, <1>3, <2>1, <2>2, ReturnedCall
  <2>4. t \notin CountedThreads'
    BY <1>3, <1>4, <1>5 DEF CountedThreads, Hash!InsideCount
  <2>. QED
    BY <2>3, <2>4
<1>. QED
  BY <1>3, <1>5

LEMMA HashGiveUp ==
  ASSUME HashInv, NEW t \in Threads, Hash!GiveUp(t)
  PROVE  HashInv'
<1>1. HashTypes /\ OneResizes /\ CallIs(t) /\ CountIs
  BY DEF HashInv
<1>2. /\ hashPc[t] = "giveUp" /\ Hash!Return(t, {}) /\ resizing' = FALSE
      /\ UNCHANGED <<hashOf, Hash!tables, mainTable, count, Hash!list>>
  BY DEF Hash!GiveUp
<1>3. ~Anywhere(t) /\ Mine(t) \notin Hash!Producers
  BY <1>1, <1>2 DEF CallIs
<1>4. HashTypes' /\ OtherThreadsStay(t) /\ hashPc'[t] = "idle" /\ CallIs(t)'
      /\ t \notin CountedThreads'
  BY <1>2, <1>3, NothingReturned
<1>5. OneResizes'
  BY <1>1, <1>2, <1>4, LockReleased DEF Locking, Hash!tables
<1>6. CountIs'
  BY <1>2, <1>4, OwnCount DEF Hash!InsideCount, Hash!tables
<1>. QED
  BY <1>2, <1>4, <1>5, <1>6, OwnStepKeeps

LEMMA HashCreateFails ==
  ASSUME HashInv, NEW t \in Threads, Hash!CreateFails(t)
  PROVE  HashInv'
<1>1. HashTypes /\ OneResizes /\ CallIs(t) /\ CountIs
  BY DEF HashInv
<1>2. /\ hashPc[t] = "check" /\ Hash!Return(t, {}) /\ count' = count - 1
      /\ UNCHANGED <<hashOf, Hash!tables, mainTable, resizing, Hash!list>>
  BY DEF Hash!CreateFails
<1>3. ~Anywhere(t) /\ Mine(t) \notin Hash!Producers
  BY <1>1, <1>2 DEF CallIs, Hash!InsideCount
<1>4. HashTypes' /\ OtherThreadsStay(t) /\ hashPc'[t] = "idle" /\ CallIs(t)'
      /\ t \notin CountedThreads'
  BY <1>1, <1>2, <1>3, NothingReturned DEF HashTypes
<1>5. OneResizes'
  BY <1>1, <1>2, <1>4, LocksStay DEF Locking, Hash!tables
<1>6. CountIs'
  <2>1. t \in CountedThreads
    BY <1>2 DEF CountedThreads, Hash!InsideCount
  <2>. QED
    BY <1>1, <1>2, <1>4, <2>1, CountGivenBack DEF Hash!tables
<1>. QED
  BY <1>2, <1>4, <1>5, <1>6, OwnStepKeeps

LEMMA HashClear ==
  ASSUME HashInv, NEW t \in Threads, Hash!Clear(t)
  PROVE  HashInv'
<1>1. HashTypes /\ TablesAre /\ OneResizes /\ CallIs(t)
  BY DEF HashInv
<1>2. /\ hashPc[t] = "clear" /\ resizing' = FALSE
      /\ main' = [main EXCEPT ![t] = mainTable]
      /\ hashPc' = [hashPc EXCEPT ![t] = "check"]
      /\ UNCHANGED <<hashOf, Hash!tables, mainTable, count, Hash!list, table,
                     index,
                     newCount, made, got>>
  BY DEF Hash!Clear, Hash!Goto
<1>3. mainTable \in Nat /\ mainTable \in 1 .. mainTable
  BY <1>1 DEF HashTypes, TablesAre, Tables
<1>4. HashTypes' /\ OtherThreadsStay(t) /\ hashPc'[t] = "check" /\ main'[t]
          = mainTable
  BY <1>1, <1>2, <1>3 DEF HashTypes, HashPc, OtherThreadsStay, Hash!tables
<1>5. OneResizes'
  BY <1>1, <1>2, <1>4, LockReleased DEF Locking, Hash!tables
<1>6. /\ Hash!Producers' = Hash!Producers /\ (Anywhere(t)' <=> Anywhere(t))
  BY <1>2, <1>4, OwnStep
<1>7. CallIs(t)'
  BY <1>1, <1>2, <1>3, <1>4, <1>6
  DEF CallIs, Hash!InsideCount, Mine, Hash!NoProducer
<1>8. CountIs'
  BY <1>2, <1>4, OwnCount DEF Hash!InsideCount, Hash!tables
<1>. QED
  BY <1>2, <1>4, <1>5, <1>7, <1>8, OwnStepKeeps

LEMMA HashWaitForTable ==
  ASSUME HashInv, NEW t \in Threads, Hash!WaitForTable(t)
  PROVE  HashInv'
<1>1. HashTypes /\ TablesAre /\ OneResizes /\ CallIs(t)
  BY DEF HashInv
<1>2. /\ hashPc[t] = "check"
      /\ main' = [main EXCEPT ![t] = mainTable]
      /\ hashPc' = [hashPc EXCEPT ![t] = "test"]
      /\ UNCHANGED <<hashOf, Hash!tables, mainTable, count, resizing, Hash!list,
                     table,
                     index, newCount, made, got>>
  BY DEF Hash!WaitForTable, Hash!Goto
<1>3. mainTable \in Nat /\ mainTable \in 1 .. mainTable
  BY <1>1 DEF HashTypes, TablesAre, Tables
<1>4. HashTypes' /\ OtherThreadsStay(t) /\ hashPc'[t] = "test" /\ main'[t]
          = mainTable
  BY <1>1, <1>2, <1>3 DEF HashTypes, HashPc, OtherThreadsStay, Hash!tables
<1>5. OneResizes'
  BY <1>1, <1>2, <1>4, LocksStay DEF Locking, Hash!tables
<1>6. /\ Hash!Producers' = Hash!Producers /\ (Anywhere(t)' <=> Anywhere(t))
  BY <1>2, <1>4, OwnStep
<1>7. CallIs(t)'
  BY <1>1, <1>2, <1>3, <1>4, <1>6
  DEF CallIs, Hash!InsideCount, Mine, Hash!NoProducer
<1>8. CountIs'
  BY <1>2, <1>4, OwnCount DEF Hash!InsideCount, Hash!tables
<1>. QED
  BY <1>2, <1>4, <1>5, <1>7, <1>8, OwnStepKeeps

LEMMA HashResizeNeedless ==
  ASSUME HashInv, NEW t \in Threads, Hash!Resize(t), ~Hash!Fuller(t, mainTable)
  PROVE  HashInv'
<1>1. HashTypes /\ TablesAre /\ OneResizes /\ CallIs(t)
  BY DEF HashInv
<1>2. /\ hashPc[t] = "resize"
      /\ main' = [main EXCEPT ![t] = mainTable]
      /\ hashPc' = [hashPc EXCEPT ![t] = "clear"]
      /\ UNCHANGED <<hashOf, Hash!tables, mainTable, count, resizing, Hash!list,
                     table,
                     index, newCount, made, got>>
  BY DEF Hash!Resize, Hash!Goto
<1>3. mainTable \in Nat /\ mainTable \in 1 .. mainTable
  BY <1>1 DEF HashTypes, TablesAre, Tables
<1>4. HashTypes' /\ OtherThreadsStay(t) /\ hashPc'[t] = "clear" /\ main'[t]
          = mainTable
  BY <1>1, <1>2, <1>3 DEF HashTypes, HashPc, OtherThreadsStay, Hash!tables
<1>5. OneResizes'
  BY <1>1, <1>2, <1>4, LockHeld DEF Locking, Hash!tables
<1>6. /\ Hash!Producers' = Hash!Producers /\ (Anywhere(t)' <=> Anywhere(t))
  BY <1>2, <1>4, OwnStep
<1>7. CallIs(t)'
  BY <1>1, <1>2, <1>3, <1>4, <1>6
  DEF CallIs, Hash!InsideCount, Mine, Hash!NoProducer
<1>8. CountIs'
  BY <1>2, <1>4, OwnCount DEF Hash!InsideCount, Hash!tables
<1>. QED
  BY <1>2, <1>4, <1>5, <1>7, <1>8, OwnStepKeeps

-----------------------------------------------------------------------------
(* A larger table *)

LEMMA HashStoreTable ==
  ASSUME HashInv, NEW t \in Threads, Hash!StoreTable(t)
  PROVE  HashInv'
<1>1. /\ HashTypes /\ TablesAre /\ OneResizes /\ CallIs(t) /\ ListIs
      /\ \A h \in Tables : KeysAre(h)
      /\ \A u \in Threads : CallIs(u)
  BY DEF HashInv
<1>2. /\ hashPc[t] = "store" /\ mainTable' = table[t]
      /\ hashPc' = [hashPc EXCEPT ![t] = "clear"]
      /\ UNCHANGED <<hashOf, key, value, prev, count, resizing, producerNext,
                     tail,
                     main, table, index, newCount, made, got>>
  BY DEF Hash!StoreTable, Hash!Goto, Hash!tables, Hash!list, Hash!locals
<1>3. /\ mainTable \in Tables /\ mainTable \in Nat
      /\ table[t] = Len(key) /\ Len(key) = mainTable + 1
      /\ mainTable' = Len(key) /\ mainTable' \in Nat /\ mainTable' \in Tables
      /\ mainTable <= mainTable'
  <2>1. mainTable \in Tables /\ mainTable \in Nat
    BY <1>1 DEF HashTypes, TablesAre
  <2>2. table[t] = Len(key) /\ Len(key) = mainTable + 1
    BY <1>1, <1>2 DEF OneResizes
  <2>. QED
    BY <1>2, <2>1, <2>2 DEF Tables
<1>4. HashTypes' /\ OtherThreadsStay(t) /\ hashPc'[t] = "clear"
  BY <1>1, <1>2, <1>3 DEF HashTypes, HashPc, OtherThreadsStay
<1>5. TablesAre' /\ \A h \in Tables' : KeysAre(h)'
  BY <1>1, <1>2, <1>3, SameKeys
<1>6. OneResizes'
  <2>1. \A u \in Threads : u # t
            => hashPc[u] \notin Locking /\ hashPc'[u] = hashPc[u]
    BY <1>1, <1>2, <1>4 DEF OneResizes, Locking, OtherThreadsStay
  <2>2. hashPc[t] \in Locking /\ resizing'
    BY <1>1, <1>2 DEF OneResizes, Locking
  <2>3. \A u \in Threads :
            hashPc'[u] # "store" /\ (hashPc'[u] \in Locking => u = t)
    BY <1>4, <2>1 DEF Locking
  <2>. QED
    BY <1>2, <1>3, <2>2, <2>3 DEF OneResizes
<1>7. ListIs'
  BY <1>1, <1>2, <1>4, ListStays
<1>8. /\ TablesGrow(t) /\ Hash!Producers' = Hash!Producers
      /\ (Anywhere(t)' <=> Anywhere(t))
  BY <1>1, <1>2, SameTables DEF Hash!Producers, Anywhere, Keyed, Tables
<1>9. ASSUME NEW u \in Threads, u # t PROVE CallIs(u)'
  BY <1>1, <1>3, <1>4, <1>8, <1>9, OtherCalls
<1>10. CallIs(t)'
  <2>1. main[t] \in 1 .. mainTable'
    BY <1>1, <1>2, <1>3 DEF CallIs, HashTypes
  <2>. QED
    BY <1>1, <1>2, <1>4, <1>8, <2>1
    DEF CallIs, Hash!InsideCount, Mine, Hash!NoProducer
<1>11. CountIs'
  BY <1>2, <1>4, OwnCount DEF Hash!InsideCount
<1>. QED
  BY <1>4, <1>5, <1>6, <1>7, <1>9, <1>10, <1>11 DEF HashInv

LEMMA HashResize ==
  ASSUME HashInv, NEW t \in Threads, Hash!Resize(t), Hash!Fuller(t, mainTable)
  PROVE  HashInv'
<1>1. /\ HashTypes /\ TablesAre /\ OneResizes /\ CallIs(t) /\ ListIs
      /\ CountIs /\ \A h \in Tables : KeysAre(h)
      /\ \A u \in Threads : CallIs(u)
  BY DEF HashInv
<1>2. hashPc[t] = "resize" /\ mainTable = Len(key) /\ mainTable \in Tables
      /\ mainTable \in Nat
  BY <1>1, MainIsLast DEF Hash!Resize, Locking, TablesAre, HashTypes
<1>3. PICK last \in Tables : last = mainTable /\ last \in Nat
  BY <1>2
<1>4. Hash!Capacity(last) \in Nat /\ Hash!Capacity(last) >= 2
  BY <1>1, RowFacts
<1>5. PICK c \in Nat \ {0, 1} :
         c = Hash!NewCapacity(newCount[t], Hash!Capacity(last))
             /\ c >= Hash!Capacity(last)
  <2>1. newCount[t] \in Nat /\ newCount[t] >= Hash!Half(Hash!Capacity(last))
    BY <1>1, <1>3 DEF HashTypes, Hash!Resize, Hash!Fuller
  <2>. QED
    BY <1>4, <2>1, NewCapacityGrows
<1>6. /\ key' = Append(key, Hash!Empty(c)) /\ value'
            = Append(value, Hash!NoValues(c))
      /\ prev' = Append(prev, last)
      /\ main' = [main EXCEPT ![t] = last]
      /\ table' = [table EXCEPT ![t] = last + 1]
      /\ hashPc' = [hashPc EXCEPT ![t] = "store"]
      /\ UNCHANGED <<hashOf, mainTable, count, resizing, producerNext, tail,
                     index,
                     newCount, made, got>>
  BY <1>2, <1>3, <1>5 DEF Hash!Resize, Hash!Goto, Hash!list
<1>7. /\ key' \in Seq(Rows(Entries)) /\ Len(key') = last + 1
      /\ \A h \in Tables : key'[h] = key[h]
      /\ key'[last + 1] = Hash!Empty(c)
  <2>1. Hash!Empty(c) \in [0 .. (c - 1) -> Entries]
    BY DEF Hash!Empty, Entries
  <2>2. key \in Seq(Rows(Entries)) /\ Tables = 1 .. Len(key) /\ Len(key) = last
    BY <1>1, <1>2, <1>3 DEF HashTypes, Tables
  <2>3. key' = Append(key, Hash!Empty(c)) /\ c \in Nat \ {0, 1}
    BY <1>5, <1>6
  <2>. QED
    BY ONLY <2>1, <2>2, <2>3, RowsAppended
<1>8. /\ value' \in Seq(Rows(Entries \X Nat)) /\ Len(value') = last + 1
      /\ \A h \in Tables : value'[h] = value[h]
      /\ value'[last + 1] = Hash!NoValues(c)
  <2>1. PICK S : S = Entries \X Nat
    OBVIOUS
  <2>2. Hash!NoValues(c) \in [0 .. (c - 1) -> S]
    <3>1. Hash!NoProducer \in S
      BY <2>1, MineIsTyped
    <3>. QED
      BY <3>1 DEF Hash!NoValues
  <2>3. value \in Seq(Rows(S)) /\ Tables = 1 .. Len(value)
        /\ Len(value) = last
    BY <1>1, <1>2, <1>3, <2>1 DEF HashTypes, Tables, TablesAre
  <2>4. value' = Append(value, Hash!NoValues(c)) /\ c \in Nat \ {0, 1}
    BY <1>5, <1>6
  <2>5. PICK row : row = Hash!NoValues(c)
    OBVIOUS
  <2>6. row \in [0 .. (c - 1) -> S] /\ value' = Append(value, row)
    BY <2>2, <2>4, <2>5
  <2>7. /\ value' \in Seq(Rows(S)) /\ Len(value') = Len(value) + 1
        /\ \A h \in 1 .. Len(value) : value'[h] = value[h]
        /\ value'[Len(value) + 1] = row
    BY ONLY <2>3, <2>4, <2>6, RowsAppended
  <2>8. /\ value' \in Seq(Rows(S)) /\ Len(value') = last + 1
        /\ \A h \in Tables : value'[h] = value[h]
        /\ value'[last + 1] = Hash!NoValues(c)
    BY ONLY <2>3, <2>5, <2>7
  <2>. QED
    BY <2>1, <2>8
<1>9. /\ prev' \in Seq(Nat) /\ Len(prev') = last + 1
      /\ \A h \in Tables : prev'[h] = prev[h]
      /\ prev'[last + 1] = last
  <2>1. prev \in Seq(Nat) /\ Len(prev) = last /\ Tables = 1 .. last
    BY <1>1, <1>2, <1>3 DEF HashTypes, TablesAre, Tables
  <2>. QED
    BY <1>3, <1>6, <2>1
<1>10. /\ Tables = 1 .. last /\ Tables' = 1 .. (last + 1)
       /\ last + 1 \notin Tables
       /\ \A h \in Tables' : h \in Tables \/ h = last + 1
  BY <1>2, <1>3, <1>7 DEF Tables
<1>11. /\ \A h \in Tables : Hash!Capacity(h)' = Hash!Capacity(h)
       /\ Hash!Capacity(last + 1)' = c
       /\ DOMAIN key'[last + 1] = 0 .. (c - 1)
       /\ DOMAIN value'[last + 1] = 0 .. (c - 1)
       /\ \A i \in DOMAIN key'[last + 1] :
             key'[last + 1][i] = None /\ value'[last + 1][i] = Hash!NoProducer
  <2>1. \A h \in Tables : Hash!Capacity(h)' = Hash!Capacity(h)
    BY <1>7 DEF Hash!Capacity
  <2>2. DOMAIN key'[last + 1] = 0 .. (c - 1)
        /\ \A i \in DOMAIN key'[last + 1] : key'[last + 1][i] = None
    BY <1>7 DEF Hash!Empty
  <2>3. DOMAIN value'[last + 1] = 0 .. (c - 1)
        /\ \A i \in DOMAIN value'[last + 1] :
              value'[last + 1][i] = Hash!NoProducer
    BY <1>8 DEF Hash!NoValues
  <2>4. Cardinality(0 .. (c - 1)) = c
    BY <1>5, FS_Interval
  <2>5. Hash!Capacity(last + 1)' = c
    BY <1>3, <1>6, <2>2, <2>4, SameCardinality DEF Hash!Capacity
  <2>. QED
    BY <2>1, <2>2, <2>3, <2>5
<1>12. HashTypes' /\ OtherThreadsStay(t) /\ hashPc'[t] = "store"
       /\ table'[t] = last + 1 /\ main'[t] = last
  <2>1. last + 1 \in Nat /\ last \in Nat
    BY <1>3
  <2>. QED
    BY <1>1, <1>6, <1>7, <1>8, <1>9, <2>1
    DEF HashTypes, HashPc, OtherThreadsStay
<1>13. TablesGrow(t)
  <2>1. Len(key) <= Len(key')
    BY <1>2, <1>3, <1>7
  <2>. QED
    BY <1>6, <1>7, <1>10, <1>11, <2>1 DEF TablesGrow
<1>14. TablesAre'
  <2>1. mainTable' \in Tables'
    BY <1>2, <1>3, <1>6, <1>10
  <2>2. ASSUME NEW h \in Tables'
        PROVE  DOMAIN value'[h] = DOMAIN key'[h] /\ prev'[h] = h - 1
    <3>1. CASE h \in Tables
      BY <1>1, <1>7, <1>8, <1>9, <3>1 DEF TablesAre
    <3>2. CASE h = last + 1
      BY <1>3, <1>9, <1>11, <3>2
    <3>. QED
      BY <1>10, <3>1, <3>2
  <2>3. ASSUME NEW g \in Tables', NEW h \in Tables', g <= h
        PROVE  Hash!Capacity(g)' <= Hash!Capacity(h)'
    <3>1. CASE h \in Tables
      <4>1. g \in Tables
        BY <1>3, <1>10, <2>3, <3>1
      <4>. QED
        BY <1>1, <1>11, <2>3, <3>1, <4>1 DEF TablesAre
    <3>2. CASE h = last + 1 /\ g \in Tables
      <4>1. Hash!Capacity(g) \in Nat
        BY <1>1, <3>2, RowFacts
      <4>2. Hash!Capacity(g) <= Hash!Capacity(last)
        <5>1. g <= last
          BY <1>10, <3>2
        <5>. QED
          BY <1>1, <1>3, <3>2, <5>1 DEF TablesAre
      <4>3. Hash!Capacity(g)' = Hash!Capacity(g) /\ Hash!Capacity(h)' = c
        BY <1>11, <3>2
      <4>. QED
        BY <1>4, <1>5, <4>1, <4>2, <4>3
    <3>3. CASE h = last + 1 /\ g = last + 1
      BY <1>5, <1>11, <3>3
    <3>. QED
      BY <1>10, <3>1, <3>2, <3>3
  <2>4. Len(value') = Len(key') /\ Len(prev') = Len(key')
    BY <1>7, <1>8, <1>9
  <2>. QED
    BY <2>1, <2>2, <2>3, <2>4 DEF TablesAre
<1>15. ASSUME NEW h \in Tables' PROVE KeysAre(h)'
  <2>1. CASE h \in Tables
    <3>1. KeysAre(h)
      BY <1>1, <2>1
    <3>2. /\ key'[h] = key[h] /\ value'[h] = value[h]
          /\ mainTable' = mainTable /\ Hash!Capacity(h)' = Hash!Capacity(h)
          /\ \A u : Home(u, h)' = Home(u, h)
      BY <1>6, <1>7, <1>8, <1>11, <2>1 DEF Home, Hash!At
    <3>. QED
      BY <3>1, <3>2 DEF KeysAre, Mine, Hash!NoProducer
  <2>2. CASE h = last + 1
    <3>1. \A i \in DOMAIN key'[h] :
              key'[h][i] = None /\ value'[h][i] = Hash!NoProducer
      BY <1>11, <2>2
    <3>. QED
      BY <3>1 DEF KeysAre, Hash!NoProducer
  <2>. QED
    BY <1>10, <2>1, <2>2
<1>16. OneResizes'
  <2>1. \A u \in Threads : u # t
            => hashPc[u] \notin Locking /\ hashPc'[u] = hashPc[u]
    BY <1>1, <1>2, <1>12 DEF OneResizes, Locking, OtherThreadsStay
  <2>2. resizing' /\ mainTable' = last
    BY <1>1, <1>2, <1>3, <1>6 DEF OneResizes, Locking
  <2>3. \A u \in Threads : (hashPc'[u] = "store" => u = t)
                           /\ (hashPc'[u] \in Locking => u = t)
    BY <2>1 DEF Locking
  <2>. QED
    BY <1>7, <1>12, <2>2, <2>3 DEF OneResizes
<1>17. ListIs'
  BY <1>1, <1>2, <1>6, <1>12, ListStays
<1>18. /\ Hash!Producers' = Hash!Producers
       /\ \A u \in Threads : \A h \in Tables' :
              Keyed(u, h)' <=> h \in Tables /\ Keyed(u, h)
  <2>1. \A u \in Threads : \A h \in Tables : Keyed(u, h)' <=> Keyed(u, h)
    BY <1>7 DEF Keyed
  <2>2. \A u \in Threads : ~Keyed(u, last + 1)'
    BY <1>3, <1>6, <1>11, NoneAssumption DEF Keyed
  <2>. QED
    BY <1>6, <1>10, <2>1, <2>2 DEF Hash!Producers
<1>19. Anywhere(t)' <=> Anywhere(t)
  BY <1>10, <1>18 DEF Anywhere
<1>20. ASSUME NEW u \in Threads, u # t PROVE CallIs(u)'
  <2>1. mainTable' = mainTable /\ mainTable \in Nat /\ mainTable \in Tables
    BY <1>2, <1>6
  <2>. QED
    BY <1>1, <1>12, <1>13, <1>18, <1>20, <2>1, OtherCalls
<1>21. CallIs(t)'
  <2>1. main'[t] \in 1 .. mainTable'
    BY <1>3, <1>6, <1>10, <1>12
  <2>. QED
    BY <1>1, <1>2, <1>6, <1>12, <1>18, <1>19, <2>1
    DEF CallIs, Hash!InsideCount, Mine, Hash!NoProducer
<1>22. CountedThreads' = CountedThreads
  <2>1. \A u \in Threads : u # t
            => (u \in CountedThreads' <=> u \in CountedThreads)
    BY <1>1, <1>12, <1>13, OthersWithin
  <2>2. CountedThreads \subseteq Threads /\ CountedThreads' \subseteq Threads
    BY DEF CountedThreads
  <2>3. t \in CountedThreads' /\ t \in CountedThreads
    BY <1>2, <1>12 DEF CountedThreads, Hash!InsideCount
  <2>. QED
    BY <2>1, <2>2, <2>3
<1>23. ASSUME NEW h \in Tables', NEW n \in Nat,
              n + 1 >= Hash!ThreeQuarters(Hash!Capacity(h))'
       PROVE  Cardinality(Within(h, n))' <= n
  <2>1. CASE h \in Tables
    <3>1. t \in Within(h, n)' => t \in Within(h, n)
      BY <1>2, <1>6, <1>12, <1>18 DEF Within, Hash!InsideCount
    <3>. QED
      BY <1>1, <1>12, <1>13, <1>23, <2>1, <3>1, WithinStays
  <2>2. CASE h = last + 1
    <3>1. n + 1 >= Hash!ThreeQuarters(c)
      BY <1>11, <1>23, <2>2 DEF Hash!ThreeQuarters
    <3>2. n + 1 >= Hash!ThreeQuarters(Hash!Capacity(last))
      BY <1>4, <1>5, <3>1 DEF Hash!ThreeQuarters
    <3>3. Cardinality(Within(last, n)) <= n
      BY <1>1, <3>2 DEF CountIs
    <3>4. Within(h, n)' \subseteq Within(last, n)
      <4>1. SUFFICES ASSUME NEW u \in Threads, u \in Within(h, n)'
                     PROVE  u \in Within(last, n)
        BY DEF Within
      <4>2. CASE \E g \in Tables' : g <= h /\ Keyed(u, g)'
        BY <1>10, <1>18, <4>2 DEF Within
      <4>3. CASE hashPc'[u] \in {"link", "insert"} /\ main'[u] <= h
        <5>1. u # t /\ hashPc[u] \in {"link", "insert"} /\ main'[u] = main[u]
          BY <1>12, <4>3 DEF OtherThreadsStay
        <5>2. main[u] \in 1 .. last
          BY <1>1, <1>3, <5>1 DEF CallIs
        <5>. QED
          BY <5>1, <5>2 DEF Within
      <4>4. CASE Hash!InsideCount(u)' /\ newCount'[u] <= n
        <5>1. Hash!InsideCount(u) /\ newCount'[u] = newCount[u]
          BY <1>2, <1>6, <1>12, <4>4 DEF Hash!InsideCount, OtherThreadsStay
        <5>. QED
          BY <4>4, <5>1 DEF Within
      <4>. QED
        BY <4>1, <4>2, <4>3, <4>4 DEF Within
    <3>5. /\ Cardinality(Within(h, n)') <= Cardinality(Within(last, n))
          /\ Cardinality(Within(h, n)') \in Nat
          /\ Cardinality(Within(last, n)) \in Nat
      BY <3>4, WithinIsFinite, FS_Subset, FS_CardinalityType
    <3>. QED
      BY <3>3, <3>5
  <2>. QED
    BY <1>10, <2>1, <2>2
<1>24. CountIs'
  BY <1>1, <1>6, <1>22, <1>23 DEF CountIs
<1>. QED
  BY <1>12, <1>14, <1>15, <1>16, <1>17, <1>20, <1>21, <1>24 DEF HashInv

-----------------------------------------------------------------------------
(* The list of producers *)

Closed(S) == {tail} \union {producerNext[q] : q \in S}
    \subseteq S \union {Hash!NoProducer}

LEMMA BehindIsLeast ==
  ASSUME ListIs
  PROVE  \A S \in SUBSET Hash!Producers : Closed(S) => OnList \subseteq S
BY DEF ListIs, Hash!Behind, Closed

LEMMA LeastIsBehind ==
  ASSUME NEW P \in SUBSET Hash!Producers',
         \A S \in SUBSET Hash!Producers' : Closed(S)' => P \subseteq S
  PROVE  P \subseteq Hash!Behind'
BY DEF Hash!Behind, Closed

LEMMA HashCheck ==
  ASSUME HashInv, NEW t \in Threads, Hash!Check(t)
  PROVE  HashInv'
<1>1. /\ HashTypes /\ TablesAre /\ OneResizes /\ CallIs(t) /\ ListIs
      /\ CountIs /\ \A h \in Tables : KeysAre(h)
      /\ \A u \in Threads : CallIs(u)
  BY DEF HashInv
<1>2. /\ hashPc[t]
            = "check"
                /\ newCount[t] < Hash!ThreeQuarters(Hash!Capacity(main[t]))
      /\ Hash!Create(t)
      /\ UNCHANGED <<hashOf, key, value, prev, mainTable, count, resizing,
                     tail, main, table, index, newCount, got>>
  BY DEF Hash!Check, Hash!tables
<1>3. ~Anywhere(t) /\ Mine(t) \notin Hash!Producers
  BY <1>1, <1>2 DEF CallIs, Hash!InsideCount
<1>4. Cardinality({p \in DOMAIN producerNext : p[1] = t}) = 0
  <2>1. {p \in DOMAIN producerNext : p[1] = t} = {}
    BY <1>1, <1>3 DEF ListIs, Hash!Producers
  <2>. QED
    BY <2>1, FS_EmptySet
<1>5. /\ producerNext' = [p \in Hash!Producers \union {Mine(t)} |->
                      IF p = Mine(t) THEN tail ELSE producerNext[p]]
      /\ made' = [made EXCEPT ![t] = Mine(t)]
      /\ hashPc' = [hashPc EXCEPT ![t] = "link"]
  <2>1. <<t, Cardinality({p \in DOMAIN producerNext : p[1] = t}) + 1>> = Mine(t)
    BY <1>4, SameCardinality DEF Mine
  <2>. QED
    BY <1>2, <1>4, <2>1, SameCardinality
    DEF Hash!Create, Hash!Goto, Hash!Producers
<1>6. HashTypes' /\ OtherThreadsStay(t) /\ hashPc'[t] = "link" /\ made'[t]
          = Mine(t)
  <2>1. Mine(t) \in Entries \X Nat
    BY MineIsTyped
  <2>. QED
    BY <1>1, <1>2, <1>5, <2>1 DEF HashTypes, HashPc, OtherThreadsStay
<1>7. mainTable \in Tables /\ mainTable \in Nat
  BY <1>1 DEF TablesAre, HashTypes
<1>8. TablesGrow(t) /\ TablesAre' /\ \A h \in Tables' : KeysAre(h)'
  BY <1>1, <1>2, <1>7, SameTables, SameKeys
<1>9. OneResizes'
  BY <1>1, <1>2, <1>6, LocksStay DEF Locking
<1>10. Hash!Producers' = Hash!Producers \union {Mine(t)}
  BY <1>5 DEF Hash!Producers
<1>11. ASSUME NEW u \in Threads, u # t PROVE CallIs(u)'
  <2>1. Mine(u) \in Hash!Producers' <=> Mine(u) \in Hash!Producers
    BY <1>10, <1>11 DEF Mine
  <2>. QED
    BY <1>1, <1>2, <1>6, <1>7, <1>8, <1>11, <2>1, OtherCalls
<1>12. /\ Tables' = Tables /\ (Anywhere(t)' <=> Anywhere(t))
       /\ \A h : Keyed(t, h)' <=> Keyed(t, h)
  BY <1>2 DEF Tables, Anywhere, Keyed
<1>13. CallIs(t)'
  <2>1. /\ main'[t] \in 1 .. mainTable' /\ Mine(t) \in Hash!Producers'
        /\ got'[t] = got[t] /\ got[t] = {}
    BY <1>1, <1>2, <1>3, <1>10 DEF CallIs
  <2>. QED
    BY <1>3, <1>6, <1>12, <2>1 DEF CallIs, Hash!InsideCount, Mine
<1>14. CountIs'
  <2>1. main[t] \in Tables
    <3>1. main[t] \in 1 .. mainTable /\ mainTable \in 1 .. Len(key)
          /\ Len(key) \in Nat
      BY <1>1, <1>2, <1>7 DEF CallIs, Tables, HashTypes
    <3>. QED
      BY <3>1 DEF Tables
  <2>2. PICK m \in Tables : m = main[t]
    BY <2>1
  <2>3. ASSUME NEW h \in Tables, NEW n \in Nat, t \in Within(h, n)',
               n + 1 >= Hash!ThreeQuarters(Hash!Capacity(h))
        PROVE  t \in Within(h, n)
    <3>1. CASE m <= h
      <4>1. /\ Hash!Capacity(m) <= Hash!Capacity(h) /\ Hash!Capacity(m) \in Nat
            /\ Hash!Capacity(h) \in Nat
        <5>1. Hash!Capacity(m) <= Hash!Capacity(h)
          BY <1>1, <3>1 DEF TablesAre
        <5>2. Hash!Capacity(m) \in Nat
          BY <1>1, RowFacts
        <5>3. Hash!Capacity(h) \in Nat
          BY <1>1, RowFacts
        <5>. QED
          BY <5>1, <5>2, <5>3
      <4>2. newCount[t] < Hash!ThreeQuarters(Hash!Capacity(m)) /\ newCount[t]
                \in Nat
        BY <1>1, <1>2, <2>2 DEF HashTypes
      <4>3. Hash!ThreeQuarters(Hash!Capacity(m))
              <= Hash!ThreeQuarters(Hash!Capacity(h))
            /\ Hash!ThreeQuarters(Hash!Capacity(m)) \in Nat
            /\ Hash!ThreeQuarters(Hash!Capacity(h)) \in Nat
        BY <4>1 DEF Hash!ThreeQuarters
      <4>4. newCount[t] <= n
        BY <2>3, <4>2, <4>3
      <4>. QED
        BY <1>2, <4>4 DEF Within, Hash!InsideCount
    <3>2. CASE ~(m <= h)
      BY <1>2, <1>6, <1>12, <2>2, <2>3, <3>2 DEF Within, Hash!InsideCount
    <3>. QED
      BY <3>1, <3>2
  <2>4. t \in CountedThreads' <=> t \in CountedThreads
    BY <1>2, <1>6 DEF CountedThreads, Hash!InsideCount
  <2>. QED
    BY <1>1, <1>2, <1>6, <1>8, <2>3, <2>4, CountStays
<1>15. ListIs'
  <2>1. Mine(t)[1] = t /\ Mine(t) # Hash!NoProducer
    BY NoneAssumption DEF Mine, Hash!NoProducer
  <2>2. OnList' = OnList
    <3>1. \A p \in Hash!Producers : p # Mine(t) /\ p[1] # t /\ p[1] \in Threads
      BY <1>1, <1>3 DEF ListIs, Mine
    <3>2. \A p \in Hash!Producers : hashPc'[p[1]] = hashPc[p[1]]
      BY <1>6, <3>1 DEF OtherThreadsStay
    <3>. QED
      BY <1>6, <1>10, <2>1, <3>2 DEF OnList
  <2>3. /\ producerNext'[Mine(t)] = tail
        /\ \A p \in Hash!Producers : producerNext'[p] = producerNext[p]
    BY <1>3, <1>5
  <2>4. Mine(t) \notin OnList /\ OnList \subseteq Hash!Producers
        /\ \A p \in Hash!Producers : p # Mine(t)
    BY <1>3 DEF OnList
  <2>5. ASSUME NEW S \in SUBSET Hash!Producers', Closed(S)'
        PROVE  OnList \subseteq S
    <3>1. S \ {Mine(t)} \subseteq Hash!Producers
      BY <1>10
    <3>2. tail \in (S \ {Mine(t)}) \union {Hash!NoProducer}
      BY <1>1, <1>2, <2>4, <2>5 DEF Closed, ListIs, Hash!NoProducer
    <3>3. \A q \in S \ {Mine(t)} :
              producerNext[q] \in (S \ {Mine(t)}) \union {Hash!NoProducer}
      <4>1. SUFFICES ASSUME NEW q \in S \ {Mine(t)}
                     PROVE  producerNext[q]
                                \in (S \ {Mine(t)}) \union {Hash!NoProducer}
        OBVIOUS
      <4>2. q \in Hash!Producers /\ producerNext'[q] = producerNext[q]
        BY <2>3, <3>1
      <4>3. producerNext'[q] \in S \union {Hash!NoProducer}
        BY <2>5 DEF Closed, Hash!NoProducer
      <4>4. producerNext[q] # Mine(t)
        BY <1>1, <2>1, <2>4, <4>2 DEF ListIs
      <4>. QED
        BY <4>2, <4>3, <4>4
    <3>4. Closed(S \ {Mine(t)})
      BY <3>2, <3>3 DEF Closed
    <3>. QED
      BY <1>1, <3>1, <3>4, BehindIsLeast
  <2>6. OnList' \subseteq Hash!Behind'
    <3>1. OnList \in SUBSET Hash!Producers'
      BY <1>10, <2>4
    <3>. QED
      BY <2>2, <2>5, <3>1, LeastIsBehind
  <2>7. \A p \in Hash!Producers' : p[1] \in Threads /\ p = Mine(p[1])
    BY <1>1, <1>10, <2>1 DEF ListIs
  <2>8. tail' \in OnList' \union {Hash!NoProducer}
    BY <1>1, <1>2, <2>2 DEF ListIs
  <2>9. \A p \in Hash!Producers' :
            producerNext'[p] \in OnList' \union {Hash!NoProducer}
    BY <1>1, <1>10, <2>2, <2>3 DEF ListIs
  <2>10. tail' # Hash!NoProducer
             => \E p \in OnList' : producerNext'[p] = Hash!NoProducer
    BY <1>1, <1>2, <2>2, <2>3, <2>4 DEF ListIs
  <2>11. \A u : Mine(u)' = Mine(u) /\ Hash!NoProducer' = Hash!NoProducer
    BY DEF Mine, Hash!NoProducer
  <2>. QED
    BY <2>6, <2>7, <2>8, <2>9, <2>10, <2>11 DEF ListIs, Mine, Hash!NoProducer
<1>. QED
  BY <1>6, <1>8, <1>9, <1>11, <1>13, <1>14, <1>15 DEF HashInv

LEMMA HashLinkAgain ==
  ASSUME HashInv, NEW t \in Threads, Hash!LinkAgain(t)
  PROVE  HashInv'
<1>1. /\ HashTypes /\ TablesAre /\ OneResizes /\ CallIs(t) /\ ListIs
      /\ CountIs /\ \A h \in Tables : KeysAre(h)
      /\ \A u \in Threads : CallIs(u)
  BY DEF HashInv
<1>2. /\ hashPc[t] = "link" /\ producerNext'
            = [producerNext EXCEPT ![Mine(t)] = tail]
      /\ UNCHANGED <<hashOf, key, value, prev, mainTable, count, resizing,
                     tail, hashPc, main, table, index, newCount, made, got>>
  BY <1>1 DEF Hash!LinkAgain, CallIs, Hash!tables, Hash!locals
<1>3. Mine(t) \in Hash!Producers
  BY <1>1, <1>2 DEF CallIs
<1>4. HashTypes' /\ OtherThreadsStay(t)
  BY <1>1, <1>2 DEF HashTypes, OtherThreadsStay
<1>5. mainTable \in Tables /\ mainTable \in Nat
  BY <1>1 DEF TablesAre, HashTypes
<1>6. TablesGrow(t) /\ TablesAre' /\ \A h \in Tables' : KeysAre(h)'
  BY <1>1, <1>2, <1>5, SameTables, SameKeys
<1>7. OneResizes'
  BY <1>1, <1>2, <1>4, LocksStay DEF Locking
<1>8. Hash!Producers' = Hash!Producers /\ OnList' = OnList
  BY <1>2 DEF Hash!Producers, OnList
<1>9. ASSUME NEW u \in Threads, u # t PROVE CallIs(u)'
  BY <1>1, <1>2, <1>4, <1>5, <1>6, <1>8, <1>9, OtherCalls
<1>10. CallIs(t)'
  <2>1. /\ Tables' = Tables /\ (Anywhere(t)' <=> Anywhere(t))
    BY <1>2 DEF Tables, Anywhere, Keyed
  <2>. QED
    BY <1>1, <1>2, <1>8, <2>1 DEF CallIs, Hash!InsideCount, Mine
<1>11. CountIs'
  BY <1>2, <1>4, OwnCount DEF Hash!InsideCount
<1>12. ListIs'
  <2>1. Mine(t)[1] = t /\ Mine(t) # Hash!NoProducer
    BY NoneAssumption DEF Mine, Hash!NoProducer
  <2>2. Mine(t) \notin OnList /\ OnList \subseteq Hash!Producers
    BY <1>2, <2>1 DEF OnList
  <2>3. /\ producerNext'[Mine(t)] = tail
        /\ \A p \in Hash!Producers : p # Mine(t)
              => producerNext'[p] = producerNext[p]
    BY <1>2, <1>3 DEF Hash!Producers
  <2>4. ASSUME NEW S \in SUBSET Hash!Producers', Closed(S)'
        PROVE  OnList \subseteq S
    <3>1. S \ {Mine(t)} \subseteq Hash!Producers
      BY <1>8
    <3>2. tail \in (S \ {Mine(t)}) \union {Hash!NoProducer}
      BY <1>1, <1>2, <2>1, <2>2, <2>4 DEF Closed, ListIs, Hash!NoProducer
    <3>3. \A q \in S \ {Mine(t)} :
              producerNext[q] \in (S \ {Mine(t)}) \union {Hash!NoProducer}
      <4>1. SUFFICES ASSUME NEW q \in S \ {Mine(t)}
                     PROVE  producerNext[q]
                                \in (S \ {Mine(t)}) \union {Hash!NoProducer}
        OBVIOUS
      <4>2. q \in Hash!Producers /\ producerNext'[q] = producerNext[q]
        BY <2>3, <3>1
      <4>3. producerNext'[q] \in S \union {Hash!NoProducer}
        BY <2>4 DEF Closed, Hash!NoProducer
      <4>4. producerNext[q] # Mine(t)
        BY <1>1, <2>1, <2>2, <4>2 DEF ListIs
      <4>. QED
        BY <4>2, <4>3, <4>4
    <3>4. Closed(S \ {Mine(t)})
      BY <3>2, <3>3 DEF Closed
    <3>. QED
      BY <1>1, <3>1, <3>4, BehindIsLeast
  <2>5. OnList' \subseteq Hash!Behind'
    <3>1. OnList \in SUBSET Hash!Producers'
      BY <1>8, <2>2
    <3>. QED
      BY <1>8, <2>4, <3>1, LeastIsBehind
  <2>6. \A p \in Hash!Producers' : p[1] \in Threads /\ p = Mine(p[1])
    BY <1>1, <1>8 DEF ListIs
  <2>7. \A p \in Hash!Producers' :
            producerNext'[p] \in OnList' \union {Hash!NoProducer}
    BY <1>1, <1>8, <2>3 DEF ListIs
  <2>8. tail' # Hash!NoProducer
            => \E p \in OnList' : producerNext'[p] = Hash!NoProducer
    BY <1>1, <1>2, <1>8, <2>2, <2>3 DEF ListIs
  <2>. QED
    BY <1>1, <1>2, <1>8, <2>5, <2>6, <2>7, <2>8
    DEF ListIs, Mine, Hash!NoProducer
<1>. QED
  BY <1>4, <1>6, <1>7, <1>9, <1>10, <1>11, <1>12 DEF HashInv

LEMMA HashLink ==
  ASSUME HashInv, NEW t \in Threads, Hash!Link(t)
  PROVE  HashInv'
<1>1. /\ HashTypes /\ TablesAre /\ OneResizes /\ CallIs(t) /\ ListIs
      /\ CountIs /\ \A h \in Tables : KeysAre(h)
      /\ \A u \in Threads : CallIs(u)
  BY DEF HashInv
<1>2. /\ hashPc[t] = "link" /\ tail = producerNext[Mine(t)] /\ tail' = Mine(t)
      /\ index' = [index EXCEPT ![t] = hashOf[t]]
      /\ hashPc' = [hashPc EXCEPT ![t] = "insert"]
      /\ UNCHANGED <<hashOf, key, value, prev, mainTable, count, resizing,
                     producerNext, main, table, newCount, made, got>>
  BY <1>1 DEF Hash!Link, Hash!Linked, Hash!Goto, CallIs, Hash!tables
<1>3. Mine(t) \in Hash!Producers
  BY <1>1, <1>2 DEF CallIs
<1>4. HashTypes' /\ OtherThreadsStay(t) /\ hashPc'[t] = "insert"
      /\ index'[t] = hashOf[t]
  BY <1>1, <1>2 DEF HashTypes, HashPc, OtherThreadsStay
<1>5. mainTable \in Tables /\ mainTable \in Nat
  BY <1>1 DEF TablesAre, HashTypes
<1>6. TablesGrow(t) /\ TablesAre' /\ \A h \in Tables' : KeysAre(h)'
  BY <1>1, <1>2, <1>5, SameTables, SameKeys
<1>7. OneResizes'
  BY <1>1, <1>2, <1>4, LocksStay DEF Locking
<1>8. Hash!Producers' = Hash!Producers
  BY <1>2 DEF Hash!Producers
<1>9. ASSUME NEW u \in Threads, u # t PROVE CallIs(u)'
  BY <1>1, <1>2, <1>4, <1>5, <1>6, <1>8, <1>9, OtherCalls
<1>10. CallIs(t)'
  <2>1. /\ Tables' = Tables /\ (Anywhere(t)' <=> Anywhere(t))
    BY <1>2 DEF Tables, Anywhere, Keyed
  <2>2. main[t] \in Tables
    <3>1. main[t] \in 1 .. mainTable /\ mainTable \in 1 .. Len(key)
          /\ Len(key) \in Nat
      BY <1>1, <1>2, <1>5 DEF CallIs, Tables, HashTypes
    <3>. QED
      BY <3>1 DEF Tables
  <2>3. Passed(t)'
    <3>1. Path(Hash!Capacity(main[t]), Home(t, main[t]), Home(t, main[t])) = {}
      BY <1>1, <2>2, HomeFacts
    <3>2. /\ Hash!Capacity(main[t])' = Hash!Capacity(main[t])
          /\ Home(t, main[t])' = Home(t, main[t])
          /\ Here(t, main[t])' = Home(t, main[t])
      BY <1>2, <1>4 DEF Home, Here, Hash!At, Hash!Capacity
    <3>. QED
      BY <3>1, <3>2 DEF Passed
  <2>. QED
    BY <1>1, <1>2, <1>4, <1>8, <2>1, <2>3 DEF CallIs, Hash!InsideCount, Mine
<1>11. CountIs'
  BY <1>2, <1>4, OwnCount DEF Hash!InsideCount
<1>12. ListIs'
  <2>1. Mine(t)[1] = t /\ Mine(t) # Hash!NoProducer
    BY NoneAssumption DEF Mine, Hash!NoProducer
  <2>2. OnList' = OnList \union {Mine(t)} /\ OnList \subseteq Hash!Producers
    <3>1. \A p \in Hash!Producers : p[1] = t => p = Mine(t)
      BY <1>1 DEF ListIs
    <3>2. \A p \in Hash!Producers : p[1] # t => hashPc'[p[1]] = hashPc[p[1]]
      BY <1>1, <1>4 DEF OtherThreadsStay, ListIs
    <3>. QED
      BY <1>3, <1>4, <1>8, <2>1, <3>1, <3>2 DEF OnList
  <2>3. ASSUME NEW S \in SUBSET Hash!Producers', Closed(S)'
        PROVE  OnList \union {Mine(t)} \subseteq S
    <3>1. Mine(t) \in S
      BY <1>2, <2>1, <2>3 DEF Closed, Hash!NoProducer
    <3>2. \A q \in S : producerNext[q] \in S \union {Hash!NoProducer}
      BY <1>2, <2>3 DEF Closed, Hash!NoProducer
    <3>3. Closed(S) /\ S \subseteq Hash!Producers
      BY <1>2, <1>8, <3>1, <3>2 DEF Closed
    <3>. QED
      BY <1>1, <3>1, <3>3, BehindIsLeast
  <2>4. OnList' \subseteq Hash!Behind'
    <3>1. OnList \union {Mine(t)} \in SUBSET Hash!Producers'
      BY <1>3, <1>8, <2>2
    <3>. QED
      BY <2>2, <2>3, <3>1, LeastIsBehind
  <2>5. tail' \in OnList'
    BY <1>2, <2>2
  <2>6. \A p \in Hash!Producers' :
            producerNext'[p] \in OnList' \union {Hash!NoProducer}
    BY <1>1, <1>2, <1>8, <2>2 DEF ListIs
  <2>7. \E p \in OnList' : producerNext'[p] = Hash!NoProducer
    <3>1. CASE tail = Hash!NoProducer
      BY <1>2, <2>2, <3>1
    <3>2. CASE tail # Hash!NoProducer
      BY <1>1, <1>2, <2>2, <3>2 DEF ListIs
    <3>. QED
      BY <3>1, <3>2
  <2>. QED
    BY <1>1, <1>8, <2>4, <2>5, <2>6, <2>7 DEF ListIs, Mine, Hash!NoProducer
<1>. QED
  BY <1>4, <1>6, <1>7, <1>9, <1>10, <1>11, <1>12 DEF HashInv

-----------------------------------------------------------------------------
(* The invariant *)

LEMMA HashInit == Hash!Init => HashInv
<1>. SUFFICES ASSUME Hash!Init PROVE HashInv
  OBVIOUS
<1>. DEFINE c == InitialCapacity
<1>1. c \in Nat \ {0, 1}
  BY HashAssumption
<1>2. /\ hashOf \in [Threads -> Nat]
      /\ key = <<Hash!Empty(c)>> /\ value = <<Hash!NoValues(c)>>
      /\ prev = <<0>> /\ mainTable = 1 /\ count = 0 /\ resizing = FALSE
      /\ producerNext = << >> /\ tail = Hash!NoProducer
      /\ hashPc = [t \in Threads |-> "idle"] /\ main = [t \in Threads |-> 0]
      /\ table = main /\ index = main /\ newCount = main
      /\ made = [t \in Threads |-> Hash!NoProducer]
      /\ got = [t \in Threads |-> {}]
  BY HashAssumption DEF Hash!Init
<1>. HIDE DEF c
<1>3. /\ Hash!Empty(c) \in [0 .. (c - 1) -> Entries]
      /\ Hash!NoValues(c) \in [0 .. (c - 1) -> Entries \X Nat]
      /\ Hash!NoProducer \in Entries \X Nat
  BY DEF Hash!Empty, Hash!NoValues, Hash!NoProducer, Entries
<1>4. /\ Hash!Empty(c) \in Rows(Entries) /\ Hash!NoValues(c)
            \in Rows(Entries \X Nat)
  BY <1>1, <1>3 DEF Rows
<1>5. /\ key \in Seq(Rows(Entries)) /\ Len(key) = 1 /\ key[1] = Hash!Empty(c)
  BY <1>2, <1>4
<1>6. /\ value \in Seq(Rows(Entries \X Nat)) /\ Len(value) = 1
      /\ value[1] = Hash!NoValues(c)
  <2>1. PICK S : S = Rows(Entries \X Nat)
    OBVIOUS
  <2>. QED
    BY <1>2, <1>4, <2>1
<1>7. prev \in Seq(Nat) /\ Len(prev) = 1 /\ prev[1] = 0
  BY <1>2
<1>8. Tables = {1}
  BY <1>5 DEF Tables
<1>9. HashTypes
  BY <1>2, <1>3, <1>5, <1>6, <1>7 DEF HashTypes, HashPc
<1>10. /\ DOMAIN key[1] = 0 .. (c - 1) /\ DOMAIN value[1] = 0 .. (c - 1)
       /\ \A i \in DOMAIN key[1] :
             key[1][i] = None /\ value[1][i] = Hash!NoProducer
  BY <1>5, <1>6 DEF Hash!Empty, Hash!NoValues
<1>11. TablesAre
  <2>1. Hash!Capacity(1) <= Hash!Capacity(1)
    BY <1>8, <1>9, RowFacts
  <2>. QED
    BY <1>2, <1>5, <1>6, <1>7, <1>8, <1>10, <2>1 DEF TablesAre
<1>12. OneResizes
  BY <1>2, <1>5 DEF OneResizes, Locking
<1>13. \A h \in Tables : KeysAre(h)
  <2>1. 1 \in Nat /\ ~(1 > mainTable)
    BY <1>2
  <2>2. \A i \in DOMAIN key[1] :
            key[1][i] = None /\ value[1][i] = Hash!NoProducer
    BY <1>10
  <2>3. KeysAre(1)
    BY <2>1, <2>2 DEF KeysAre
  <2>. QED
    BY <1>8, <2>3
<1>14. \A t \in Threads : ~Anywhere(t) /\ ~Hash!InsideCount(t)
                          /\ \A h \in Tables : ~Keyed(t, h)
  BY <1>2, <1>8, <1>10, NoneAssumption
  DEF Anywhere, Keyed, Hash!InsideCount
<1>15. Hash!Producers = {}
  BY <1>2 DEF Hash!Producers
<1>16. \A t \in Threads : CallIs(t)
  BY <1>2, <1>14, <1>15 DEF CallIs
<1>17. ListIs
  BY <1>2, <1>15 DEF ListIs, OnList
<1>18. CountIs
  <2>1. CountedThreads = {}
    BY <1>14 DEF CountedThreads
  <2>2. ASSUME NEW h \in Tables, NEW n \in Nat
        PROVE  Cardinality(Within(h, n)) <= n
    <3>1. \A t \in Threads : hashPc[t] = "idle"
      BY <1>2
    <3>2. Within(h, n) = {}
      BY <1>14, <3>1 DEF Within
    <3>. QED
      BY <3>2, FS_EmptySet
  <2>. QED
    BY <1>2, <2>1, <2>2, FS_EmptySet DEF CountIs
<1>. QED
  BY <1>9, <1>11, <1>12, <1>13, <1>16, <1>17, <1>18 DEF HashInv

LEMMA HashStutter ==
  ASSUME HashInv, UNCHANGED Hash!vars
  PROVE  HashInv'
<1>1. UNCHANGED <<hashOf, key, value, prev, mainTable, count, resizing,
                  producerNext,
                  tail, hashPc, main, table, index, newCount, made, got>>
  BY DEF Hash!vars, Hash!tables, Hash!list, Hash!locals
<1>2. HashTypes'
  BY <1>1 DEF HashInv, HashTypes
<1>3. Tables' = Tables /\ Hash!Producers' = Hash!Producers /\ OnList' = OnList
      /\ Hash!Behind' = Hash!Behind
  BY <1>1 DEF Tables, Hash!Producers, OnList, Hash!Behind, Hash!NoProducer
<1>4. /\ \A h : Hash!Capacity(h)' = Hash!Capacity(h)
      /\ \A t, h : Home(t, h)' = Home(t, h) /\ Here(t, h)' = Here(t, h)
      /\ \A t, h : Keyed(t, h)' <=> Keyed(t, h)
      /\ \A t : Hash!InsideCount(t)' <=> Hash!InsideCount(t)
  BY <1>1 DEF Hash!Capacity, Home, Here, Hash!At, Keyed, Hash!InsideCount
<1>5. \A t : Anywhere(t)' <=> Anywhere(t)
  BY <1>3, <1>4 DEF Anywhere
<1>6. TablesAre' /\ OneResizes'
  BY <1>1, <1>3, <1>4 DEF HashInv, TablesAre, OneResizes
<1>7. \A h \in Tables' : KeysAre(h)'
  BY <1>1, <1>3, <1>4 DEF HashInv, KeysAre, Hash!NoProducer, Mine
<1>8. ListIs'
  BY <1>1, <1>3 DEF HashInv, ListIs, Hash!NoProducer, Mine
<1>9. \A h, n : Within(h, n)' = Within(h, n)
  BY <1>1, <1>3, <1>4 DEF Within
<1>10. CountedThreads' = CountedThreads
  BY <1>4, <1>5 DEF CountedThreads
<1>11. CountIs'
  BY <1>1, <1>3, <1>4, <1>9, <1>10 DEF HashInv, CountIs, Hash!ThreeQuarters
<1>12. ASSUME NEW t \in Threads PROVE CallIs(t)'
  <2>1. Searched(t)' <=> Searched(t)
    BY <1>1, <1>3, <1>4 DEF Searched, Home, Here, Hash!At, Hash!Capacity, Keyed
  <2>2. Passed(t)' <=> Passed(t)
    BY <1>1 DEF Passed, Home, Here, Hash!At, Hash!Capacity
  <2>3. Keyed(t, main[t])' <=> Keyed(t, main[t])
    BY <1>1 DEF Keyed
  <2>. QED
    BY <1>1, <1>3, <1>4, <1>5, <2>1, <2>2, <2>3
    DEF HashInv, CallIs, Hash!NoProducer, Mine
<1>. QED
  BY <1>2, <1>6, <1>7, <1>8, <1>11, <1>12 DEF HashInv

LEMMA HashStep == HashInv /\ [Hash!Next]_(Hash!vars) => HashInv'
<1>. SUFFICES ASSUME HashInv, [Hash!Next]_(Hash!vars) PROVE HashInv'
  OBVIOUS
<1>1. ASSUME NEW t \in Threads, Hash!Call(t) PROVE HashInv'
  BY <1>1, HashCall
<1>2. ASSUME NEW t \in Threads,
             Hash!Found(t) \/ Hash!NotFound(t) \/ Hash!SearchOn(t)
      PROVE  HashInv'
  BY <1>2, HashFound, HashNotFound, HashSearchOn
<1>3. ASSUME NEW t \in Threads, NEW from \in {"copy", "insert"}, Hash!Put(t,
             from)
      PROVE  HashInv'
  BY <1>3, HashPutDone, HashPutFails
<1>4. ASSUME NEW t \in Threads, Hash!Count(t) \/ Hash!Test(t) PROVE HashInv'
  BY <1>4, HashCount, HashTest
<1>5. ASSUME NEW t \in Threads, Hash!Resize(t) PROVE HashInv'
  BY <1>5, HashResize, HashResizeNeedless
<1>6. ASSUME NEW t \in Threads,
             Hash!ResizeFails(t) \/ Hash!GiveUp(t) \/ Hash!CreateFails(t)
      PROVE  HashInv'
  BY <1>6, HashResizeFails, HashGiveUp, HashCreateFails
<1>7. ASSUME NEW t \in Threads,
             Hash!StoreTable(t) \/ Hash!Clear(t) \/ Hash!WaitForTable(t)
      PROVE  HashInv'
  BY <1>7, HashStoreTable, HashClear, HashWaitForTable
<1>8. ASSUME NEW t \in Threads,
             Hash!Check(t) \/ Hash!Link(t) \/ Hash!LinkAgain(t)
      PROVE  HashInv'
  BY <1>8, HashCheck, HashLink, HashLinkAgain
<1>9. CASE UNCHANGED Hash!vars
  BY <1>9, HashStutter
<1>10. CASE Hash!Next
  <2>1. PICK t \in Threads : Hash!Call(t) \/ Hash!Step(t)
    BY <1>10 DEF Hash!Next
  <2>. QED
    BY <1>1, <1>2, <1>3, <1>4, <1>5, <1>6, <1>7, <1>8, <2>1
    DEF Hash!Step, Hash!Copy, Hash!Insert
<1>. QED
  BY <1>9, <1>10

LEMMA HashAlways == Hash!Spec => []HashInv
BY HashInit, HashStep, PTL DEF Hash!Spec

(* A thread that enqueues is always given the one producer that it made, over
   growing tables, lost exchanges and failed allocations. *)
THEOREM OneProducerForEach == Hash!Spec => []OneProducerEach
<1>1. HashInv => Hash!OneProducerEach
  <2>. SUFFICES ASSUME HashInv, NEW t \in Threads
       PROVE  Cardinality(got[t]) <= 1 /\ \A p \in got[t] : p[1] = t
    BY SameCardinality DEF Hash!OneProducerEach
  <2>1. got[t] \subseteq {Mine(t)}
    BY DEF HashInv, CallIs
  <2>2. IsFiniteSet({Mine(t)}) /\ Cardinality({Mine(t)}) = 1
    BY FS_Singleton
  <2>3. Cardinality(got[t]) <= 1
    BY <2>1, <2>2, FS_Subset
  <2>. QED
    BY <2>1, <2>3 DEF Mine
<1>. QED
  BY HashAlways, <1>1, PTL DEF OneProducerEach

-----------------------------------------------------------------------------
(* What the invariant says of the hash *)

LEMMA TypesFollow == HashInv => Hash!TypeOK
<1>. SUFFICES ASSUME HashInv PROVE Hash!TypeOK
  OBVIOUS
<1>1. /\ HashTypes /\ TablesAre /\ ListIs /\ CountIs
      /\ \A h \in Tables : KeysAre(h)
      /\ \A t \in Threads : CallIs(t)
  BY DEF HashInv
<1>2. ASSUME NEW t \in Threads, Anywhere(t) PROVE Mine(t) \in Hash!Producers
  BY <1>1, <1>2 DEF CallIs
<1>3. ASSUME NEW h \in 1 .. Len(key)
      PROVE  /\ key[h]
                   \in [0 .. (Hash!Capacity(h) - 1) -> Threads \union {None}]
             /\ value[h]
                   \in [DOMAIN key[h] ->
                           Hash!Producers \union {Hash!NoProducer}]
             /\ prev[h] \in 0 .. (h - 1)
  <2>1. h \in Tables
    BY DEF Tables
  <2>2. key[h] \in [0 .. (Hash!Capacity(h) - 1) -> Threads \union {None}]
    BY <1>1, <2>1, RowFacts DEF Entries
  <2>3. prev[h] \in 0 .. (h - 1)
    BY <1>1, <2>1 DEF TablesAre, Tables
  <2>4. value[h] \in Rows(Entries \X Nat) /\ DOMAIN value[h] = DOMAIN key[h]
    BY <1>1, <2>1 DEF HashTypes, TablesAre, Tables
  <2>5. PICK S : \E d \in Nat : value[h] \in [0 .. (d - 1) -> S]
    BY <2>4 DEF Rows
  <2>6. ASSUME NEW i \in DOMAIN key[h]
        PROVE  value[h][i] \in Hash!Producers \union {Hash!NoProducer}
    <3>1. CASE key[h][i] = None
      BY <1>1, <2>1, <3>1 DEF KeysAre
    <3>2. CASE key[h][i] # None
      <4>1. PICK t \in Threads : t = key[h][i]
        BY <2>2, <3>2
      <4>2. value[h][i] = Mine(t)
        BY <1>1, <2>1, <3>2, <4>1 DEF KeysAre
      <4>3. Anywhere(t)
        BY <2>1, <4>1 DEF Anywhere, Keyed
      <4>. QED
        BY <1>2, <4>2, <4>3
    <3>. QED
      BY <3>1, <3>2
  <2>7. value[h] \in [DOMAIN key[h] -> Hash!Producers \union {Hash!NoProducer}]
    BY <2>4, <2>5, <2>6
  <2>. QED
    BY <2>2, <2>3, <2>7
<1>4. count \in 0 .. Cardinality(Threads)
  <2>1. CountedThreads \subseteq Threads
    BY DEF CountedThreads
  <2>. QED
    BY <1>1, <2>1, ThreadsAssumption, WithinIsFinite, FS_Subset,
       FS_CardinalityType
    DEF CountIs
<1>5. Hash!Producers \subseteq Threads \X (Nat \ {0})
  BY <1>1 DEF ListIs, Mine
<1>6. {tail} \union {producerNext[p] : p \in Hash!Producers}
        \subseteq Hash!Producers \union {Hash!NoProducer}
  BY <1>1 DEF ListIs, OnList
<1>7. ASSUME NEW t \in Threads
      PROVE  made[t] \in Hash!Producers \union {Hash!NoProducer}
  BY <1>1, <1>2 DEF CallIs, Anywhere
<1>8. /\ Len(value) = Len(key) /\ Len(prev) = Len(key)
      /\ mainTable \in 1 .. Len(key)
  BY <1>1 DEF TablesAre, Tables
<1>. QED
  BY <1>3, <1>4, <1>5, <1>6, <1>7, <1>8, SameCardinality DEF Hash!TypeOK

(* Fewer threads than slots may put a key into a table. *)
LEMMA SlotIsFree == HashInv => Hash!FreeSlot
<1>. SUFFICES ASSUME HashInv, NEW h \in 1 .. Len(key),
                     \A i \in DOMAIN key[h] : key[h][i] # None
     PROVE  FALSE
  BY DEF Hash!FreeSlot
<1>1. /\ HashTypes /\ CountIs /\ h \in Tables /\ KeysAre(h)
  BY DEF HashInv, Tables
<1>2. PICK c \in Nat : c = Hash!Capacity(h) /\ c >= 2
  BY <1>1, RowFacts
<1>3. PICK n \in Nat : n + 1 = Hash!ThreeQuarters(c) /\ n < c
  <2>1. c \div 2 + c \div 4 - 1 \in Nat /\ c \div 2 + c \div 4 - 1 < c
    BY <1>2
  <2>. QED
    BY <2>1 DEF Hash!ThreeQuarters
<1>. DEFINE S == 0 .. (c - 1)
<1>4. PICK T : T = Within(h, n)
  OBVIOUS
<1>5. IsFiniteSet(T)
  BY <1>4, WithinIsFinite
<1>6. Cardinality(T) <= n /\ Cardinality(T) \in Nat
  <2>1. n + 1 >= Hash!ThreeQuarters(Hash!Capacity(h))
    BY <1>2, <1>3
  <2>2. Cardinality(Within(h, n)) <= n
    BY <1>1, <2>1 DEF CountIs
  <2>3. Cardinality(T) = Cardinality(Within(h, n))
    BY <1>4
  <2>4. Cardinality(T) \in Nat
    BY <1>5, FS_CardinalityType
  <2>. QED
    BY <2>2, <2>3, <2>4
<1>7. Cardinality(S) = c /\ IsFiniteSet(S)
  <2>1. 0 \in Int /\ c - 1 \in Int /\ 0 <= c - 1 /\ (c - 1) - 0 + 1 = c
    BY <1>2
  <2>2. Cardinality(0 .. (c - 1))
          = IF 0 <= c - 1 THEN (c - 1) - 0 + 1 ELSE 0
    BY <2>1, FS_Interval
  <2>3. Cardinality(S) = c
    BY <2>1, <2>2
  <2>4. IsFiniteSet(S)
    BY <2>1, FS_Interval
  <2>. QED
    BY <2>3, <2>4
<1>8. key[h] \in [S -> T]
  <2>1. key[h] \in [S -> Entries] /\ DOMAIN key[h] = S
    BY <1>1, <1>2, RowFacts
  <2>2. ASSUME NEW i \in S PROVE key[h][i] \in T
    <3>1. PICK t \in Threads : t = key[h][i]
      BY <2>1, <2>2 DEF Entries
    <3>2. Keyed(t, h) /\ h <= h
      BY <1>1, <2>1, <3>1 DEF Keyed, Tables
    <3>. QED
      BY <1>1, <1>4, <3>1, <3>2 DEF Within
  <2>. QED
    BY <2>1, <2>2
<1>9. Cardinality(T) < Cardinality(S)
  BY <1>2, <1>3, <1>7, <1>6
<1>. HIDE DEF S
<1>10. PICK i \in S, j \in S : i # j /\ key[h][i] = key[h][j]
  BY <1>5, <1>7, <1>8, <1>9, FS_PigeonHole
<1>11. i \in DOMAIN key[h] /\ j \in DOMAIN key[h]
  BY <1>8, <1>10
<1>. QED
  BY <1>1, <1>10, <1>11 DEF KeysAre

(* A search that begins in the main table visits all that came before. *)
LEMMA OlderTables == HashInv => Hash!Older = 1 .. mainTable
<1>. SUFFICES ASSUME HashInv PROVE Hash!Older = 1 .. mainTable
  OBVIOUS
<1>1. HashTypes /\ TablesAre
  BY DEF HashInv
<1>2. /\ DOMAIN prev = Tables /\ mainTable \in Nat \ {0}
      /\ 1 .. mainTable \subseteq Tables /\ Len(key) \in Nat
      /\ \A h \in Tables : prev[h] = h - 1
  BY <1>1 DEF HashTypes, TablesAre, Tables
<1>3. ASSUME NEW h \in Hash!Older PROVE h \in 1 .. mainTable
  <2>. DEFINE S == 1 .. mainTable
  <2>1. S \in SUBSET DOMAIN prev
    BY <1>2
  <2>2. \A g \in S : prev[g] \in S \union {0}
    BY <1>2
  <2>3. mainTable \in S
    BY <1>2
  <2>. HIDE DEF S
  <2>4. {mainTable} \union {prev[g] : g \in S} \subseteq S \union {0}
    BY <2>2, <2>3
  <2>. QED
    BY <1>3, <2>1, <2>4 DEF Hash!Older, S
<1>4. ASSUME NEW h \in 1 .. mainTable PROVE h \in Hash!Older
  <2>1. SUFFICES ASSUME NEW S \in SUBSET DOMAIN prev,
                        {mainTable} \union {prev[g] : g \in S}
                            \subseteq S \union {0},
                        h \notin S
                 PROVE  FALSE
    BY <1>2 DEF Hash!Older
  <2>2. /\ mainTable \in S
        /\ \A g \in S : g > 1 => g - 1 \in S
    <3>1. mainTable \in S
      BY <1>2, <2>1
    <3>2. ASSUME NEW g \in S, g > 1 PROVE g - 1 \in S
      <4>1. prev[g] = g - 1 /\ g \in Nat
        BY <1>2, <3>2 DEF Tables
      <4>2. prev[g] \in S \union {0}
        BY <2>1
      <4>. QED
        BY <3>2, <4>1, <4>2
    <3>. QED
      BY <3>1, <3>2
  <2>. DEFINE D == {d \in Nat : d < mainTable /\ mainTable - d \notin S}
  <2>3. mainTable - h \in D
    BY <1>2, <2>1
  <2>4. PICK d \in D : \A e \in D : d <= e
    BY <2>3, LeastNatural
  <2>5. d # 0
    BY <1>2, <2>2, <2>4
  <2>6. d - 1 \notin D /\ d \in Nat
    BY <2>4, <2>5
  <2>7. mainTable - (d - 1) \in S /\ mainTable - (d - 1) > 1
    BY <1>2, <2>4, <2>5, <2>6
  <2>8. (mainTable - (d - 1)) - 1 \in S
    BY <2>2, <2>7
  <2>. QED
    BY <1>2, <2>4, <2>8
<1>. QED
  BY <1>3, <1>4

LEMMA CountFollows == HashInv => Hash!CountIsRegistered
<1>. SUFFICES ASSUME HashInv PROVE Hash!CountIsRegistered
  OBVIOUS
<1>1. /\ HashTypes /\ TablesAre /\ CountIs
      /\ \A h \in Tables : KeysAre(h)
  BY DEF HashInv
<1>2. Hash!Older = 1 .. mainTable
  BY OlderTables
<1>3. ASSUME NEW t \in Threads PROVE Hash!Registered(t) <=> Anywhere(t)
  <2>1. \A h \in Tables : Keyed(t, h) => h \in 1 .. mainTable
    BY <1>1, NoneAssumption DEF KeysAre, Keyed, Tables, HashTypes
  <2>2. \A h \in 1 .. mainTable : h \in Tables
    BY <1>1 DEF TablesAre, Tables, HashTypes
  <2>. QED
    BY <1>2, <2>1, <2>2 DEF Hash!Registered, Anywhere, Keyed
<1>4. CountedThreads
          = {t \in Threads : Hash!Registered(t) \/ Hash!InsideCount(t)}
  BY <1>3 DEF CountedThreads
<1>. QED
  BY <1>1, <1>4, SameCardinality DEF CountIs, Hash!CountIsRegistered

LEMMA ListFollows == HashInv => Hash!ListIsWhole
<1>. SUFFICES ASSUME HashInv PROVE Hash!ListIsWhole
  OBVIOUS
<1>1. /\ ListIs /\ \A t \in Threads : CallIs(t)
  BY DEF HashInv
<1>2. ASSUME NEW t \in Threads PROVE got[t] \subseteq Hash!Behind
  <2>1. CASE got[t] = {}
    BY <2>1
  <2>2. CASE got[t] # {}
    <3>1. Anywhere(t) /\ got[t] \subseteq {Mine(t)}
      BY <1>1, <2>2 DEF CallIs
    <3>2. Mine(t) \in Hash!Producers /\ hashPc[t] # "link"
      BY <1>1, <3>1 DEF CallIs, Hash!InsideCount
    <3>3. Mine(t) \in OnList
      BY <3>2 DEF OnList, Mine
    <3>. QED
      BY <1>1, <3>1, <3>3 DEF ListIs
  <2>. QED
    BY <2>1, <2>2
<1>3. tail # Hash!NoProducer
          => \E p \in Hash!Behind : producerNext[p] = Hash!NoProducer
  BY <1>1 DEF ListIs
<1>. QED
  BY <1>2, <1>3 DEF Hash!ListIsWhole

(* The hash of producers stays sound: it never fills up, its count is that of
   the threads in it, and its producers are all on the list. *)
THEOREM HashStaysSound == Hash!Spec => []HashIsSound
<1>1. HashInv => Hash!HashIsSound
  BY TypesFollow, SlotIsFree, CountFollows, ListFollows DEF Hash!HashIsSound
<1>. QED
  BY HashAlways, <1>1, PTL DEF HashIsSound

(* The run's behaviours: each part stays as it should while one of them
   moves. *)
THEOREM EveryPartIsSound ==
  MCSpec => /\ [](ListIsSound /\ NoneLostAtRest)
            /\ [](CountsMatch /\ NoLostWakeup)
            /\ [](OneProducerEach /\ HashIsSound)
            /\ ImplementsSemaphore
<1>1. MCInit => Init /\ Sem!Init /\ Hash!Init
  BY DEF MCInit
<1>2. [MCNext]_allVars => [Next]_vars
  BY DEF MCNext, allVars
<1>3. [MCNext]_allVars => [Sem!Next]_(Sem!vars)
  BY DEF MCNext, allVars, semVars, Sem!vars
<1>4. [MCNext]_allVars => [Hash!Next]_(Hash!vars)
  BY DEF MCNext, allVars, hashVars, Hash!vars, Hash!tables, Hash!list,
         Hash!locals
<1>5. MCSpec => Spec /\ Sem!Spec /\ Hash!Spec
  BY <1>1, <1>2, <1>3, <1>4, PTL DEF MCSpec, Spec, Sem!Spec, Hash!Spec
<1>. QED
  BY <1>5, ListStaysSound, NoNodeIsLost, CountsAlwaysMatch, SleepersAreWoken,
     SemaphoreImplemented, OneProducerForEach, HashStaysSound, PTL
=============================================================================
