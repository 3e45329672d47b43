------------------------- MODULE BlockingQueueProofs ------------------------
(***************************************************************************)
(* Theorems of BlockingQueue, for every number of producers, consumers,    *)
(* elements and elements of a call.                                        *)
(***************************************************************************)
EXTENDS MCBlockingQueue, Sequences, FiniteSetTheorems, TLAPS

-----------------------------------------------------------------------------
(* Totals *)

Units(S, most, count) == {u \in S \X (1 .. most) : u[2] <= count[u[1]]}

LEMMA UnitsAreFinite ==
    ASSUME NEW S, IsFiniteSet(S), NEW most \in Nat,
           NEW U \in SUBSET (S \X (1 .. most))
    PROVE  IsFiniteSet(U) /\ Cardinality(U) \in Nat
<1>1. IsFiniteSet(1 .. most)
    BY FS_Interval
<1>2. IsFiniteSet(S \X (1 .. most))
    BY <1>1, FS_Product
<1>3. IsFiniteSet(U)
    BY <1>2, FS_Subset
<1> QED
    BY <1>3, FS_CardinalityType

LEMMA TotalType ==
    ASSUME NEW S, IsFiniteSet(S), NEW most \in Nat, NEW count
    PROVE  Total(S, most, count) \in Nat
<1>1. Units(S, most, count) \in SUBSET (S \X (1 .. most))
    BY DEF Units
<1>2. Cardinality(Units(S, most, count)) \in Nat
    BY <1>1, UnitsAreFinite
<1> QED
    BY <1>2 DEF Total, Units

(* The units of one member of S. *)
LEMMA OwnUnits ==
    ASSUME NEW x, NEW k \in Nat
    PROVE  IsFiniteSet({x} \X (1 .. k)) /\ Cardinality({x} \X (1 .. k)) = k
<1>1. IsFiniteSet({x}) /\ Cardinality({x}) = 1
    BY FS_Singleton
<1>2. IsFiniteSet(1 .. k) /\ Cardinality(1 .. k) = k
    BY FS_Interval
<1>3. IsFiniteSet({x} \X (1 .. k))
      /\ Cardinality({x} \X (1 .. k)) = Cardinality({x}) * Cardinality(1 .. k)
    BY <1>1, <1>2, FS_Product
<1> QED
    BY <1>1, <1>2, <1>3

(* The total is that of the others and what x counts. *)
LEMMA TotalSplits ==
    ASSUME NEW S, IsFiniteSet(S), NEW most \in Nat, NEW count,
           NEW x \in S, count[x] \in 0 .. most
    PROVE  LET others == {u \in S \X (1 .. most) :
                            u[1] # x /\ u[2] <= count[u[1]]}
           IN  /\ Cardinality(others) \in Nat
               /\ Total(S, most, count) = Cardinality(others) + count[x]
<1> DEFINE others == {u \in S \X (1 .. most) :
                        u[1] # x /\ u[2] <= count[u[1]]}
           own == {x} \X (1 .. count[x])
           all == Units(S, most, count)
<1>1. IsFiniteSet(others) /\ Cardinality(others) \in Nat
    <2>1. others \in SUBSET (S \X (1 .. most))
        OBVIOUS
    <2> HIDE DEF others
    <2> QED
        BY <2>1, UnitsAreFinite
<1>2. IsFiniteSet(own) /\ Cardinality(own) = count[x]
    <2>1. count[x] \in Nat
        OBVIOUS
    <2> QED
        BY <2>1, OwnUnits
<1>3. all = others \union own /\ others \intersect own = {}
    <2>1. ASSUME NEW u \in all PROVE u \in others \union own
        <3>1. u \in S \X (1 .. most) /\ u[2] <= count[u[1]]
            BY DEF Units
        <3>2. CASE u[1] = x
            BY <3>1, <3>2
        <3>3. CASE u[1] # x
            BY <3>1, <3>3
        <3> QED
            BY <3>2, <3>3
    <2>2. ASSUME NEW u \in own PROVE u \in all
        BY DEF Units
    <2>3. others \subseteq all
        BY DEF Units
    <2>4. others \intersect own = {}
        OBVIOUS
    <2> HIDE DEF all, others, own
    <2> QED
        BY <2>1, <2>2, <2>3, <2>4
<1> HIDE DEF others, own
<1>4. Cardinality(others \intersect own) = 0
    BY <1>3, FS_EmptySet
<1>5. Cardinality(others \union own)
        = Cardinality(others) + Cardinality(own)
          - Cardinality(others \intersect own)
    BY <1>1, <1>2, FS_Union
<1>6. Total(S, most, count) = Cardinality(all)
    BY DEF Total, Units
<1>7. Total(S, most, count) = Cardinality(others) + count[x]
    BY <1>1, <1>2, <1>3, <1>4, <1>5, <1>6
<1> QED
    BY <1>1, <1>7 DEF others

LEMMA TotalSame ==
    ASSUME NEW S, NEW most, NEW f, NEW g, \A s \in S : f[s] = g[s]
    PROVE  Total(S, most, f) = Total(S, most, g)
<1>1. {u \in S \X (1 .. most) : u[2] <= f[u[1]]}
        = {u \in S \X (1 .. most) : u[2] <= g[u[1]]}
    OBVIOUS
<1> QED
    BY <1>1 DEF Total

LEMMA TotalZero ==
    ASSUME NEW S, NEW most, NEW f, \A s \in S : f[s] = 0
    PROVE  Total(S, most, f) = 0
<1>1. {u \in S \X (1 .. most) : u[2] <= f[u[1]]} = {}
    OBVIOUS
<1> QED
    BY <1>1, FS_EmptySet DEF Total

(* A change at x changes the total by as much. *)
LEMMA TotalChanges ==
    ASSUME NEW S, IsFiniteSet(S), NEW most \in Nat, NEW f, NEW g, NEW x \in S,
           f[x] \in 0 .. most, g[x] \in 0 .. most,
           \A s \in S \ {x} : f[s] = g[s]
    PROVE  Total(S, most, g) = Total(S, most, f) + g[x] - f[x]
<1> DEFINE F == {u \in S \X (1 .. most) : u[1] # x /\ u[2] <= f[u[1]]}
           G == {u \in S \X (1 .. most) : u[1] # x /\ u[2] <= g[u[1]]}
<1>1. F = G
    OBVIOUS
<1>2. Cardinality(F) \in Nat /\ Total(S, most, f) = Cardinality(F) + f[x]
    BY TotalSplits
<1>3. Total(S, most, g) = Cardinality(G) + g[x]
    BY TotalSplits
<1> HIDE DEF F, G
<1> QED
    BY <1>1, <1>2, <1>3

LEMMA TotalAtLeast ==
    ASSUME NEW S, IsFiniteSet(S), NEW most \in Nat, NEW f, NEW x \in S,
           f[x] \in 0 .. most
    PROVE  f[x] <= Total(S, most, f)
<1> DEFINE F == {u \in S \X (1 .. most) : u[1] # x /\ u[2] <= f[u[1]]}
<1>1. Cardinality(F) \in Nat /\ Total(S, most, f) = Cardinality(F) + f[x]
    BY TotalSplits
<1> HIDE DEF F
<1> QED
    BY <1>1

LEMMA TotalIsSmaller ==
    ASSUME NEW S, IsFiniteSet(S), NEW most \in Nat, NEW f, NEW g,
           \A s \in S : f[s] \in Nat /\ g[s] \in Nat /\ f[s] <= g[s]
    PROVE  Total(S, most, f) <= Total(S, most, g)
<1>1. Units(S, most, g) \in SUBSET (S \X (1 .. most))
    BY DEF Units
<1>2. IsFiniteSet(Units(S, most, g))
    BY <1>1, UnitsAreFinite
<1>3. Units(S, most, f) \in SUBSET Units(S, most, g)
    BY DEF Units
<1>4. Cardinality(Units(S, most, f)) <= Cardinality(Units(S, most, g))
    BY <1>2, <1>3, FS_Subset
<1> QED
    BY <1>4 DEF Total, Units

LEMMA TotalHasUnit ==
    ASSUME NEW S, NEW most \in Nat, NEW f, Total(S, most, f) # 0
    PROVE  \E s \in S : \E i \in 1 .. most : i <= f[s]
<1>1. {u \in S \X (1 .. most) : u[2] <= f[u[1]]} # {}
    BY FS_EmptySet DEF Total
<1> QED
    BY <1>1

-----------------------------------------------------------------------------
(* The inductive invariant *)

(* The consumers that have claimed elements of stream p and not yet seen how
   many of them exist; what they want, all of them and those whose claim begins
   before e; and what of the stream is taken or granted. *)
Pending(p) == {c \in Consumers : at[c] = p /\ pc[c] = "decide"}

Wanted(p) == [c \in Consumers |-> IF c \in Pending(p) THEN want[c] ELSE 0]

Below(p, e) ==
    [c \in Consumers |->
        IF c \in Pending(p) /\ seenCount[c] < e THEN want[c] ELSE 0]

Sum(count) == Total(Consumers, MaxBulk, count)

Gone(p) == head[p] + Sum(Mine(p))

(* dequeueOptimisticCount counts what is taken or granted, what was given back
   and what is still claimed. *)
CountInv(p) == optimistic[p] = Gone(p) + overcommit[p] + Sum(Wanted(p))

(* Those claims are disjoint ranges of it. *)
RangeInv(p) ==
    \A c \in Pending(p) :
        /\ seenCount[c] + want[c] <= optimistic[p]
        /\ \A b \in Pending(p) \ {c} :
                \/ seenCount[b] + want[b] <= seenCount[c]
                \/ seenCount[c] + want[c] <= seenCount[b]

(* Claims succeed in any order: up to some e, everything claimed is there even
   if all of it is granted; a claim that begins behind e is granted no more
   than what is left after those before it. *)
ClaimInv(p) ==
    \E e \in 0 .. optimistic[p] :
        /\ Gone(p) + Sum(Below(p, e)) <= tail[p]
        /\ \A c \in Pending(p), k \in Nat :
                k = seenCount[c] /\ k >= e =>
                    Gone(p) + Sum(Below(p, k)) + seenOver[c] <= k

StreamInv(p) == CountInv(p) /\ RangeInv(p) /\ ClaimInv(p)

PlaceInv ==
    \A c \in Consumers :
        /\ mine[c] > 0 => pc[c] = "take"
        /\ pc[c] \in {"claim", "decide"} =>
                want[c] > 0 /\ seenOver[c] <= overcommit[at[c]]
        /\ bestSize[c] > 0 => best[c] # None

ListInv == \A p \in Producers : p > listed => tail[p] = 0

QueueInv ==
    /\ TypeOK
    /\ EveryPermitHasElement
    /\ PlaceInv
    /\ ListInv
    /\ \A p \in Producers : StreamInv(p)

-----------------------------------------------------------------------------
(* The counters of a stream *)

LEMMA SumTypes ==
    ASSUME NEW count
    PROVE  Sum(count) \in Nat
BY TotalType, NumbersAssumption, ConsumersAssumption DEF Sum

LEMMA GoneType ==
    ASSUME TypeOK, NEW p \in Producers
    PROVE  Gone(p) \in Nat
BY SumTypes DEF Gone, TypeOK

LEMMA SumSame ==
    ASSUME NEW f, NEW g, \A c \in Consumers : f[c] = g[c]
    PROVE  Sum(f) = Sum(g)
BY TotalSame DEF Sum

LEMMA SumChanges ==
    ASSUME NEW f, NEW g, NEW c \in Consumers,
           f[c] \in 0 .. MaxBulk, g[c] \in 0 .. MaxBulk,
           \A b \in Consumers \ {c} : f[b] = g[b]
    PROVE  Sum(g) = Sum(f) + g[c] - f[c]
<1>1. MaxBulk \in Nat /\ IsFiniteSet(Consumers)
    BY NumbersAssumption, ConsumersAssumption
<1> QED
    BY <1>1, TotalChanges DEF Sum

(* A stream that no step of a claim touches. *)
LEMMA StreamKept ==
    ASSUME TypeOK, TypeOK', NEW p \in Producers, StreamInv(p),
           Pending(p)' = Pending(p),
           \A c \in Pending(p) : /\ want'[c] = want[c]
                                /\ seenOver'[c] = seenOver[c]
                                /\ seenCount'[c] = seenCount[c],
           Gone(p)' = Gone(p), overcommit'[p] = overcommit[p],
           optimistic'[p] = optimistic[p], tail[p] <= tail'[p]
    PROVE  StreamInv(p)'
<1>1. \A e \in Nat : Sum(Below(p, e))' = Sum(Below(p, e))
    <2> TAKE e \in Nat
    <2>1. Below(p, e)' = Below(p, e)
        BY DEF Below
    <2> QED
        BY <2>1 DEF Sum, Total
<1>2. Sum(Wanted(p))' = Sum(Wanted(p))
    <2>1. Wanted(p)' = Wanted(p)
        BY DEF Wanted
    <2> QED
        BY <2>1 DEF Sum, Total
<1>3. CountInv(p)'
    BY <1>2 DEF StreamInv, CountInv
<1>4. RangeInv(p)'
    BY DEF StreamInv, RangeInv
<1>5. ClaimInv(p)'
    <2>1. PICK e \in 0 .. optimistic[p] :
            /\ Gone(p) + Sum(Below(p, e)) <= tail[p]
            /\ \A c \in Pending(p), k \in Nat :
                    k = seenCount[c] /\ k >= e =>
                        Gone(p) + Sum(Below(p, k)) + seenOver[c] <= k
        BY DEF StreamInv, ClaimInv
    <2>2. e \in Nat /\ tail[p] \in Nat /\ tail'[p] \in Nat
          /\ Gone(p) \in Nat /\ Sum(Below(p, e)) \in Nat
        BY GoneType, SumTypes DEF TypeOK
    <2>3. Gone(p)' + Sum(Below(p, e))' <= tail'[p]
        BY <1>1, <2>1, <2>2
    <2>4. \A c \in Pending(p)', k \in Nat :
            k = seenCount'[c] /\ k >= e =>
                Gone(p)' + Sum(Below(p, k))' + seenOver'[c] <= k
        BY <1>1, <2>1
    <2> QED
        BY <2>3, <2>4 DEF ClaimInv
<1> QED
    BY <1>3, <1>4, <1>5 DEF StreamInv

(* A step in which each consumer stays where it is, or is in no claim. *)
LEMMA QuietStep ==
    ASSUME TypeOK, TypeOK', PlaceInv, NEW p \in Producers, StreamInv(p),
           UNCHANGED <<head, optimistic, overcommit, mine, seenCount>>,
           tail[p] <= tail'[p],
           \A c \in Consumers :
               \/ /\ at'[c] = at[c] /\ pc'[c] = pc[c]
                  /\ want'[c] = want[c] /\ seenOver'[c] = seenOver[c]
               \/ pc[c] \notin {"decide", "take"} /\ pc'[c] # "decide"
    PROVE  StreamInv(p)'
<1>1. Pending(p)' = Pending(p)
    BY DEF Pending
<1>2. \A c \in Pending(p) : want'[c] = want[c] /\ seenOver'[c] = seenOver[c]
    BY DEF Pending
<1>3. Mine(p)' = Mine(p)
    <2>1. \A c \in Consumers : at'[c] = at[c] \/ mine[c] = 0
        BY DEF PlaceInv, TypeOK
    <2> QED
        BY <2>1 DEF Mine
<1>4. Gone(p)' = Gone(p)
    BY <1>3 DEF Gone, Sum, Total
<1> QED
    BY <1>1, <1>2, <1>4, StreamKept

-----------------------------------------------------------------------------
(* fetch_add of dequeueOptimisticCount *)

LEMMA ClaimOther ==
    ASSUME TypeOK, TypeOK', NEW c \in Consumers, Claim(c),
           NEW p \in Producers, p # at[c], StreamInv(p)
    PROVE  StreamInv(p)'
<1>1. Pending(p)' = Pending(p)
    BY DEF Claim, search, Goto, Pending, TypeOK
<1>2. Gone(p)' = Gone(p)
    BY DEF Claim, search, Gone, Mine, Sum, Total
<1>3. \A b \in Pending(p) : seenCount'[b] = seenCount[b]
    BY DEF Claim, Pending, TypeOK
<1>4. optimistic'[p] = optimistic[p]
    BY DEF Claim, TypeOK
<1>5. UNCHANGED <<want, seenOver, overcommit, tail>>
    BY DEF Claim
<1> QED
    BY <1>1, <1>2, <1>3, <1>4, <1>5, StreamKept DEF TypeOK

LEMMA ClaimOwn ==
    ASSUME TypeOK, TypeOK', PlaceInv, NEW c \in Consumers, Claim(c),
           NEW p \in Producers, p = at[c], StreamInv(p)
    PROVE  StreamInv(p)'
<1> DEFINE D == optimistic[p]
           w == want[c]
<1>1. /\ pc[c] = "claim" /\ pc' = [pc EXCEPT ![c] = "decide"]
      /\ optimistic' = [optimistic EXCEPT ![p] = D + w]
      /\ seenCount' = [seenCount EXCEPT ![c] = D]
      /\ UNCHANGED <<at, tail, head, overcommit, want, mine, seenOver>>
    BY DEF Claim, search, Goto
<1>2. /\ D \in Nat /\ w \in 1 .. MaxBulk /\ overcommit[p] \in Nat
      /\ seenOver[c] \in Nat /\ seenOver[c] <= overcommit[p]
      /\ Gone(p) \in Nat /\ tail[p] \in Nat
    BY <1>1, GoneType DEF TypeOK, PlaceInv
<1>3. /\ Pending(p)' = Pending(p) \union {c} /\ c \notin Pending(p)
      /\ seenCount'[c] = D /\ optimistic'[p] = D + w
      /\ \A b \in Pending(p) : seenCount'[b] = seenCount[b]
    BY <1>1 DEF Pending, TypeOK
<1>4. Gone(p)' = Gone(p)
    BY <1>1 DEF Gone, Mine, Sum, Total
<1>5. \A b \in Pending(p) : /\ seenCount[b] \in Nat /\ want[b] \in Nat
                           /\ want[b] > 0 /\ seenCount[b] + want[b] <= D
    BY DEF StreamInv, RangeInv, PlaceInv, TypeOK, Pending
<1>6. Sum(Wanted(p))' = Sum(Wanted(p)) + w
    <2>1. Wanted(p)[c] = 0 /\ Wanted(p)'[c] = w
          /\ \A b \in Consumers \ {c} : Wanted(p)[b] = Wanted(p)'[b]
        BY <1>1, <1>3 DEF Wanted
    <2>2. Wanted(p)[c] \in 0 .. MaxBulk /\ Wanted(p)'[c] \in 0 .. MaxBulk
        BY <1>2, <2>1, NumbersAssumption
    <2> HIDE DEF D, w
    <2>3. Sum(Wanted(p)') = Sum(Wanted(p)) + Wanted(p)'[c] - Wanted(p)[c]
        BY <2>1, <2>2, SumChanges
    <2>4. Sum(Wanted(p)') = Sum(Wanted(p)) + w
        BY <1>2, <2>1, <2>3, SumTypes
    <2> QED
        BY <2>4 DEF Sum, Total
<1>7. \A k \in 0 .. D : Sum(Below(p, k))' = Sum(Below(p, k))
    <2> TAKE k \in 0 .. D
    <2>1. Below(p, k)' = Below(p, k)
        BY <1>1, <1>2, <1>3 DEF Below
    <2> QED
        BY <2>1 DEF Sum, Total
<1>8. Sum(Below(p, D)) = Sum(Wanted(p))
    <2>1. Below(p, D) = Wanted(p)
        BY <1>2, <1>5 DEF Below, Wanted
    <2> QED
        BY <2>1
<1>9. D = Gone(p) + overcommit[p] + Sum(Wanted(p)) /\ Sum(Wanted(p)) \in Nat
    BY SumTypes DEF StreamInv, CountInv
<1> HIDE DEF D, w
<1>10. CountInv(p)'
    <2>1. optimistic'[p] = Gone(p)' + overcommit'[p] + Sum(Wanted(p))'
        BY <1>1, <1>2, <1>3, <1>4, <1>6, <1>9
    <2> QED
        BY <2>1 DEF CountInv
<1>11. RangeInv(p)'
    <2>1. ASSUME NEW a \in Pending(p)'
          PROVE  seenCount'[a] + want'[a] <= optimistic'[p]
        BY <1>1, <1>2, <1>3, <1>5 DEF w
    <2>2. ASSUME NEW a \in Pending(p)', NEW b \in Pending(p)' \ {a}
          PROVE  \/ seenCount'[b] + want'[b] <= seenCount'[a]
                 \/ seenCount'[a] + want'[a] <= seenCount'[b]
        <3>1. CASE a = c
            BY <1>1, <1>3, <1>5, <2>2, <3>1
        <3>2. CASE b = c
            BY <1>1, <1>3, <1>5, <2>2, <3>2
        <3>3. CASE a # c /\ b # c
            BY <1>1, <1>3, <2>2, <3>3 DEF StreamInv, RangeInv
        <3> QED
            BY <3>1, <3>2, <3>3
    <2> QED
        BY <2>1, <2>2 DEF RangeInv
<1>12. ClaimInv(p)'
    <2>1. PICK e \in 0 .. D :
            /\ Gone(p) + Sum(Below(p, e)) <= tail[p]
            /\ \A a \in Pending(p), k \in Nat :
                    k = seenCount[a] /\ k >= e =>
                        Gone(p) + Sum(Below(p, k)) + seenOver[a] <= k
        BY DEF StreamInv, ClaimInv, D
    <2>2. e \in 0 .. optimistic'[p]
        BY <1>2, <1>3, <2>1
    <2>3. Gone(p)' + Sum(Below(p, e))' <= tail'[p]
        BY <1>1, <1>4, <1>7, <2>1
    <2>4. ASSUME NEW a \in Pending(p)', NEW k \in Nat,
                 k = seenCount'[a], k >= e
          PROVE  Gone(p)' + Sum(Below(p, k))' + seenOver'[a] <= k
        <3>1. CASE a = c
            <4>1. k = D /\ D \in 0 .. D
                BY <1>2, <1>3, <2>4, <3>1
            <4>2. Sum(Below(p, k))' = Sum(Wanted(p))
                BY <1>7, <1>8, <4>1
            <4> QED
                BY <1>1, <1>2, <1>4, <1>9, <3>1, <4>1, <4>2
        <3>2. CASE a \in Pending(p)
            <4>1. k = seenCount[a] /\ k \in 0 .. D
                BY <1>2, <1>3, <1>5, <2>4, <3>2
            <4> QED
                BY <1>1, <1>4, <1>7, <2>1, <2>4, <3>2, <4>1
        <3> QED
            BY <1>3, <3>1, <3>2
    <2> QED
        BY <2>2, <2>3, <2>4 DEF ClaimInv
<1> QED
    BY <1>10, <1>11, <1>12 DEF StreamInv

-----------------------------------------------------------------------------
(* What a claim is granted *)

Left(c) == tail[at[c]] - (seenCount[c] - seenOver[c])

Granted(c) == IF Left(c) > 0 THEN Minimum(Left(c), want[c]) ELSE 0

LEMMA DecideFacts ==
    ASSUME TypeOK, PlaceInv, NEW c \in Consumers, Decide(c)
    PROVE  /\ pc[c] = "decide" /\ pc' = [pc EXCEPT ![c] = "take"]
           /\ at[c] \in Producers
           /\ mine[c] = 0 /\ mine' = [mine EXCEPT ![c] = Granted(c)]
           /\ overcommit' = [overcommit EXCEPT
                                ![at[c]] = @ + (want[c] - Granted(c))]
           /\ Granted(c) \in 0 .. want[c] /\ want[c] \in 1 .. MaxBulk
           /\ Granted(c) > 0 => Granted(c) <= Left(c)
           /\ Left(c) \in Int
           /\ UNCHANGED <<listed, tail, head, optimistic, permits, unsignalled,
                          max, need, search, want, seenOver, seenCount>>
<1>1. /\ pc[c] = "decide" /\ pc' = [pc EXCEPT ![c] = "take"]
      /\ mine' = [mine EXCEPT ![c] = Granted(c)]
      /\ overcommit' = [overcommit EXCEPT
                                ![at[c]] = @ + (want[c] - Granted(c))]
      /\ UNCHANGED <<listed, tail, head, optimistic, permits, unsignalled,
                     max, need, search, want, seenOver, seenCount>>
    BY DEF Decide, Goto, Granted, Left
<1>2. at[c] \in Producers /\ mine[c] = 0 /\ want[c] \in 1 .. MaxBulk
    BY <1>1 DEF TypeOK, PlaceInv
<1>3. Left(c) \in Int
    BY <1>2 DEF Left, TypeOK
<1>4. Granted(c) \in 0 .. want[c] /\ (Granted(c) > 0 => Granted(c) <= Left(c))
    BY <1>2, <1>3 DEF Granted, Minimum
<1> QED
    BY <1>1, <1>2, <1>3, <1>4

LEMMA DecideOther ==
    ASSUME TypeOK, TypeOK', PlaceInv, NEW c \in Consumers, Decide(c),
           NEW p \in Producers, p # at[c], StreamInv(p)
    PROVE  StreamInv(p)'
<1>1. Pending(p)' = Pending(p)
    BY DecideFacts DEF search, Pending, TypeOK
<1>2. Gone(p)' = Gone(p)
    <2>1. Mine(p)' = Mine(p)
        BY DecideFacts DEF search, Mine, TypeOK
    <2> QED
        BY <2>1, DecideFacts DEF Gone, Sum, Total
<1>3. overcommit'[p] = overcommit[p]
    BY DecideFacts DEF TypeOK
<1>4. UNCHANGED <<want, seenOver, seenCount, optimistic, tail>>
    BY DecideFacts
<1> QED
    BY <1>1, <1>2, <1>3, <1>4, StreamKept DEF TypeOK

LEMMA DecideOwn ==
    ASSUME TypeOK, TypeOK', PlaceInv, NEW c \in Consumers, Decide(c),
           NEW p \in Producers, p = at[c], StreamInv(p)
    PROVE  StreamInv(p)'
<1> DEFINE D == optimistic[p]
           got == Granted(c)
<1>w. PICK w \in 1 .. MaxBulk : w = want[c]
    BY DecideFacts
<1>a. PICK a \in Nat : a = seenCount[c]
    BY DEF TypeOK
<1>1. /\ pc[c] = "decide" /\ pc' = [pc EXCEPT ![c] = "take"]
      /\ mine[c] = 0 /\ mine' = [mine EXCEPT ![c] = got]
      /\ overcommit'[p] = overcommit[p] + (w - got)
      /\ UNCHANGED <<at, tail, head, optimistic, want, seenOver, seenCount>>
    BY <1>w, DecideFacts DEF search, TypeOK
<1>2. /\ D \in Nat /\ w \in 1 .. MaxBulk /\ got \in 0 .. w /\ a \in Nat
      /\ (got > 0 => got <= tail[p] - (a - seenOver[c]))
      /\ overcommit[p] \in Nat /\ seenOver[c] \in Nat
      /\ Gone(p) \in Nat /\ tail[p] \in Nat /\ MaxBulk \in Nat
    BY <1>w, <1>a, DecideFacts, GoneType, NumbersAssumption DEF TypeOK, Left
<1>3. Pending(p)' = Pending(p) \ {c} /\ c \in Pending(p)
    BY <1>1 DEF Pending, TypeOK
<1>4. \A b \in Pending(p) : /\ b \in Consumers
                           /\ seenCount[b] \in Nat /\ want[b] \in Nat
                           /\ want[b] > 0 /\ seenCount[b] + want[b] <= D
                           /\ seenOver[b] \in Nat
    BY DEF StreamInv, RangeInv, PlaceInv, TypeOK, Pending
<1>5. \A b \in Pending(p) \ {c} : seenCount[b] + want[b] <= a
                                 \/ a + w <= seenCount[b]
    BY <1>3, <1>w, <1>a DEF StreamInv, RangeInv
<1> HIDE DEF got
<1>6. Gone(p)' = Gone(p) + got
    <2>1. Mine(p)[c] = 0 /\ Mine(p)'[c] = got
          /\ \A b \in Consumers \ {c} : Mine(p)[b] = Mine(p)'[b]
        BY <1>1 DEF Mine, TypeOK
    <2>2. Mine(p)[c] \in 0 .. MaxBulk /\ Mine(p)'[c] \in 0 .. MaxBulk
        BY <1>2, <2>1
    <2>3. Sum(Mine(p)') = Sum(Mine(p)) + Mine(p)'[c] - Mine(p)[c]
        BY <2>1, <2>2, SumChanges
    <2>4. Sum(Mine(p)') = Sum(Mine(p)) + got
        BY <1>2, <2>1, <2>3, SumTypes
    <2>5. Sum(Mine(p))' = Sum(Mine(p)) + got
        BY <2>4 DEF Sum, Total
    <2> QED
        BY <1>1, <1>2, <2>5, SumTypes DEF Gone, TypeOK
<1>7. Sum(Wanted(p))' = Sum(Wanted(p)) - w
    <2>1. Wanted(p)[c] = w /\ Wanted(p)'[c] = 0
          /\ \A b \in Consumers \ {c} : Wanted(p)[b] = Wanted(p)'[b]
        BY <1>1, <1>3, <1>w DEF Wanted
    <2>2. Wanted(p)[c] \in 0 .. MaxBulk /\ Wanted(p)'[c] \in 0 .. MaxBulk
        BY <1>2, <2>1
    <2>3. Sum(Wanted(p)') = Sum(Wanted(p)) + Wanted(p)'[c] - Wanted(p)[c]
        BY <2>1, <2>2, SumChanges
    <2>4. Sum(Wanted(p)') = Sum(Wanted(p)) - w
        BY <1>2, <2>1, <2>3, SumTypes
    <2> QED
        BY <2>4 DEF Sum, Total
<1>8. \A k \in Nat : Sum(Below(p, k))'
                        = Sum(Below(p, k)) - (IF a < k THEN w ELSE 0)
    <2> TAKE k \in Nat
    <2> DEFINE own == IF a < k THEN w ELSE 0
    <2>1. Below(p, k)[c] = own /\ Below(p, k)'[c] = 0
          /\ \A b \in Consumers \ {c} : Below(p, k)[b] = Below(p, k)'[b]
        BY <1>1, <1>3, <1>w, <1>a DEF Below
    <2>2. own \in 0 .. MaxBulk
        BY <1>2
    <2> HIDE DEF own
    <2>3. Below(p, k)[c] \in 0 .. MaxBulk /\ Below(p, k)'[c] \in 0 .. MaxBulk
        BY <1>2, <2>1, <2>2
    <2>4. Sum(Below(p, k)')
            = Sum(Below(p, k)) + Below(p, k)'[c] - Below(p, k)[c]
        BY <2>1, <2>3, SumChanges
    <2>5. Sum(Below(p, k)') = Sum(Below(p, k)) - own
        BY <1>2, <2>1, <2>2, <2>4, SumTypes
    <2> QED
        BY <2>5 DEF Sum, Total, own
<1>9. Sum(Below(p, a + w))' = Sum(Below(p, a))
    <2>1. a \in Nat /\ a + w \in Nat
        BY <1>2
    <2>2. \A b \in Consumers : Below(p, a + w)'[b] = Below(p, a)[b]
        <3> TAKE b \in Consumers
        <3>1. CASE b = c
            BY <1>1, <1>2, <1>3, <1>a, <3>1 DEF Below
        <3>2. CASE b \notin Pending(p)
            BY <1>3, <3>2 DEF Below
        <3>3. CASE b \in Pending(p) \ {c}
            <4>1. seenCount[b] < a + w <=> seenCount[b] < a
                BY <1>2, <1>4, <1>5, <3>3
            <4> QED
                BY <1>1, <1>3, <3>3, <4>1 DEF Below
        <3> QED
            BY <3>1, <3>2, <3>3
    <2>3. Sum(Below(p, a + w)') = Sum(Below(p, a))
        BY <2>2, SumSame
    <2> QED
        BY <2>3 DEF Sum, Total
<1>10. D = Gone(p) + overcommit[p] + Sum(Wanted(p)) /\ Sum(Wanted(p)) \in Nat
    BY SumTypes DEF StreamInv, CountInv
<1> HIDE DEF D
<1>11. CountInv(p)'
    <2>1. optimistic'[p] = Gone(p)' + overcommit'[p] + Sum(Wanted(p))'
        BY <1>1, <1>2, <1>6, <1>7, <1>10 DEF D
    <2> QED
        BY <2>1 DEF CountInv
<1>12. RangeInv(p)'
    BY <1>1, <1>3 DEF StreamInv, RangeInv
<1>13. ClaimInv(p)'
    <2>1. PICK e \in 0 .. D :
            /\ Gone(p) + Sum(Below(p, e)) <= tail[p]
            /\ \A b \in Pending(p), k \in Nat :
                    k = seenCount[b] /\ k >= e =>
                        Gone(p) + Sum(Below(p, k)) + seenOver[b] <= k
        BY DEF StreamInv, ClaimInv, D
    <2>2. e \in Nat /\ D = optimistic'[p]
          /\ \A k \in Nat : Sum(Below(p, k)) \in Nat
        BY <1>1, <1>2, <2>1, SumTypes DEF D
    <2>3. CASE a < e \/ got = 0
        <3>1. Gone(p)' + Sum(Below(p, e))' <= tail'[p]
            BY <1>1, <1>2, <1>6, <1>8, <2>1, <2>2, <2>3
        <3>2. ASSUME NEW b \in Pending(p)', NEW k \in Nat,
                     k = seenCount'[b], k >= e
              PROVE  Gone(p)' + Sum(Below(p, k))' + seenOver'[b] <= k
            <4>1. Gone(p) + Sum(Below(p, k)) + seenOver[b] <= k
                BY <1>1, <1>3, <2>1, <3>2
            <4>2. Gone(p)' + Sum(Below(p, k))' <= Gone(p) + Sum(Below(p, k))
                BY <1>2, <1>6, <1>8, <2>2, <2>3, <3>2
            <4>3. seenOver'[b] = seenOver[b] /\ seenOver[b] \in Nat
                  /\ Sum(Below(p, k))' \in Int
                BY <1>1, <1>2, <1>3, <1>4, <1>8, <2>2
            <4> QED
                BY <1>2, <1>6, <2>2, <4>1, <4>2, <4>3
        <3> QED
            BY <2>1, <2>2, <3>1, <3>2 DEF ClaimInv
    <2>4. CASE a >= e /\ got > 0
        <3>1. Gone(p) + Sum(Below(p, a)) + seenOver[c] <= a
            BY <1>2, <1>3, <1>a, <2>1, <2>4
        <3>2. Gone(p)' + Sum(Below(p, a + w))' <= tail'[p]
            BY <1>1, <1>2, <1>6, <1>9, <2>2, <2>4, <3>1
        <3>3. a + w \in 0 .. optimistic'[p]
            BY <1>2, <1>3, <1>4, <1>w, <1>a, <2>2
        <3>4. ASSUME NEW b \in Pending(p)', NEW k \in Nat,
                     k = seenCount'[b], k >= a + w
              PROVE  Gone(p)' + Sum(Below(p, k))' + seenOver'[b] <= k
            <4>1. k >= e /\ a < k
                BY <1>2, <2>2, <2>4, <3>4
            <4>2. Gone(p) + Sum(Below(p, k)) + seenOver[b] <= k
                BY <1>1, <1>3, <2>1, <3>4, <4>1
            <4>3. Sum(Below(p, k))' = Sum(Below(p, k)) - w
                BY <1>8, <4>1
            <4>4. seenOver'[b] = seenOver[b] /\ seenOver[b] \in Nat
                BY <1>1, <1>3, <1>4
            <4>5. Sum(Below(p, k)) \in Nat /\ Gone(p) \in Nat
                BY <1>2, <2>2
            <4>6. Gone(p)' + Sum(Below(p, k))' <= Gone(p) + Sum(Below(p, k))
                BY <1>2, <1>6, <4>3, <4>5
            <4>7. Gone(p)' \in Nat /\ Sum(Below(p, k))' \in Int
                BY <1>2, <1>6, <4>3, <4>5
            <4> QED
                BY <4>2, <4>4, <4>5, <4>6, <4>7
        <3> QED
            BY <3>2, <3>3, <3>4 DEF ClaimInv
    <2> QED
        BY <1>2, <2>2, <2>3, <2>4
<1> QED
    BY <1>11, <1>12, <1>13 DEF StreamInv

-----------------------------------------------------------------------------
(* fetch_add of headIndex *)

LEMMA TakeFacts ==
    ASSUME TypeOK, NEW c \in Consumers, Take(c)
    PROVE  /\ pc[c] = "take" /\ at[c] \in Producers
           /\ head' = [head EXCEPT ![at[c]] = @ + mine[c]]
           /\ need' = [need EXCEPT ![c] = @ - mine[c]]
           /\ mine' = [mine EXCEPT ![c] = 0]
           /\ want' = [want EXCEPT ![c] = 0]
           /\ seenOver' = [seenOver EXCEPT ![c] = 0]
           /\ seenCount' = [seenCount EXCEPT ![c] = 0]
           /\ \A b \in Consumers \ {c} : at'[b] = at[b] /\ pc'[b] = pc[b]
           /\ pc'[c] \in {"idle", "score", "check"}
           /\ UNCHANGED <<listed, tail, optimistic, overcommit, permits,
                          unsignalled, max>>
<1>1. /\ pc[c] = "take"
      /\ head' = [head EXCEPT ![at[c]] = @ + mine[c]]
      /\ need' = [need EXCEPT ![c] = @ - mine[c]]
      /\ mine' = [mine EXCEPT ![c] = 0] /\ want' = [want EXCEPT ![c] = 0]
      /\ seenOver' = [seenOver EXCEPT ![c] = 0]
      /\ seenCount' = [seenCount EXCEPT ![c] = 0]
      /\ UNCHANGED <<listed, tail, optimistic, overcommit, permits,
                     unsignalled, max>>
    BY DEF Take
<1>2. at[c] \in Producers
    BY <1>1 DEF TypeOK
<1>3. (Goto(c, "idle") /\ UNCHANGED search) \/ NextStream(c)
    BY Zenon DEF Take
<1>4. (\A b \in Consumers \ {c} : at'[b] = at[b] /\ pc'[b] = pc[b])
      /\ pc'[c] \in {"idle", "score", "check"}
    <2>1. CASE Goto(c, "idle") /\ UNCHANGED search
        BY <2>1 DEF Goto, search, TypeOK
    <2>2. CASE NextStream(c)
        BY <2>2 DEF NextStream, Restart, Goto, search, TypeOK
    <2> QED
        BY <1>3, <2>1, <2>2
<1> QED
    BY <1>1, <1>2, <1>4

LEMMA TakeStream ==
    ASSUME TypeOK, TypeOK', PlaceInv, NEW c \in Consumers, Take(c),
           NEW p \in Producers, StreamInv(p)
    PROVE  StreamInv(p)'
<1>1. Pending(p)' = Pending(p) /\ c \notin Pending(p)
    BY TakeFacts DEF Pending
<1>2. \A b \in Pending(p) : /\ want'[b] = want[b]
                           /\ seenOver'[b] = seenOver[b]
                           /\ seenCount'[b] = seenCount[b]
    BY <1>1, TakeFacts DEF TypeOK, Pending
<1>3. mine[c] \in 0 .. MaxBulk /\ MaxBulk \in Nat
    BY NumbersAssumption DEF TypeOK
<1>4. Mine(p)'[c] = 0 /\ (\A b \in Consumers \ {c} : Mine(p)[b] = Mine(p)'[b])
      /\ Mine(p)[c] = (IF at[c] = p THEN mine[c] ELSE 0)
    BY TakeFacts DEF Mine, TypeOK
<1>5. Mine(p)'[c] \in 0 .. MaxBulk /\ Mine(p)[c] \in 0 .. MaxBulk
    BY <1>3, <1>4
<1>6. Sum(Mine(p)') = Sum(Mine(p)) + Mine(p)'[c] - Mine(p)[c]
    BY <1>4, <1>5, SumChanges
<1>7. head[p] \in Nat /\ head'[p] = head[p] + Mine(p)[c]
    BY <1>4, TakeFacts DEF TypeOK
<1>8. head'[p] + Sum(Mine(p)') = head[p] + Sum(Mine(p))
    BY <1>4, <1>5, <1>6, <1>7, SumTypes
<1>9. Gone(p)' = Gone(p)
    BY <1>8 DEF Gone, Sum, Total
<1>10. /\ overcommit'[p] = overcommit[p] /\ optimistic'[p] = optimistic[p]
       /\ tail'[p] = tail[p] /\ tail[p] \in Nat
    BY TakeFacts DEF TypeOK
<1>11. tail[p] <= tail'[p]
    BY <1>10
<1> QED
    BY <1>1, <1>2, <1>9, <1>10, <1>11, StreamKept

-----------------------------------------------------------------------------
(* Type correctness *)

(* A consumer that has, or finds, a permit also finds a stream. *)
LEMMA SomeStreamIsListed ==
    ASSUME TypeOK, EveryPermitHasElement, ListInv,
           permits > 0 \/ \E c \in Consumers : need[c] > 0
    PROVE  listed > 0
<1>1. IsFiniteSet(Consumers) /\ MaxBulk \in Nat /\ MaxElements \in Nat
    BY ConsumersAssumption, NumbersAssumption
<1>2. IsFiniteSet(Producers)
    BY NumbersAssumption, FS_Interval DEF Producers
<1>3. /\ permits \in Nat /\ Total(Consumers, MaxBulk, need) \in Nat
      /\ Total(Producers, MaxBulk, unsignalled) \in Nat
    BY <1>1, <1>2, TotalType DEF TypeOK
<1>4. permits > 0 \/ Total(Consumers, MaxBulk, need) > 0
    <2>1. ASSUME NEW c \in Consumers, need[c] > 0
          PROVE  Total(Consumers, MaxBulk, need) > 0
        <3>1. need[c] \in 0 .. MaxBulk
            BY <2>1 DEF TypeOK
        <3>2. need[c] <= Total(Consumers, MaxBulk, need)
            BY <1>1, <3>1, TotalAtLeast
        <3> QED
            BY <1>3, <2>1, <3>1, <3>2
    <2> QED
        BY <2>1
<1>5. Total(Producers, MaxElements, Size) # 0
    BY <1>3, <1>4 DEF EveryPermitHasElement
<1>6. PICK p \in Producers : \E i \in 1 .. MaxElements : i <= Size[p]
    BY <1>1, <1>5, TotalHasUnit
<1>7. tail[p] \in Nat /\ head[p] \in Nat /\ tail[p] - head[p] > 0
    BY <1>1, <1>6 DEF Size, TypeOK
<1>8. tail[p] # 0
    BY <1>7
<1>9. ~(p > listed)
    BY <1>6, <1>8 DEF ListInv
<1>10. p \in Nat /\ p > 0 /\ listed \in Int
    BY <1>6, NumbersAssumption DEF TypeOK, Producers
<1> QED
    BY <1>9, <1>10

(* What Restart and NextStream leave to a consumer that has need elements
   still to find. *)
LEMMA NextStreamType ==
    ASSUME TypeOK, NEW c \in Consumers, listed > 0,
           Restart(c) \/ NextStream(c)
    PROVE  /\ at' \in [Consumers -> Producers \union {None}]
           /\ best' \in [Consumers -> Producers \union {None}]
           /\ bestSize' \in [Consumers -> Nat]
           /\ nonEmpty' \in [Consumers -> Nat]
           /\ pc' \in [Consumers -> Pc] /\ pc'[c] \in {"score", "check"}
           /\ pc'[c] = "check" => at'[c] # None
           /\ nonEmpty'[c] > 0 => best'[c] # None
           /\ bestSize'[c] > 0 => bestSize'[c] = bestSize[c]
                                  /\ best'[c] = best[c]
           /\ \A b \in Consumers \ {c} :
                /\ at'[b] = at[b] /\ best'[b] = best[b] /\ pc'[b] = pc[b]
                /\ bestSize'[b] = bestSize[b] /\ nonEmpty'[b] = nonEmpty[b]
<1>1. \A q \in 1 .. listed : q \in Producers /\ q # None
    BY NumbersAssumption DEF TypeOK, Producers, None
<1>0. listed \in Producers /\ listed # None
    <2>1. listed \in 1 .. listed
        BY DEF TypeOK
    <2> QED
        BY <1>1, <2>1
<1>2. CASE Restart(c)
    <2>1. /\ at' = [at EXCEPT ![c] = listed]
          /\ best' = [best EXCEPT ![c] = None]
          /\ bestSize' = [bestSize EXCEPT ![c] = 0]
          /\ nonEmpty' = [nonEmpty EXCEPT ![c] = 0]
          /\ pc' = [pc EXCEPT ![c] = IF max[c] = 1 THEN "score" ELSE "check"]
        BY <1>2 DEF Restart, Goto
    <2> QED
        BY <1>0, <2>1 DEF TypeOK, Pc
<1>3. CASE NextStream(c) /\ ~Restart(c)
    <2>1. PICK q \in Untried(c) :
            /\ at' = [at EXCEPT ![c] = q] /\ pc' = [pc EXCEPT ![c] = "check"]
            /\ UNCHANGED <<best, bestSize, nonEmpty>>
        BY <1>3 DEF NextStream, Goto
    <2>2. q \in Producers /\ q # None
        BY <1>1 DEF Untried
    <2> QED
        BY <2>1, <2>2 DEF TypeOK, Pc
<1> QED
    BY <1>2, <1>3

LEMMA PutType ==
    ASSUME TypeOK,
           \/ AddProducer
           \/ \E p \in Producers :
                Signal(p) \/ \E n \in 1 .. MaxBulk : Enqueue(p, n)
    PROVE  TypeOK'
<1>1. ASSUME AddProducer PROVE TypeOK'
    BY <1>1, NumbersAssumption DEF AddProducer, TypeOK, search, claim
<1>2. ASSUME NEW p \in Producers, Signal(p) PROVE TypeOK'
    BY <1>2, NumbersAssumption DEF Signal, TypeOK, counters, search, claim
<1>3. ASSUME NEW p \in Producers, NEW n \in 1 .. MaxBulk, Enqueue(p, n)
      PROVE  TypeOK'
    BY <1>3, NumbersAssumption DEF Enqueue, TypeOK, search, claim
<1> QED
    BY <1>1, <1>2, <1>3

LEMMA CallType ==
    ASSUME TypeOK, NEW c \in Consumers,
           GiveUp(c) \/ \E n \in 1 .. MaxBulk : Call(c, n)
    PROVE  TypeOK'
<1>1. ASSUME GiveUp(c) PROVE TypeOK'
    BY <1>1 DEF GiveUp, Goto, TypeOK, Pc, counters, search, claim
<1>2. ASSUME NEW n \in 1 .. MaxBulk, Call(c, n) PROVE TypeOK'
    BY <1>2, NumbersAssumption
       DEF Call, Goto, TypeOK, Pc, counters, search, claim
<1> QED
    BY <1>1, <1>2

LEMMA AcquireType ==
    ASSUME TypeOK, PlaceInv, EveryPermitHasElement, ListInv,
           NEW c \in Consumers, NEW k \in 1 .. MaxBulk, Acquire(c, k)
    PROVE  TypeOK'
<1>1. /\ pc[c] = "wait" /\ k <= permits /\ permits' = permits - k
      /\ need' = [need EXCEPT ![c] = k] /\ Restart(c)
      /\ UNCHANGED <<counters, unsignalled, max, claim>>
    BY DEF Acquire
<1>2. listed > 0
    <2>1. permits > 0
        BY <1>1 DEF TypeOK
    <2> QED
        BY <2>1, SomeStreamIsListed
<1>3. mine[c] = 0 /\ want[c] = 0
    BY <1>1, NumbersAssumption DEF PlaceInv, TypeOK
<1>4. permits' \in Nat /\ need' \in [Consumers -> 0 .. MaxBulk]
    BY <1>1, NumbersAssumption DEF TypeOK
<1>5. /\ listed' \in 0 .. NumProducers
      /\ tail' \in [Producers -> 0 .. MaxElements]
      /\ head' \in [Producers -> Nat]
      /\ optimistic' \in [Producers -> Nat]
      /\ overcommit' \in [Producers -> Nat]
      /\ unsignalled' \in [Producers -> 0 .. MaxBulk]
      /\ max' \in [Consumers -> 0 .. MaxBulk]
      /\ want' \in [Consumers -> 0 .. MaxBulk]
      /\ mine' \in [Consumers -> 0 .. MaxBulk]
      /\ seenOver' \in [Consumers -> Nat] /\ seenCount' \in [Consumers -> Nat]
    BY <1>1 DEF TypeOK, counters, claim
<1>6. /\ at' \in [Consumers -> Producers \union {None}]
      /\ best' \in [Consumers -> Producers \union {None}]
      /\ bestSize' \in [Consumers -> Nat] /\ nonEmpty' \in [Consumers -> Nat]
      /\ pc' \in [Consumers -> Pc]
    BY <1>1, <1>2, NextStreamType
<1>7. ASSUME NEW b \in Consumers
      PROVE  /\ pc'[b] \in {"idle", "wait"} <=> need'[b] = 0
             /\ nonEmpty'[b] > 0 => best'[b] # None
             /\ pc'[b] \in {"check", "claim", "decide", "take"} =>
                    at'[b] # None
             /\ mine'[b] <= need'[b] /\ want'[b] <= need'[b]
    <2>1. CASE b = c
        BY <1>1, <1>2, <1>3, <1>4, <2>1, NextStreamType DEF TypeOK, claim
    <2>2. CASE b # c
        BY <1>1, <1>2, <2>2, NextStreamType DEF TypeOK, claim
    <2> QED
        BY <2>1, <2>2
<1> QED
    BY <1>4, <1>5, <1>6, <1>7 DEF TypeOK

LEMMA ScoreType ==
    ASSUME TypeOK, PlaceInv, NEW c \in Consumers, Score(c)
    PROVE  TypeOK'
<1> DEFINE p == at[c]
<1>1. /\ pc[c] = "score" /\ p # None
      /\ at' = [at EXCEPT ![c] = p - 1]
      /\ UNCHANGED <<counters, permits, unsignalled, pc, max, need, claim>>
    BY DEF Score, AllScored
<1>2. /\ p \in Producers /\ SizeApprox(p) \in Nat
      /\ p - 1 \in Producers \union {None}
    <2>1. p \in Producers
        BY <1>1 DEF TypeOK
    <2>2. tail[p] \in Nat /\ head[p] \in Nat
        BY <2>1, NumbersAssumption DEF TypeOK
    <2> HIDE DEF p
    <2>3. SizeApprox(p) \in Nat
        BY <2>2 DEF SizeApprox
    <2>4. p - 1 \in Producers \union {None}
        BY <2>1, NumbersAssumption DEF Producers, None
    <2> QED
        BY <2>1, <2>3, <2>4
<1>3. at' \in [Consumers -> Producers \union {None}]
    BY <1>1, <1>2 DEF TypeOK
<1>4. /\ best' \in [Consumers -> Producers \union {None}]
      /\ bestSize' \in [Consumers -> Nat] /\ nonEmpty' \in [Consumers -> Nat]
      /\ nonEmpty'[c] > 0 => best'[c] # None
      /\ \A b \in Consumers \ {c} :
            best'[b] = best[b] /\ nonEmpty'[b] = nonEmpty[b]
    BY <1>1, <1>2 DEF Score, TypeOK, PlaceInv
<1>5. ASSUME NEW b \in Consumers
      PROVE  /\ nonEmpty'[b] > 0 => best'[b] # None
             /\ pc'[b] \in {"check", "claim", "decide", "take"} =>
                    at'[b] # None
    BY <1>1, <1>4 DEF TypeOK
<1> QED
    BY <1>1, <1>3, <1>4, <1>5 DEF TypeOK, counters, claim

LEMMA TryBestType ==
    ASSUME TypeOK, EveryPermitHasElement, ListInv,
           NEW c \in Consumers, TryBest(c)
    PROVE  TypeOK'
<1>1. /\ pc[c] = "score" /\ need[c] > 0
      /\ UNCHANGED <<counters, permits, unsignalled, max, need, claim>>
    BY DEF TryBest, TypeOK
<1>2. CASE Restart(c)
    <2>1. listed > 0
        BY <1>1, SomeStreamIsListed
    <2>2. /\ at' \in [Consumers -> Producers \union {None}]
          /\ best' \in [Consumers -> Producers \union {None}]
          /\ bestSize' \in [Consumers -> Nat]
          /\ nonEmpty' \in [Consumers -> Nat] /\ pc' \in [Consumers -> Pc]
          /\ pc'[c] \in {"score", "check"}
          /\ pc'[c] = "check" => at'[c] # None
          /\ nonEmpty'[c] > 0 => best'[c] # None
          /\ \A b \in Consumers \ {c} :
                /\ at'[b] = at[b] /\ best'[b] = best[b] /\ pc'[b] = pc[b]
                /\ nonEmpty'[b] = nonEmpty[b]
        BY <1>2, <2>1, NextStreamType
    <2>3. ASSUME NEW b \in Consumers
          PROVE  /\ pc'[b] \in {"idle", "wait"} <=> need'[b] = 0
                 /\ nonEmpty'[b] > 0 => best'[b] # None
                 /\ pc'[b] \in {"check", "claim", "decide", "take"} =>
                        at'[b] # None
        BY <1>1, <2>2 DEF TypeOK
    <2> QED
        BY <1>1, <2>2, <2>3 DEF TypeOK, counters, claim
<1>3. CASE /\ nonEmpty[c] # 0
           /\ at' = [at EXCEPT ![c] = best[c]] /\ Goto(c, "check")
           /\ UNCHANGED <<best, bestSize, nonEmpty>>
    BY <1>1, <1>3 DEF Goto, TypeOK, Pc, counters, claim
<1>4. Restart(c) \/ /\ nonEmpty[c] # 0
                    /\ at' = [at EXCEPT ![c] = best[c]] /\ Goto(c, "check")
                    /\ UNCHANGED <<best, bestSize, nonEmpty>>
    BY Zenon DEF TryBest
<1> QED
    BY <1>2, <1>3, <1>4

LEMMA CheckType ==
    ASSUME TypeOK, EveryPermitHasElement, ListInv,
           NEW c \in Consumers, Check(c)
    PROVE  TypeOK'
<1>1. /\ pc[c] = "check" /\ need[c] > 0 /\ at[c] \in Producers
      /\ UNCHANGED <<counters, permits, unsignalled, max, need, mine,
                     seenCount>>
    BY DEF Check, TypeOK
<1>2. CASE NextStream(c) /\ UNCHANGED <<want, seenOver>>
    <2>1. listed > 0
        BY <1>1, SomeStreamIsListed
    <2>2. /\ at' \in [Consumers -> Producers \union {None}]
          /\ best' \in [Consumers -> Producers \union {None}]
          /\ bestSize' \in [Consumers -> Nat]
          /\ nonEmpty' \in [Consumers -> Nat] /\ pc' \in [Consumers -> Pc]
          /\ pc'[c] \in {"score", "check"}
          /\ pc'[c] = "check" => at'[c] # None
          /\ nonEmpty'[c] > 0 => best'[c] # None
          /\ \A b \in Consumers \ {c} :
                /\ at'[b] = at[b] /\ best'[b] = best[b] /\ pc'[b] = pc[b]
                /\ nonEmpty'[b] = nonEmpty[b]
        BY <1>2, <2>1, NextStreamType
    <2>3. ASSUME NEW b \in Consumers
          PROVE  /\ pc'[b] \in {"idle", "wait"} <=> need'[b] = 0
                 /\ nonEmpty'[b] > 0 => best'[b] # None
                 /\ pc'[b] \in {"check", "claim", "decide", "take"} =>
                        at'[b] # None
        BY <1>1, <2>2 DEF TypeOK
    <2> QED
        BY <1>1, <1>2, <2>2, <2>3 DEF TypeOK, counters
<1>3. CASE /\ Claimable(at[c]) > 0
           /\ want' = [want EXCEPT ![c] = Minimum(Claimable(at[c]), need[c])]
           /\ seenOver' = [seenOver EXCEPT ![c] = overcommit[at[c]]]
           /\ Goto(c, "claim") /\ UNCHANGED search
    <2>1. Minimum(Claimable(at[c]), need[c]) \in 1 .. need[c]
        BY <1>1, <1>3 DEF Minimum, Claimable, TypeOK
    <2>2. want' \in [Consumers -> 0 .. MaxBulk]
          /\ \A b \in Consumers : want'[b] <= need[b]
        BY <1>1, <1>3, <2>1, NumbersAssumption DEF TypeOK
    <2> QED
        BY <1>1, <1>3, <2>2 DEF Goto, TypeOK, Pc, counters, search
<1>4. \/ /\ Claimable(at[c]) > 0
         /\ want' = [want EXCEPT ![c] = Minimum(Claimable(at[c]), need[c])]
         /\ seenOver' = [seenOver EXCEPT ![c] = overcommit[at[c]]]
         /\ Goto(c, "claim") /\ UNCHANGED search
      \/ NextStream(c) /\ UNCHANGED <<want, seenOver>>
    BY Zenon DEF Check
<1> QED
    BY <1>2, <1>3, <1>4

LEMMA ClaimType ==
    ASSUME TypeOK, NEW c \in Consumers, Claim(c)
    PROVE  TypeOK'
<1>1. at[c] \in Producers
    BY DEF Claim, TypeOK
<1>2. optimistic' \in [Producers -> Nat] /\ seenCount' \in [Consumers -> Nat]
    BY <1>1, NumbersAssumption DEF Claim, TypeOK
<1> QED
    BY <1>2 DEF Claim, Goto, search, TypeOK, Pc

LEMMA DecideType ==
    ASSUME TypeOK, PlaceInv, NEW c \in Consumers, Decide(c)
    PROVE  TypeOK'
<1>1. mine' \in [Consumers -> 0 .. MaxBulk]
      /\ \A b \in Consumers : mine'[b] <= need[b]
    BY DecideFacts, NumbersAssumption DEF TypeOK
<1>2. overcommit' \in [Producers -> Nat]
    BY DecideFacts, NumbersAssumption DEF TypeOK
<1> QED
    BY <1>1, <1>2, DecideFacts DEF search, TypeOK, Pc

LEMMA TakeType ==
    ASSUME TypeOK, EveryPermitHasElement, ListInv,
           NEW c \in Consumers, Take(c)
    PROVE  TypeOK'
<1>1. pc[c] = "take" /\ need[c] > 0 /\ mine[c] \in 0 .. need[c]
      /\ need[c] \in 0 .. MaxBulk
    BY NumbersAssumption, TakeFacts DEF TypeOK
<1>2. listed > 0
    BY <1>1, SomeStreamIsListed
<1>3. head' \in [Producers -> Nat] /\ need' \in [Consumers -> 0 .. MaxBulk]
      /\ need'[c] = need[c] - mine[c]
      /\ \A b \in Consumers \ {c} : need'[b] = need[b]
    <2>1. head' = [head EXCEPT ![at[c]] = @ + mine[c]] /\ at[c] \in Producers
          /\ need' = [need EXCEPT ![c] = @ - mine[c]]
        BY TakeFacts
    <2>2. head[at[c]] + mine[c] \in Nat /\ need[c] - mine[c] \in 0 .. MaxBulk
        BY <1>1, <2>1, NumbersAssumption DEF TypeOK
    <2> QED
        BY <2>1, <2>2 DEF TypeOK
<1>4. /\ mine' \in [Consumers -> 0 .. MaxBulk]
      /\ want' \in [Consumers -> 0 .. MaxBulk]
      /\ seenOver' \in [Consumers -> Nat] /\ seenCount' \in [Consumers -> Nat]
      /\ \A b \in Consumers : mine'[b] <= need'[b] /\ want'[b] <= need'[b]
    <2>1. /\ mine' = [mine EXCEPT ![c] = 0] /\ want' = [want EXCEPT ![c] = 0]
          /\ seenOver' = [seenOver EXCEPT ![c] = 0]
          /\ seenCount' = [seenCount EXCEPT ![c] = 0]
        BY TakeFacts
    <2>2. 0 \in 0 .. MaxBulk /\ 0 <= need'[c]
        BY <1>1, <1>3, NumbersAssumption
    <2> QED
        BY <1>3, <2>1, <2>2 DEF TypeOK
<1>5. \/ mine[c] = need[c] /\ Goto(c, "idle") /\ UNCHANGED search
      \/ mine[c] # need[c] /\ NextStream(c)
    BY Zenon DEF Take
<1>6. /\ at' \in [Consumers -> Producers \union {None}]
      /\ best' \in [Consumers -> Producers \union {None}]
      /\ bestSize' \in [Consumers -> Nat]
      /\ nonEmpty' \in [Consumers -> Nat] /\ pc' \in [Consumers -> Pc]
      /\ \A b \in Consumers : /\ pc'[b] \in {"idle", "wait"} <=> need'[b] = 0
                              /\ nonEmpty'[b] > 0 => best'[b] # None
                              /\ pc'[b] \in {"check", "claim", "decide", "take"}
                                    => at'[b] # None
    <2>1. CASE mine[c] = need[c] /\ Goto(c, "idle") /\ UNCHANGED search
        BY <1>1, <1>3, <2>1 DEF Goto, search, TypeOK, Pc
    <2>2. CASE mine[c] # need[c] /\ NextStream(c)
        <3>1. need'[c] # 0
            BY <1>1, <1>3, <2>2
        <3> QED
            BY <1>2, <1>3, <2>2, <3>1, NextStreamType DEF TypeOK
    <2> QED
        BY <1>5, <2>1, <2>2
<1>7. /\ listed' \in 0 .. NumProducers
      /\ tail' \in [Producers -> 0 .. MaxElements]
      /\ optimistic' \in [Producers -> Nat]
      /\ overcommit' \in [Producers -> Nat]
      /\ permits' \in Nat /\ unsignalled' \in [Producers -> 0 .. MaxBulk]
      /\ max' \in [Consumers -> 0 .. MaxBulk]
    BY TakeFacts DEF TypeOK
<1> QED
    BY <1>3, <1>4, <1>6, <1>7 DEF TypeOK

LEMMA TypeStep ==
    ASSUME QueueInv, Next
    PROVE  TypeOK'
<1> USE DEF QueueInv
<1>1. CASE \/ AddProducer
           \/ \E p \in Producers :
                Signal(p) \/ \E n \in 1 .. MaxBulk : Enqueue(p, n)
    BY <1>1, PutType
<1>2. ASSUME NEW c \in Consumers,
             GiveUp(c) \/ \E n \in 1 .. MaxBulk : Call(c, n)
      PROVE  TypeOK'
    BY <1>2, CallType
<1>3. ASSUME NEW c \in Consumers, Dequeue(c) PROVE TypeOK'
    BY <1>3, AcquireType, ScoreType, TryBestType, CheckType, ClaimType,
       DecideType, TakeType DEF Dequeue
<1> QED
    BY <1>1, <1>2, <1>3 DEF Next

-----------------------------------------------------------------------------
(* The places of the consumers, and the streams in the list *)

LEMMA ListStep ==
    ASSUME TypeOK, ListInv, Next
    PROVE  ListInv'
<1>1. CASE AddProducer
    BY <1>1, NumbersAssumption DEF AddProducer, ListInv, TypeOK, Producers
<1>2. ASSUME NEW p \in Producers, NEW n \in 1 .. MaxBulk, Enqueue(p, n)
      PROVE  ListInv'
    <2>1. listed' = listed /\ p <= listed /\ tail' = [tail EXCEPT ![p] = @ + n]
        BY <1>2 DEF Enqueue
    <2>2. ASSUME NEW q \in Producers, q > listed' PROVE tail'[q] = 0
        <3>1. q # p
            BY <1>2, <2>1, <2>2, NumbersAssumption DEF TypeOK, Producers
        <3>2. tail'[q] = tail[q]
            BY <2>1, <2>2, <3>1 DEF TypeOK
        <3> QED
            BY <2>1, <2>2, <3>2 DEF ListInv
    <2> QED
        BY <2>2 DEF ListInv
<1>3. ASSUME UNCHANGED <<listed, tail>> PROVE ListInv'
    BY <1>3 DEF ListInv
<1>4. ASSUME NEW p \in Producers, Signal(p) PROVE UNCHANGED <<listed, tail>>
    BY <1>4 DEF Signal, counters
<1>5. ASSUME NEW c \in Consumers,
             Dequeue(c) \/ GiveUp(c) \/ \E n \in 1 .. MaxBulk : Call(c, n)
      PROVE  UNCHANGED <<listed, tail>>
    BY <1>5 DEF Dequeue, GiveUp, Call, Acquire, Score, TryBest, Check, Claim,
                Decide, Take, counters
<1> QED
    BY <1>1, <1>2, <1>3, <1>4, <1>5 DEF Next

LEMMA PlaceStep ==
    ASSUME TypeOK, TypeOK', PlaceInv, Next
    PROVE  PlaceInv'
<1>1. CASE \/ AddProducer
           \/ \E p \in Producers :
                Signal(p) \/ \E n \in 1 .. MaxBulk : Enqueue(p, n)
    <2>1. UNCHANGED <<overcommit, pc, at, best, bestSize, want, mine, seenOver>>
        BY <1>1 DEF AddProducer, Signal, Enqueue, counters, search, claim
    <2> QED
        BY <2>1 DEF PlaceInv
<1>2. ASSUME NEW c \in Consumers,
             GiveUp(c) \/ \E n \in 1 .. MaxBulk : Call(c, n)
      PROVE  PlaceInv'
    <2>1. /\ UNCHANGED <<overcommit, at, best, bestSize, want, mine, seenOver>>
          /\ pc[c] \in {"idle", "wait"} /\ pc'[c] \in {"idle", "wait"}
          /\ \A b \in Consumers \ {c} : pc'[b] = pc[b]
        BY <1>2 DEF GiveUp, Call, Goto, counters, search, claim, TypeOK
    <2> QED
        BY <2>1 DEF PlaceInv
<1>3. ASSUME NEW c \in Consumers, NEW k \in 1 .. MaxBulk, Acquire(c, k)
      PROVE  PlaceInv'
    <2>1. /\ UNCHANGED <<overcommit, want, mine, seenOver>>
          /\ pc[c] = "wait" /\ pc'[c] \in {"score", "check"}
          /\ bestSize'[c] = 0
          /\ \A b \in Consumers \ {c} :
                /\ pc'[b] = pc[b] /\ at'[b] = at[b]
                /\ best'[b] = best[b] /\ bestSize'[b] = bestSize[b]
        BY <1>3 DEF Acquire, Restart, Goto, counters, claim, TypeOK
    <2> QED
        BY <2>1 DEF PlaceInv, TypeOK
<1>4. ASSUME NEW c \in Consumers, Score(c)
      PROVE  PlaceInv'
    <2>1. /\ UNCHANGED <<pc, overcommit, want, mine, seenOver>>
          /\ pc[c] = "score" /\ at[c] # None
          /\ best'[c] = at[c] \/ UNCHANGED <<best, bestSize>>
          /\ \A b \in Consumers \ {c} :
                /\ at'[b] = at[b]
                /\ best'[b] = best[b] /\ bestSize'[b] = bestSize[b]
        BY <1>4 DEF Score, AllScored, counters, claim, TypeOK
    <2> QED
        BY <2>1 DEF PlaceInv
<1>5. ASSUME NEW c \in Consumers, TryBest(c)
      PROVE  PlaceInv'
    <2>1. /\ UNCHANGED <<overcommit, want, mine, seenOver>>
          /\ pc[c] = "score" /\ pc'[c] \in {"score", "check"}
          /\ bestSize'[c] = 0 \/ UNCHANGED <<best, bestSize>>
          /\ \A b \in Consumers \ {c} :
                /\ pc'[b] = pc[b] /\ at'[b] = at[b]
                /\ best'[b] = best[b] /\ bestSize'[b] = bestSize[b]
        BY <1>5 DEF TryBest, Restart, Goto, counters, claim, TypeOK
    <2> QED
        BY <2>1 DEF PlaceInv
<1>6. ASSUME NEW c \in Consumers, Check(c)
      PROVE  PlaceInv'
    <2>1. /\ UNCHANGED <<overcommit, mine>> /\ pc[c] = "check"
          /\ at[c] \in Producers /\ need[c] > 0
        BY <1>6 DEF Check, counters, TypeOK
    <2>2. CASE NextStream(c) /\ UNCHANGED <<want, seenOver>>
        <3>1. /\ pc'[c] \in {"score", "check"}
              /\ bestSize'[c] = 0 \/ UNCHANGED <<best, bestSize>>
              /\ \A b \in Consumers \ {c} :
                    /\ pc'[b] = pc[b] /\ at'[b] = at[b]
                    /\ best'[b] = best[b] /\ bestSize'[b] = bestSize[b]
            BY <2>2 DEF NextStream, Restart, Goto, TypeOK
        <3> QED
            BY <2>1, <2>2, <3>1 DEF PlaceInv
    <2>3. CASE /\ Claimable(at[c]) > 0
               /\ want' = [want EXCEPT
                            ![c] = Minimum(Claimable(at[c]), need[c])]
               /\ seenOver' = [seenOver EXCEPT ![c] = overcommit[at[c]]]
               /\ Goto(c, "claim") /\ UNCHANGED search
        <3>1. /\ pc' = [pc EXCEPT ![c] = "claim"]
              /\ UNCHANGED <<at, best, bestSize>>
              /\ Minimum(Claimable(at[c]), need[c]) > 0
              /\ overcommit[at[c]] \in Nat
            BY <2>1, <2>3 DEF Goto, search, Minimum, Claimable, TypeOK
        <3> QED
            BY <2>1, <2>3, <3>1 DEF PlaceInv, TypeOK
    <2>4. \/ /\ Claimable(at[c]) > 0
             /\ want' = [want EXCEPT ![c] = Minimum(Claimable(at[c]), need[c])]
             /\ seenOver' = [seenOver EXCEPT ![c] = overcommit[at[c]]]
             /\ Goto(c, "claim") /\ UNCHANGED search
          \/ NextStream(c) /\ UNCHANGED <<want, seenOver>>
        BY <1>6, Zenon DEF Check
    <2> QED
        BY <2>2, <2>3, <2>4
<1>7. ASSUME NEW c \in Consumers, Claim(c)
      PROVE  PlaceInv'
    <2>1. /\ UNCHANGED <<overcommit, at, best, bestSize, want, mine, seenOver>>
          /\ pc[c] = "claim" /\ pc' = [pc EXCEPT ![c] = "decide"]
        BY <1>7 DEF Claim, Goto, search
    <2> QED
        BY <2>1 DEF PlaceInv, TypeOK
<1>8. ASSUME NEW c \in Consumers, Decide(c)
      PROVE  PlaceInv'
    <2>1. \A q \in Producers : overcommit[q] \in Nat /\ overcommit'[q] \in Nat
                               /\ overcommit[q] <= overcommit'[q]
        <3>1. /\ at[c] \in Producers /\ want[c] - Granted(c) \in Nat
              /\ overcommit' = [overcommit EXCEPT
                                    ![at[c]] = @ + (want[c] - Granted(c))]
            BY <1>8, DecideFacts
        <3> HIDE DEF Granted
        <3>2. overcommit \in [Producers -> Nat]
            BY DEF TypeOK
        <3> QED
            BY <3>1, <3>2
    <2>2. \A b \in Consumers :
            /\ pc'[b] \in {"claim", "decide"} => at[b] \in Producers
            /\ seenOver[b] \in Nat
        <3>1. at' = at
            BY <1>8, DecideFacts DEF search
        <3> QED
            BY <3>1 DEF TypeOK
    <2>3. /\ pc' = [pc EXCEPT ![c] = "take"]
          /\ mine' = [mine EXCEPT ![c] = Granted(c)]
          /\ UNCHANGED <<at, best, bestSize, want, seenOver>>
        BY <1>8, DecideFacts DEF search
    <2>4. ASSUME NEW b \in Consumers
          PROVE  /\ mine'[b] > 0 => pc'[b] = "take"
                 /\ pc'[b] \in {"claim", "decide"} =>
                        want'[b] > 0 /\ seenOver'[b] <= overcommit'[at'[b]]
                 /\ bestSize'[b] > 0 => best'[b] # None
        <3>1. CASE b = c
            BY <2>3, <3>1 DEF PlaceInv, TypeOK
        <3>2. CASE b # c
            <4>1. mine'[b] = mine[b] /\ pc'[b] = pc[b]
                BY <2>3, <3>2 DEF TypeOK
            <4>2. pc[b] \in {"claim", "decide"} =>
                    seenOver[b] <= overcommit'[at[b]]
                BY <2>1, <2>2, <4>1 DEF PlaceInv
            <4> QED
                BY <2>3, <4>1, <4>2 DEF PlaceInv
        <3> QED
            BY <3>1, <3>2
    <2> QED
        BY <2>4 DEF PlaceInv
<1>9. ASSUME NEW c \in Consumers, Take(c)
      PROVE  PlaceInv'
    <2>1. /\ bestSize'[c] = 0 \/ UNCHANGED <<best, bestSize>>
          /\ \A b \in Consumers \ {c} :
                best'[b] = best[b] /\ bestSize'[b] = bestSize[b]
        <3>1. UNCHANGED search \/ NextStream(c)
            BY <1>9, Zenon DEF Take
        <3> QED
            BY <3>1 DEF NextStream, Restart, search, TypeOK
    <2>2. /\ mine'[c] = 0 /\ pc'[c] \in {"idle", "score", "check"}
          /\ overcommit' = overcommit
          /\ \A b \in Consumers \ {c} :
                /\ pc'[b] = pc[b] /\ at'[b] = at[b] /\ mine'[b] = mine[b]
                /\ want'[b] = want[b] /\ seenOver'[b] = seenOver[b]
        BY <1>9, TakeFacts DEF TypeOK
    <2> QED
        BY <2>1, <2>2 DEF PlaceInv
<1> QED
    BY <1>1, <1>2, <1>3, <1>4, <1>5, <1>6, <1>7, <1>8, <1>9 DEF Next, Dequeue

-----------------------------------------------------------------------------
(* The streams *)

LEMMA StreamStep ==
    ASSUME QueueInv, TypeOK', Next, NEW p \in Producers
    PROVE  StreamInv(p)'
<1> USE DEF QueueInv
<1> DEFINE quiet ==
        /\ UNCHANGED <<head, optimistic, overcommit, mine, seenCount>>
        /\ tail[p] <= tail'[p]
        /\ \A c \in Consumers :
               \/ /\ at'[c] = at[c] /\ pc'[c] = pc[c]
                  /\ want'[c] = want[c] /\ seenOver'[c] = seenOver[c]
               \/ pc[c] \notin {"decide", "take"} /\ pc'[c] # "decide"
<1>0. tail[p] \in Nat
    BY NumbersAssumption DEF TypeOK
<1>1. ASSUME quiet PROVE StreamInv(p)'
    BY <1>1, QuietStep
<1>2. ASSUME AddProducer PROVE quiet
    BY <1>0, <1>2 DEF AddProducer, search, claim
<1>3. ASSUME NEW q \in Producers, Signal(q) PROVE quiet
    BY <1>0, <1>3 DEF Signal, counters, search, claim
<1>4. ASSUME NEW q \in Producers, NEW n \in 1 .. MaxBulk, Enqueue(q, n)
      PROVE  quiet
    BY <1>0, <1>4 DEF Enqueue, search, claim, TypeOK
<1>5. ASSUME NEW c \in Consumers, GiveUp(c) PROVE quiet
    BY <1>0, <1>5 DEF GiveUp, Goto, counters, search, claim, TypeOK
<1>6. ASSUME NEW c \in Consumers, NEW n \in 1 .. MaxBulk, Call(c, n)
      PROVE  quiet
    BY <1>0, <1>6 DEF Call, Goto, counters, search, claim, TypeOK
<1>7. ASSUME NEW c \in Consumers, NEW k \in 1 .. MaxBulk, Acquire(c, k)
      PROVE  quiet
    BY <1>0, <1>7 DEF Acquire, Restart, Goto, counters, claim, TypeOK
<1>8. ASSUME NEW c \in Consumers, Score(c) PROVE quiet
    BY <1>0, <1>8 DEF Score, counters, claim, TypeOK
<1>9. ASSUME NEW c \in Consumers, TryBest(c) PROVE quiet
    BY <1>0, <1>9 DEF TryBest, Restart, Goto, counters, claim, TypeOK
<1>10. ASSUME NEW c \in Consumers, Check(c) PROVE quiet
    <2>1. /\ UNCHANGED <<tail, head, optimistic, overcommit, mine, seenCount>>
          /\ pc[c] = "check"
        BY <1>10 DEF Check, counters
    <2>2. CASE NextStream(c) /\ UNCHANGED <<want, seenOver>>
        BY <1>0, <2>1, <2>2 DEF NextStream, Restart, Goto, TypeOK
    <2>3. CASE /\ want' = [want EXCEPT
                            ![c] = Minimum(Claimable(at[c]), need[c])]
               /\ seenOver' = [seenOver EXCEPT ![c] = overcommit[at[c]]]
               /\ Goto(c, "claim") /\ UNCHANGED search
        BY <1>0, <2>1, <2>3 DEF Goto, search, TypeOK
    <2>4. \/ /\ want' = [want EXCEPT ![c] = Minimum(Claimable(at[c]), need[c])]
             /\ seenOver' = [seenOver EXCEPT ![c] = overcommit[at[c]]]
             /\ Goto(c, "claim") /\ UNCHANGED search
          \/ NextStream(c) /\ UNCHANGED <<want, seenOver>>
        BY <1>10, Zenon DEF Check
    <2> QED
        BY <2>2, <2>3, <2>4
<1>11. ASSUME NEW c \in Consumers, Claim(c) PROVE StreamInv(p)'
    BY <1>11, ClaimOwn, ClaimOther
<1>12. ASSUME NEW c \in Consumers, Decide(c) PROVE StreamInv(p)'
    BY <1>12, DecideOwn, DecideOther
<1>13. ASSUME NEW c \in Consumers, Take(c) PROVE StreamInv(p)'
    BY <1>13, TakeStream
<1> HIDE DEF quiet, QueueInv
<1> QED
    BY <1>1, <1>2, <1>3, <1>4, <1>5, <1>6, <1>7, <1>8, <1>9, <1>10, <1>11,
       <1>12, <1>13 DEF Next, Dequeue

-----------------------------------------------------------------------------
(* The permits *)

LEMMA StreamBound ==
    ASSUME TypeOK, NEW p \in Producers, StreamInv(p)
    PROVE  Gone(p) <= tail[p] /\ head[p] <= tail[p]
           /\ \A c \in Consumers : at[c] = p => head[p] + mine[c] <= tail[p]
<1>1. IsFiniteSet(Consumers) /\ MaxBulk \in Nat
    BY ConsumersAssumption, NumbersAssumption
<1>2. PICK e \in 0 .. optimistic[p] : Gone(p) + Sum(Below(p, e)) <= tail[p]
    BY DEF StreamInv, ClaimInv
<1>3. /\ Sum(Below(p, e)) \in Nat /\ Sum(Mine(p)) \in Nat /\ head[p] \in Nat
      /\ tail[p] \in Nat
    BY SumTypes, NumbersAssumption DEF TypeOK
<1>4. Gone(p) <= tail[p] /\ Gone(p) = head[p] + Sum(Mine(p))
    BY <1>2, <1>3 DEF Gone
<1>5. ASSUME NEW c \in Consumers, at[c] = p
      PROVE  head[p] + mine[c] <= tail[p]
    <2>1. Mine(p)[c] = mine[c] /\ mine[c] \in 0 .. MaxBulk
        BY <1>5 DEF Mine, TypeOK
    <2>2. mine[c] <= Sum(Mine(p))
        BY <1>1, <2>1, TotalAtLeast DEF Sum
    <2> QED
        BY <1>1, <1>3, <1>4, <2>1, <2>2
<1> QED
    BY <1>3, <1>4, <1>5

LEMMA StreamsChange ==
    ASSUME NEW most \in Nat, NEW f, NEW g, NEW p \in Producers,
           f[p] \in 0 .. most, g[p] \in 0 .. most,
           \A q \in Producers \ {p} : f[q] = g[q]
    PROVE  Total(Producers, most, g) = Total(Producers, most, f) + g[p] - f[p]
<1>1. IsFiniteSet(Producers)
    BY NumbersAssumption, FS_Interval DEF Producers
<1> QED
    BY <1>1, TotalChanges

LEMMA PermitStep ==
    ASSUME QueueInv, TypeOK', Next
    PROVE  EveryPermitHasElement'
<1> DEFINE elements == Total(Producers, MaxElements, Size)
           needed == Total(Consumers, MaxBulk, need)
           silent == Total(Producers, MaxBulk, unsignalled)
<1>0. /\ IsFiniteSet(Consumers) /\ IsFiniteSet(Producers)
      /\ MaxBulk \in Nat /\ MaxElements \in Nat
    BY ConsumersAssumption, NumbersAssumption, FS_Interval DEF Producers
<1>1. /\ elements \in Nat /\ needed \in Nat /\ silent \in Nat
      /\ permits \in Nat
    BY <1>0, TotalType DEF QueueInv, TypeOK
<1>2. elements = permits + needed + silent
    BY DEF QueueInv, EveryPermitHasElement
<1>3. TypeOK
    BY DEF QueueInv
<1>4. ASSUME NEW p \in Producers
      PROVE  /\ Size[p] = tail[p] - head[p] /\ Size'[p] = tail'[p] - head'[p]
             /\ tail[p] \in 0 .. MaxElements /\ tail'[p] \in 0 .. MaxElements
             /\ head[p] \in Nat /\ head'[p] \in Nat
             /\ head[p] <= tail[p] /\ Size[p] \in 0 .. MaxElements
    <2>1. head[p] <= tail[p]
        BY StreamBound DEF QueueInv
    <2> QED
        BY <1>0, <1>3, <2>1 DEF Size, TypeOK
<1>5. ASSUME UNCHANGED <<tail, head, permits, need, unsignalled>>
      PROVE  EveryPermitHasElement'
    BY <1>2, <1>5 DEF EveryPermitHasElement, Total, Size
<1>6. ASSUME NEW p \in Producers, NEW n \in 1 .. MaxBulk, Enqueue(p, n)
      PROVE  EveryPermitHasElement'
    <2>1. /\ tail' = [tail EXCEPT ![p] = @ + n]
          /\ UNCHANGED <<head, permits, need>>
          /\ unsignalled' = [unsignalled EXCEPT ![p] = n] /\ unsignalled[p] = 0
        BY <1>6 DEF Enqueue
    <2>2. /\ tail'[p] = tail[p] + n /\ unsignalled'[p] = n
          /\ unsignalled[p] \in 0 .. MaxBulk /\ unsignalled'[p] \in 0 .. MaxBulk
          /\ \A q \in Producers \ {p} :
                tail[q] = tail'[q] /\ unsignalled[q] = unsignalled'[q]
        BY <1>6, <1>3, <1>0, <2>1 DEF TypeOK
    <2>3. /\ Size'[p] = Size[p] + n /\ Size'[p] \in 0 .. MaxElements
          /\ Size[p] \in 0 .. MaxElements
          /\ \A q \in Producers \ {p} : Size[q] = Size'[q]
        BY <1>6, <1>0, <1>4, <2>1, <2>2
    <2>4. Total(Producers, MaxElements, Size') = elements + Size'[p] - Size[p]
        <3>1. \A q \in Producers \ {p} : Size[q] = Size'[q]
            BY <2>3
        <3>2. Size[p] \in 0 .. MaxElements /\ Size'[p] \in 0 .. MaxElements
              /\ MaxElements \in Nat /\ p \in Producers
            BY <1>0, <1>6, <2>3
        <3> QED
            BY <3>1, <3>2, StreamsChange
    <2>5. Total(Producers, MaxBulk, unsignalled')
            = silent + unsignalled'[p] - unsignalled[p]
        <3>1. \A q \in Producers \ {p} : unsignalled[q] = unsignalled'[q]
            BY <2>2
        <3> QED
            BY <1>6, <1>0, <2>2, <3>1, StreamsChange
    <2> HIDE DEF elements, needed, silent
    <2>6. Total(Producers, MaxElements, Size') = elements + n
          /\ Total(Producers, MaxBulk, unsignalled') = silent + n
        BY <1>6, <1>0, <1>1, <1>4, <2>1, <2>2, <2>3, <2>4, <2>5
    <2> QED
        BY <1>6, <1>1, <1>2, <2>1, <2>6 DEF EveryPermitHasElement, Total, needed
<1>7. ASSUME NEW p \in Producers, Signal(p)
      PROVE  EveryPermitHasElement'
    <2>1. /\ permits' = permits + unsignalled[p]
          /\ UNCHANGED <<tail, head, need>>
          /\ unsignalled' = [unsignalled EXCEPT ![p] = 0]
        BY <1>7 DEF Signal, counters
    <2>2. /\ unsignalled'[p] = 0 /\ unsignalled[p] \in 0 .. MaxBulk
          /\ unsignalled'[p] \in 0 .. MaxBulk
          /\ \A q \in Producers \ {p} : unsignalled[q] = unsignalled'[q]
        BY <1>7, <1>0, <1>3, <2>1 DEF TypeOK
    <2>3. Total(Producers, MaxBulk, unsignalled')
            = silent + unsignalled'[p] - unsignalled[p]
        BY <1>7, <1>0, <2>2, StreamsChange
    <2>4. Size' = Size
        BY <1>7, <2>1 DEF Size
    <2> HIDE DEF elements, needed, silent
    <2>5. Total(Producers, MaxBulk, unsignalled') = silent - unsignalled[p]
        BY <1>7, <1>0, <1>1, <2>2, <2>3
    <2> QED
        BY <1>7, <1>0, <1>1, <1>2, <2>1, <2>2, <2>4, <2>5
           DEF EveryPermitHasElement, Total, needed, elements
<1>8. ASSUME NEW c \in Consumers, NEW k \in 1 .. MaxBulk, Acquire(c, k)
      PROVE  EveryPermitHasElement'
    <2>1. /\ pc[c] = "wait" /\ permits' = permits - k
          /\ need' = [need EXCEPT ![c] = k]
          /\ UNCHANGED <<tail, head, unsignalled>>
        BY <1>8 DEF Acquire, counters
    <2>2. /\ need[c] = 0 /\ need'[c] = k /\ need[c] \in 0 .. MaxBulk
          /\ need'[c] \in 0 .. MaxBulk
          /\ \A b \in Consumers \ {c} : need[b] = need'[b]
        BY <1>8, <1>0, <1>3, <2>1 DEF TypeOK
    <2>3. Total(Consumers, MaxBulk, need') = needed + need'[c] - need[c]
        BY <1>8, <1>0, <2>2, SumChanges DEF Sum
    <2>4. Size' = Size
        BY <1>8, <2>1 DEF Size
    <2> HIDE DEF elements, needed, silent
    <2>5. Total(Consumers, MaxBulk, need') = needed + k
        BY <1>8, <1>0, <1>1, <2>2, <2>3
    <2> QED
        BY <1>8, <1>0, <1>1, <1>2, <2>1, <2>2, <2>4, <2>5
           DEF EveryPermitHasElement, Total, silent, elements
<1>9. ASSUME NEW c \in Consumers, Take(c)
      PROVE  EveryPermitHasElement'
    <2> DEFINE p == at[c]
    <2>1. /\ p \in Producers /\ UNCHANGED <<tail, permits, unsignalled>>
          /\ head' = [head EXCEPT ![p] = @ + mine[c]]
          /\ need' = [need EXCEPT ![c] = @ - mine[c]]
        BY <1>3, <1>9, TakeFacts
    <2>2. /\ mine[c] \in Nat /\ mine[c] <= need[c] /\ need[c] \in 0 .. MaxBulk
          /\ need'[c] = need[c] - mine[c]
          /\ \A b \in Consumers \ {c} : need[b] = need'[b]
        BY <1>9, <1>0, <1>3, <2>1 DEF TypeOK
    <2>3. need'[c] \in 0 .. MaxBulk
        BY <1>9, <1>0, <2>2
    <2>4. Total(Consumers, MaxBulk, need') = needed + need'[c] - need[c]
        BY <1>9, <1>0, <2>2, <2>3, SumChanges DEF Sum
    <2>5. head[p] + mine[c] <= tail[p]
        BY <1>9, <1>3, <2>1, StreamBound DEF QueueInv
    <2>6. head'[p] = head[p] + mine[c]
          /\ \A q \in Producers \ {p} : head[q] = head'[q]
        BY <1>9, <1>3, <2>1 DEF TypeOK
    <2> HIDE DEF p
    <2>7. /\ Size'[p] = Size[p] - mine[c] /\ Size'[p] \in 0 .. MaxElements
          /\ Size[p] \in 0 .. MaxElements
          /\ \A q \in Producers \ {p} : Size[q] = Size'[q]
        BY <1>9, <1>0, <1>4, <2>1, <2>2, <2>5, <2>6
    <2>8. Total(Producers, MaxElements, Size') = elements + Size'[p] - Size[p]
        <3>1. \A q \in Producers \ {p} : Size[q] = Size'[q]
            BY <2>7
        <3>2. Size[p] \in 0 .. MaxElements /\ Size'[p] \in 0 .. MaxElements
              /\ MaxElements \in Nat /\ p \in Producers
            BY <1>0, <1>9, <2>7, <2>1
        <3> QED
            BY <3>1, <3>2, StreamsChange
    <2> HIDE DEF elements, needed, silent
    <2>9. Total(Producers, MaxElements, Size') = elements - mine[c]
          /\ Total(Consumers, MaxBulk, need') = needed - mine[c]
        <3>1. /\ mine[c] \in Int /\ need[c] \in Int /\ Size[p] \in Int
              /\ elements \in Int /\ needed \in Int
            BY <1>0, <1>1, <2>2, <2>7
        <3>2. Size'[p] - Size[p] = 0 - mine[c]
              /\ need'[c] - need[c] = 0 - mine[c]
            BY <2>2, <2>7, <3>1
        <3> QED
            BY <2>2, <2>4, <2>7, <2>8, <3>1, <3>2
    <2> QED
        BY <1>9, <1>1, <1>2, <2>1, <2>2, <2>9
        DEF EveryPermitHasElement, Total, silent
<1>10. ASSUME NEW c \in Consumers,
              \/ GiveUp(c) \/ \E n \in 1 .. MaxBulk : Call(c, n)
              \/ Score(c) \/ TryBest(c) \/ Check(c) \/ Claim(c) \/ Decide(c)
       PROVE  UNCHANGED <<tail, head, permits, need, unsignalled>>
    BY <1>10 DEF GiveUp, Call, Score, TryBest, Check, Claim, Decide, counters
<1>11. ASSUME AddProducer
       PROVE  UNCHANGED <<tail, head, permits, need, unsignalled>>
    BY <1>11 DEF AddProducer
<1> QED
    BY <1>5, <1>6, <1>7, <1>8, <1>9, <1>10, <1>11 DEF Next, Dequeue

-----------------------------------------------------------------------------
(* The theorems *)

LEMMA QueueInit ==
    ASSUME Init
    PROVE  QueueInv
<1>1. TypeOK
    BY NumbersAssumption DEF Init, TypeOK, Zero, Pc, None, Producers
<1>2. EveryPermitHasElement
    <2>1. /\ \A p \in Producers : Size[p] = 0 /\ unsignalled[p] = 0
          /\ \A c \in Consumers : need[c] = 0
          /\ permits = 0
        BY DEF Init, Zero, Size
    <2>2. /\ Total(Producers, MaxElements, Size) = 0
          /\ Total(Consumers, MaxBulk, need) = 0
          /\ Total(Producers, MaxBulk, unsignalled) = 0
        BY <2>1, TotalZero
    <2> QED
        BY <2>1, <2>2 DEF EveryPermitHasElement
<1>3. PlaceInv
    BY DEF Init, Zero, PlaceInv
<1>4. ListInv
    BY DEF Init, Zero, ListInv
<1>5. ASSUME NEW p \in Producers PROVE StreamInv(p)
    <2>1. Pending(p) = {}
        BY DEF Init, Zero, Pending
    <2>2. /\ optimistic[p] = 0 /\ overcommit[p] = 0 /\ head[p] = 0
          /\ tail[p] = 0
        BY DEF Init, Zero
    <2>3. Sum(Mine(p)) = 0
        <3>1. \A c \in Consumers : Mine(p)[c] = 0
            BY DEF Init, Zero, Mine
        <3> QED
            BY <3>1, TotalZero DEF Sum
    <2>4. Sum(Wanted(p)) = 0
        <3>1. \A c \in Consumers : Wanted(p)[c] = 0
            BY <2>1 DEF Wanted
        <3> QED
            BY <3>1, TotalZero DEF Sum
    <2>5. Sum(Below(p, 0)) = 0
        <3>1. \A c \in Consumers : Below(p, 0)[c] = 0
            BY <2>1 DEF Below
        <3> QED
            BY <3>1, TotalZero DEF Sum
    <2>6. Gone(p) = 0
        BY <2>2, <2>3 DEF Gone
    <2>7. CountInv(p)
        BY <2>2, <2>4, <2>6 DEF CountInv
    <2>8. RangeInv(p)
        BY <2>1 DEF RangeInv
    <2>9. ClaimInv(p)
        <3>1. 0 \in 0 .. optimistic[p] /\ Gone(p) + Sum(Below(p, 0)) <= tail[p]
            BY <2>2, <2>5, <2>6
        <3> QED
            BY <2>1, <3>1 DEF ClaimInv
    <2> QED
        BY <2>7, <2>8, <2>9 DEF StreamInv
<1> QED
    BY <1>1, <1>2, <1>3, <1>4, <1>5 DEF QueueInv

LEMMA QueueStep ==
    ASSUME QueueInv, [Next]_vars
    PROVE  QueueInv'
<1>1. CASE Next
    <2>1. TypeOK'
        BY <1>1, TypeStep
    <2>2. PlaceInv' /\ ListInv'
        BY <1>1, <2>1, PlaceStep, ListStep DEF QueueInv
    <2>3. EveryPermitHasElement'
        BY <1>1, <2>1, PermitStep
    <2>4. \A p \in Producers : StreamInv(p)'
        BY <1>1, <2>1, StreamStep
    <2> QED
        BY <2>1, <2>2, <2>3, <2>4 DEF QueueInv
<1>2. CASE UNCHANGED vars
    <2>1. UNCHANGED <<listed, tail, head, optimistic, overcommit, permits,
                      unsignalled, pc, max, need, at, best, bestSize, nonEmpty,
                      want, mine, seenOver, seenCount>>
        BY <1>2 DEF vars, counters, search, claim
    <2>2. TypeOK' /\ PlaceInv' /\ ListInv'
        BY <2>1 DEF QueueInv, TypeOK, PlaceInv, ListInv
    <2>3. EveryPermitHasElement'
        BY <2>1 DEF QueueInv, EveryPermitHasElement, Size, Total
    <2>4. ASSUME NEW p \in Producers PROVE StreamInv(p)'
        <3>1. tail[p] <= tail'[p]
            BY <2>1, NumbersAssumption DEF QueueInv, TypeOK
        <3> QED
            BY <2>1, <2>2, <3>1, QuietStep DEF QueueInv
    <2> QED
        BY <2>2, <2>3, <2>4 DEF QueueInv
<1> QED
    BY <1>1, <1>2

LEMMA QueueIsSound ==
    ASSUME QueueInv
    PROVE  PermitsMatchElements
<1>1. TypeOK /\ EveryPermitHasElement /\ \A p \in Producers : StreamInv(p)
    BY DEF QueueInv
<1>2. NoneTakenTwice
    BY <1>1, StreamBound DEF NoneTakenTwice, Gone, Sum
<1>3. CountersAgree
    <2>1. ASSUME NEW p \in Producers,
                 \A c \in Consumers :
                    at[c] = p => pc[c] \notin {"claim", "decide", "take"}
          PROVE  optimistic[p] - overcommit[p] = head[p]
        <3>1. \A c \in Consumers : Mine(p)[c] = 0 /\ Wanted(p)[c] = 0
            BY <1>1, <2>1 DEF QueueInv, PlaceInv, TypeOK, Mine, Wanted, Pending
        <3>2. Sum(Mine(p)) = 0 /\ Sum(Wanted(p)) = 0
            BY <3>1, TotalZero DEF Sum
        <3>3. optimistic[p] = head[p] + overcommit[p]
            BY <1>1, <2>1, <3>2 DEF StreamInv, CountInv, Gone, TypeOK
        <3> QED
            BY <1>1, <2>1, <3>3 DEF TypeOK
    <2> QED
        BY <2>1 DEF CountersAgree
<1> QED
    BY <1>1, <1>2, <1>3 DEF PermitsMatchElements

(* The queue of the recorder, in all its calls: each permit of the semaphore,
   and each that a consumer took or a producer has still to signal, stands for
   an element in a stream; no element is taken twice, however many consumers
   claim at once; and a claim that failed is given back. *)
THEOREM PermitsAreKept == Spec => []PermitsMatchElements
<1>1. Init => QueueInv
    BY QueueInit
<1>2. QueueInv /\ [Next]_vars => QueueInv'
    BY QueueStep
<1>3. QueueInv => PermitsMatchElements
    BY QueueIsSound
<1> QED
    BY <1>1, <1>2, <1>3, PTL DEF Spec

-----------------------------------------------------------------------------
(* The recorder *)

LEMMA EachStepIsOfTheQueue ==
    ASSUME MCNext
    PROVE  Next
<1>1. CASE InGeneral(Next)
    BY <1>1 DEF InGeneral
<1>2. CASE InRecorder(WorkerNext(Worker))
    <2>1. /\ Worker \in Consumers /\ 1 \in Producers /\ 1 \in 1 .. MaxBulk
          /\ WorkerNext(Worker)
        BY <1>2, WorkerAssumption, NumbersAssumption DEF InRecorder, Producers
    <2> QED
        BY <2>1 DEF WorkerNext, Next
<1> QED
    BY <1>1, <1>2 DEF MCNext

(* Both uses of the queue that are checked together are uses of it. *)
THEOREM BothUsesKeepPermits == MCSpec => []PermitsMatchElements
<1>1. MCInit => QueueInv
    BY QueueInit DEF MCInit
<1>2. QueueInv /\ [MCNext]_allVars => QueueInv'
    BY EachStepIsOfTheQueue, QueueStep DEF allVars
<1>3. QueueInv => PermitsMatchElements
    BY QueueIsSound
<1> QED
    BY <1>1, <1>2, <1>3, PTL DEF MCSpec

(* The first n tasks, in order. *)
First(n) == [i \in 1 .. n |-> i]

LEMMA FirstGrows ==
    ASSUME NEW n \in Nat
    PROVE  /\ First(n) \in Seq(Nat) /\ Len(First(n)) = n
           /\ Append(First(n), n + 1) = First(n + 1)
<1>1. First(n) \in Seq(Nat) /\ Len(First(n)) = n
    BY DEF First
<1>2. Append(First(n), n + 1) = First(n + 1)
    BY <1>1 DEF First
<1> QED
    BY <1>1, <1>2

(* The worker asks for one element at a time. *)
SingleInv ==
    /\ recorder \in BOOLEAN
    /\ recorder => \A c \in Consumers : max[c] <= 1 /\ need[c] <= 1

LEMMA SingleStep ==
    ASSUME TypeOK, TypeOK', SingleInv, [MCNext]_allVars
    PROVE  SingleInv'
<1>1. CASE UNCHANGED recorder /\ ~recorder
    BY <1>1 DEF SingleInv
<1>2. CASE UNCHANGED allVars
    BY <1>2 DEF SingleInv, allVars, vars
<1>3. CASE InRecorder(WorkerNext(Worker))
    <2>1. recorder /\ recorder' = recorder /\ WorkerNext(Worker)
        BY <1>3 DEF InRecorder
    <2>2. \A c \in Consumers : max'[c] <= 1 /\ need'[c] <= 1
        <3>1. CASE UNCHANGED <<max, need>>
            BY <2>1, <3>1 DEF SingleInv
        <3>2. CASE Call(Worker, 1)
            BY <2>1, <3>2, WorkerAssumption DEF Call, SingleInv, TypeOK
        <3>3. ASSUME NEW k \in 1 .. MaxBulk, Acquire(Worker, k)
              PROVE  \A c \in Consumers : max'[c] <= 1 /\ need'[c] <= 1
            <4>1. /\ k <= max[Worker] /\ max[Worker] <= 1 /\ max' = max
                  /\ need' = [need EXCEPT ![Worker] = k]
                BY <2>1, <3>3, WorkerAssumption DEF Acquire, SingleInv
            <4>2. k <= 1
                BY <4>1, WorkerAssumption, NumbersAssumption DEF TypeOK
            <4> QED
                BY <2>1, <4>1, <4>2 DEF SingleInv, TypeOK
        <3>4. CASE Take(Worker)
            <4>1. /\ max' = max
                  /\ need' = [need EXCEPT ![Worker] = @ - mine[Worker]]
                  /\ Worker \in Consumers
                BY <3>4, WorkerAssumption DEF Take
            <4>2. need[Worker] - mine[Worker] <= 1
                BY <2>1, <4>1, NumbersAssumption DEF SingleInv, TypeOK
            <4> QED
                BY <2>1, <4>1, <4>2 DEF SingleInv, TypeOK
        <3>5. CASE \/ AddProducer \/ Enqueue(1, 1) \/ Signal(1) \/ Score(Worker)
                   \/ TryBest(Worker) \/ Check(Worker) \/ Claim(Worker)
                   \/ Decide(Worker)
            <4>1. UNCHANGED <<max, need>>
                BY <3>5 DEF AddProducer, Enqueue, Signal, Score, TryBest, Check,
                            Claim, Decide
            <4> QED
                BY <3>1, <4>1
        <3> QED
            BY <2>1, <3>2, <3>3, <3>4, <3>5 DEF WorkerNext, Dequeue
    <2> QED
        BY <2>1, <2>2 DEF SingleInv
<1> QED
    BY <1>1, <1>2, <1>3 DEF MCNext, InGeneral

LEMMA TaskStep ==
    ASSUME QueueInv, QueueInv', SingleInv, [MCNext]_allVars
    PROVE  [Tasks!Next]_(Tasks!vars)
<1>1. /\ TypeOK /\ 1 \in Producers /\ tail[1] \in 0 .. MaxElements
      /\ tail'[1] \in 0 .. MaxElements /\ head[1] \in Nat
      /\ tail[1] \in Nat
    <2>1. 1 \in Producers /\ \A n \in 0 .. MaxElements : n \in Nat
        BY NumbersAssumption DEF Producers
    <2>2. TypeOK /\ TypeOK'
        BY DEF QueueInv
    <2> QED
        BY <2>1, <2>2 DEF TypeOK
<1>2. ASSUME UNCHANGED recorder,
             ~recorder \/ (tail'[1] = tail[1] /\ head'[1] = head[1])
      PROVE  UNCHANGED Tasks!vars
    BY <1>2 DEF Tasks!vars
<1>3. CASE UNCHANGED allVars
    BY <1>2, <1>3 DEF allVars, vars, counters
<1>4. CASE InGeneral(Next)
    BY <1>2, <1>4 DEF InGeneral
<1>5. CASE InRecorder(WorkerNext(Worker))
    <2>1. /\ recorder /\ recorder' = recorder /\ WorkerNext(Worker)
          /\ Worker \in Consumers
        BY <1>5, WorkerAssumption DEF InRecorder
    <2>2. CASE Enqueue(1, 1)
        <3>1. tail'[1] = tail[1] + 1 /\ head' = head
            BY <1>1, <2>2 DEF Enqueue, QueueInv, TypeOK
        <3>2. First(tail'[1]) = Append(First(tail[1]), tail'[1])
            <4>1. First(tail[1] + 1) = Append(First(tail[1]), tail[1] + 1)
                BY <1>1, FirstGrows
            <4> QED
                BY <3>1, <4>1
        <3>3. tail'[1] \in 1 .. MaxElements
            BY <1>1, <3>1, NumbersAssumption
        <3> QED
            BY <2>1, <3>1, <3>2, <3>3 DEF Tasks!Next, Tasks!Accept, First
    <2>3. CASE Take(Worker) /\ at[Worker] = 1 /\ mine[Worker] # 0
        <3>1. mine[Worker] = 1
            BY <1>1, <2>1, <2>3, NumbersAssumption DEF SingleInv, TypeOK
        <3>2. tail' = tail /\ head'[1] = head[1] + 1
            BY <1>1, <2>3, <3>1 DEF Take, TypeOK
        <3>3. head[1] + 1 <= tail[1]
            BY <1>1, <2>1, <2>3, <3>1, StreamBound DEF QueueInv
        <3>4. /\ First(head'[1]) = Append(First(head[1]), head[1] + 1)
              /\ Len(First(head[1])) = head[1] /\ Len(First(tail[1])) = tail[1]
              /\ First(tail[1])[head[1] + 1] = head[1] + 1
            BY <1>1, <3>2, <3>3, FirstGrows DEF First
        <3>5. head[1] < tail[1]
            BY <1>1, <3>3
        <3> QED
            BY <2>1, <3>2, <3>4, <3>5 DEF Tasks!Next, Tasks!Deliver, First
    <2>4. CASE Take(Worker) /\ ~(at[Worker] = 1 /\ mine[Worker] # 0)
        <3>1. tail' = tail /\ head'[1] = head[1]
            BY <1>1, <2>1, <2>4 DEF Take, TypeOK
        <3> QED
            BY <1>2, <2>1, <3>1
    <2>5. ASSUME \/ AddProducer \/ Signal(1) \/ Call(Worker, 1)
                 \/ \E k \in 1 .. MaxBulk : Acquire(Worker, k)
                 \/ Score(Worker) \/ TryBest(Worker) \/ Check(Worker)
                 \/ Claim(Worker) \/ Decide(Worker)
          PROVE  UNCHANGED Tasks!vars
        <3>1. UNCHANGED <<tail, head>>
            BY <2>5 DEF AddProducer, Signal, Call, Acquire, Score, TryBest,
                        Check, Claim, Decide, counters
        <3> QED
            BY <1>2, <2>1, <3>1
    <2> QED
        BY <2>1, <2>2, <2>3, <2>4, <2>5 DEF WorkerNext, Dequeue
<1> QED
    BY <1>3, <1>4, <1>5 DEF MCNext

(* As the recorder uses it, with the stream of one producer and a worker that
   takes single elements, the queue hands out every task once and in order. *)
THEOREM RecorderImplementsTasks == MCSpec => Tasks!SafeSpec
<1>1. MCInit => QueueInv /\ SingleInv /\ Tasks!Init
    <2>1. ASSUME MCInit PROVE QueueInv /\ SingleInv
        BY <2>1, QueueInit DEF MCInit, Init, Zero, SingleInv
    <2>2. ASSUME MCInit PROVE Tasks!Init
        <3>1. 1 \in Producers
            BY NumbersAssumption DEF Producers
        <3>2. tail[1] = 0 /\ head[1] = 0
            BY <2>2, <3>1 DEF MCInit, Init, Zero
        <3>3. [i \in 1 .. 0 |-> i] = << >>
            OBVIOUS
        <3> QED
            BY <3>2, <3>3 DEF Tasks!Init
    <2> QED
        BY <2>1, <2>2
<1>2. QueueInv /\ SingleInv /\ [MCNext]_allVars => QueueInv' /\ SingleInv'
    <2>1. QueueInv /\ [MCNext]_allVars => QueueInv'
        BY EachStepIsOfTheQueue, QueueStep DEF allVars
    <2> QED
        BY <2>1, SingleStep DEF QueueInv
<1>3. /\ QueueInv /\ QueueInv' /\ SingleInv /\ [MCNext]_allVars
      => [Tasks!Next]_(Tasks!vars)
    BY TaskStep
<1> QED
    BY <1>1, <1>2, <1>3, PTL DEF MCSpec, Tasks!SafeSpec
=============================================================================
