-------------------- MODULE ComponentCompatibility_proofs --------------------
(* Lemmas about the batching rule, for any declarations: how much a group    *)
(* needs, which bands it may have, and that part of a compatible group is    *)
(* compatible; and that groups of any length are sound in all their parts.   *)
EXTENDS CompatibilityGroups, FiniteSetTheorems, WellFoundedInduction, TLAPS

(* Least elements, for what would otherwise be an induction.                 *)

\* Some set of a collection of finite sets contains no other one.
LEMMA LeastSet ==
  ASSUME NEW S, IsFiniteSet(S), NEW T \in SUBSET (SUBSET S), T # {}
  PROVE  \E t \in T : \A u \in T : u \subseteq t => u = t
<1>1. T \subseteq FiniteSubsetsOf(S)
  BY FS_Subset DEF FiniteSubsetsOf
<1>2. PICK t \in T : \A u \in T : <<u, t>> \notin StrictSubsetOrdering(S)
  BY <1>1, FS_StrictSubsetOrderingWellFounded, WFMin
<1> QED BY <1>2 DEF StrictSubsetOrdering

\* A finite set has an element that no other one precedes.
LEMMA LeastElement ==
  ASSUME NEW S, IsFiniteSet(S), S # {}, NEW before,
         \A x \in S : <<x, x>> \notin before,
         \A x, y, z \in S : <<x, y>> \in before /\ <<y, z>> \in before => <<x, z>> \in before
  PROVE  \E x \in S : \A y \in S : <<y, x>> \notin before
<1> DEFINE Below(x) == {y \in S : <<y, x>> \in before}
           T == {Below(x) : x \in S}
<1>1. T \in SUBSET (SUBSET S) /\ T # {}
  <2>1. \A x \in S : Below(x) \in SUBSET S /\ Below(x) \in T
    OBVIOUS
  <2>2. \A u \in T : u \in SUBSET S
    OBVIOUS
  <2> HIDE DEF T
  <2> QED BY <2>1, <2>2
<1>2. PICK t \in T : \A u \in T : u \subseteq t => u = t
  <2> HIDE DEF T
  <2> QED BY <1>1, LeastSet
<1>3. PICK x \in S : t = Below(x)
  BY <1>2
<1>4. ASSUME NEW y \in S, <<y, x>> \in before PROVE FALSE
  <2>1. Below(y) \subseteq Below(x)
    BY <1>4
  <2>2. y \in Below(x) /\ y \notin Below(y)
    BY <1>4
  <2>3. Below(y) \in T
    OBVIOUS
  <2> HIDE DEF Below, T
  <2> QED BY <1>2, <1>3, <2>1, <2>2, <2>3
<1> QED BY <1>4

-----------------------------------------------------------------------------
(* Sums.                                                                     *)

Pick(s) == CHOOSE x \in s : TRUE

\* h gives for every part of S the sum of f over it.
Adds(f, S, h) ==
  h = [s \in SUBSET S |-> IF s = {} THEN 0 ELSE f[Pick(s)] + h[s \ {Pick(s)}]]

Total(f, S) == (CHOOSE h : Adds(f, S, h))[S]

\* The element CHOOSE picks from a non-empty set is of it.
LEMMA PickIn == ASSUME NEW s, s # {} PROVE Pick(s) \in s
BY DEF Pick

\* Whatever sums a set is part of, its own sum is the same.
LEMMA AddsAgree ==
  ASSUME NEW f, NEW S, NEW R, NEW h, NEW k, Adds(f, S, h), Adds(f, R, k),
         NEW T, T \subseteq S, T \subseteq R, IsFiniteSet(T)
  PROVE  h[T] = k[T]
<1> DEFINE B == {s \in SUBSET T : h[s] # k[s]}
<1>1. ASSUME B # {} PROVE FALSE
  <2>1. PICK t \in B : \A u \in B : u \subseteq t => u = t
    <3>1. B \in SUBSET (SUBSET T)
      OBVIOUS
    <3> HIDE DEF B
    <3> QED BY <1>1, <3>1, LeastSet
  <2>2. h[t] = IF t = {} THEN 0 ELSE f[Pick(t)] + h[t \ {Pick(t)}]
    BY DEF Adds
  <2>3. k[t] = IF t = {} THEN 0 ELSE f[Pick(t)] + k[t \ {Pick(t)}]
    BY DEF Adds
  <2>4. t # {}
    BY <2>2, <2>3
  <2>5. t \ {Pick(t)} \subseteq t /\ t \ {Pick(t)} # t
    BY <2>4, PickIn
  <2>6. h[t \ {Pick(t)}] = k[t \ {Pick(t)}]
    BY <2>1, <2>5
  <2> QED BY <2>2, <2>3, <2>4, <2>6
<1> QED BY <1>1

\* There is such a function.
LEMMA AddsExists ==
  ASSUME NEW f, NEW S, IsFiniteSet(S)
  PROVE  \E h : Adds(f, S, h)
<1> DEFINE B == {s \in SUBSET S : ~\E h : Adds(f, s, h)}
<1>1. ASSUME B # {} PROVE FALSE
  <2>1. PICK t \in B : \A u \in B : u \subseteq t => u = t
    <3>1. B \in SUBSET (SUBSET S)
      OBVIOUS
    <3> HIDE DEF B
    <3> QED BY <1>1, <3>1, LeastSet
  <2>2. \A s \in SUBSET t : s # t => Adds(f, s, CHOOSE h : Adds(f, s, h))
    BY <2>1
  <2> DEFINE V(s) == (CHOOSE h : Adds(f, s, h))[s]
             h == [s \in SUBSET t |-> IF s = {} THEN 0 ELSE f[Pick(s)] + V(s \ {Pick(s)})]
  <2>3. ASSUME NEW s \in SUBSET t, s # t PROVE h[s] = V(s)
    <3> DEFINE k == CHOOSE l : Adds(f, s, l)
    <3>1. Adds(f, s, k)
      BY <2>2, <2>3
    <3>2. CASE s = {}
      BY <3>1, <3>2 DEF Adds
    <3>3. CASE s # {}
      <4>1. V(s) = f[Pick(s)] + k[s \ {Pick(s)}]
        BY <3>1, <3>3 DEF Adds
      <4>2. s \ {Pick(s)} # t
        BY <2>3
      <4>3. k[s \ {Pick(s)}] = V(s \ {Pick(s)})
        <5>1. Adds(f, s \ {Pick(s)}, CHOOSE l : Adds(f, s \ {Pick(s)}, l))
          BY <2>2, <4>2, s \ {Pick(s)} \in SUBSET t
        <5>2. IsFiniteSet(s \ {Pick(s)})
          BY FS_Subset
        <5> HIDE DEF k
        <5> QED BY <3>1, <5>1, <5>2, AddsAgree
      <4> QED BY <3>3, <4>1, <4>3
    <3> QED BY <3>2, <3>3
  <2>4. ASSUME NEW s \in SUBSET t, s # {} PROVE V(s \ {Pick(s)}) = h[s \ {Pick(s)}]
    <3>1. s \ {Pick(s)} \in SUBSET t /\ s \ {Pick(s)} # t
      BY <2>4, PickIn
    <3> HIDE DEF V, h
    <3> QED BY <2>3, <3>1
  <2>5. h = [s \in SUBSET t |-> IF s = {} THEN 0 ELSE f[Pick(s)] + h[s \ {Pick(s)}]]
    <3>1. h = [s \in SUBSET t |-> IF s = {} THEN 0 ELSE f[Pick(s)] + V(s \ {Pick(s)})]
      OBVIOUS
    <3> HIDE DEF V, h
    <3> QED BY <2>4, <3>1
  <2> QED BY <2>1, <2>5 DEF Adds
<1> QED BY <1>1

\* The sum over a finite set, by the element that is picked first.
LEMMA TotalStep ==
  ASSUME NEW f, NEW S, IsFiniteSet(S)
  PROVE  Total(f, S) = IF S = {} THEN 0 ELSE f[Pick(S)] + Total(f, S \ {Pick(S)})
<1> DEFINE T == S \ {Pick(S)}
           h == CHOOSE l : Adds(f, S, l)
           k == CHOOSE l : Adds(f, T, l)
<1>1. Adds(f, S, h)
  BY AddsExists
<1>2. IsFiniteSet(T) /\ Adds(f, T, k)
  BY FS_Subset, AddsExists
<1>3. h[T] = k[T]
  <2> HIDE DEF h, k
  <2> QED BY <1>1, <1>2, AddsAgree
<1>4. Total(f, S) = h[S] /\ Total(f, T) = k[T]
  BY DEF Total
<1>5. h[S] = IF S = {} THEN 0 ELSE f[Pick(S)] + h[T]
  <2> HIDE DEF h
  <2> QED BY <1>1 DEF Adds
<1> QED BY <1>3, <1>4, <1>5

\* The sum over a finite set of a function to the naturals is a natural.
LEMMA TotalIsNat ==
  ASSUME NEW S, IsFiniteSet(S), NEW f, \A x \in S : f[x] \in Nat
  PROVE  Total(f, S) \in Nat
<1> DEFINE B == {s \in SUBSET S : Total(f, s) \notin Nat}
<1>1. ASSUME B # {} PROVE FALSE
  <2>1. PICK t \in B : \A u \in B : u \subseteq t => u = t
    <3>1. B \in SUBSET (SUBSET S)
      OBVIOUS
    <3> HIDE DEF B
    <3> QED BY <1>1, <3>1, LeastSet
  <2>2. IsFiniteSet(t) /\ Total(f, t) = IF t = {} THEN 0 ELSE f[Pick(t)] + Total(f, t \ {Pick(t)})
    BY FS_Subset, TotalStep
  <2>3. CASE t # {}
    <3>1. Pick(t) \in t
      BY <2>3, PickIn
    <3>2. Total(f, t \ {Pick(t)}) \in Nat
      BY <2>1, <3>1
    <3>3. f[Pick(t)] \in Nat
      BY <3>1
    <3> QED BY <2>2, <2>3, <3>2, <3>3
  <2> QED BY <2>2, <2>3
<1> QED BY <1>1

\* The sum does not depend on what is picked first.
LEMMA TotalAny ==
  ASSUME NEW S, IsFiniteSet(S), NEW f, \A x \in S : f[x] \in Nat, NEW y \in S
  PROVE  Total(f, S) = f[y] + Total(f, S \ {y})
<1> DEFINE Wrong(s) == \E z \in s : Total(f, s) # f[z] + Total(f, s \ {z})
           B == {s \in SUBSET S : Wrong(s)}
<1>1. ASSUME B # {} PROVE FALSE
  <2>1. PICK t \in B : \A u \in B : u \subseteq t => u = t
    <3>1. B \in SUBSET (SUBSET S)
      OBVIOUS
    <3> HIDE DEF B
    <3> QED BY <1>1, <3>1, LeastSet
  <2>2. PICK z \in t : Total(f, t) # f[z] + Total(f, t \ {z})
    OBVIOUS
  <2> DEFINE x == Pick(t)
             r == (t \ {x}) \ {z}
  <2>3. x \in t /\ Total(f, t) = f[x] + Total(f, t \ {x})
    BY FS_Subset, TotalStep, PickIn
  <2>4. x # z
    BY <2>2, <2>3
  <2>5. Total(f, t \ {x}) = f[z] + Total(f, r)
    <3>1. t \ {x} \notin B
      BY <2>1, <2>3
    <3> QED BY <3>1, <2>4
  <2>6. Total(f, t \ {z}) = f[x] + Total(f, r)
    <3>1. t \ {z} \notin B
      BY <2>1, <2>2
    <3>2. (t \ {z}) \ {x} = r /\ x \in t \ {z}
      BY <2>3, <2>4
    <3> QED BY <3>1, <3>2
  <2>7. f[x] \in Nat /\ f[z] \in Nat /\ Total(f, r) \in Nat
    BY <2>3, FS_Subset, TotalIsNat
  <2> HIDE DEF x, r
  <2> QED BY <2>2, <2>3, <2>5, <2>6, <2>7
<1> QED BY <1>1

\* Part of a set has no larger sum.
LEMMA TotalGrows ==
  ASSUME NEW S, IsFiniteSet(S), NEW f, \A x \in S : f[x] \in Nat, NEW R \in SUBSET S
  PROVE  Total(f, R) =< Total(f, S)
<1> DEFINE Wrong(s) == \E r \in SUBSET s : ~(Total(f, r) =< Total(f, s))
           B == {s \in SUBSET S : Wrong(s)}
<1>1. ASSUME B # {} PROVE FALSE
  <2>1. PICK t \in B : \A u \in B : u \subseteq t => u = t
    <3>1. B \in SUBSET (SUBSET S)
      OBVIOUS
    <3> HIDE DEF B
    <3> QED BY <1>1, <3>1, LeastSet
  <2>2. PICK r \in SUBSET t : ~(Total(f, r) =< Total(f, t))
    OBVIOUS
  <2>3. Total(f, r) \in Nat /\ Total(f, t) \in Nat
    BY FS_Subset, TotalIsNat
  <2>4. PICK x \in t : x \notin r
    BY <2>2, <2>3
  <2>5. Total(f, t) = f[x] + Total(f, t \ {x})
    BY FS_Subset, TotalAny
  <2>6. Total(f, r) =< Total(f, t \ {x})
    <3>1. t \ {x} \notin B
      BY <2>1
    <3> QED BY <3>1, <2>4
  <2>7. f[x] \in Nat /\ Total(f, t \ {x}) \in Nat
    BY FS_Subset, TotalIsNat
  <2> QED BY <2>2, <2>3, <2>5, <2>6, <2>7
<1> QED BY <1>1

\* What a group needs of an AOD, and of a readout channel.
ColumnsNeeded(D, G) == MapThenSumSet(LAMBDA i : D[i].aod.columns, G)
ReadoutNeeded(D, G) == MapThenSumSet(LAMBDA i : D[i].aod.readout, G)

\* These are such sums.
LEMMA ColumnsTotal ==
  ASSUME NEW D, NEW G, IsFiniteSet(G), NEW f, \A i \in G : f[i] = D[i].aod.columns
  PROVE  ColumnsNeeded(D, G) = Total(f, G)
<1> DEFINE Sums(h) == h = [s \in SUBSET G |->
             IF s = {} THEN 0
             ELSE D[CHOOSE x \in s : TRUE].aod.columns + h[s \ {CHOOSE x \in s : TRUE}]]
           it == CHOOSE h : Sums(h)
           k == CHOOSE h : Adds(f, G, h)
<1>1. ColumnsNeeded(D, G) = it[G]
  BY Zenon DEF ColumnsNeeded, MapThenSumSet, MapThenFoldSet
<1>2. \A h : Adds(f, G, h) <=> Sums(h)
  <2>1. \A s \in SUBSET G : s # {} => f[Pick(s)] = D[Pick(s)].aod.columns
    BY PickIn
  <2>2. ASSUME NEW h
        PROVE [s \in SUBSET G |-> IF s = {} THEN 0 ELSE f[Pick(s)] + h[s \ {Pick(s)}]]
              = [s \in SUBSET G |->
                  IF s = {} THEN 0 ELSE D[Pick(s)].aod.columns + h[s \ {Pick(s)}]]
    BY <2>1
  <2> QED BY <2>2 DEF Adds, Pick
<1>3. Adds(f, G, k)
  BY AddsExists
<1>4. Adds(f, G, it)
  <2> HIDE DEF Sums, k
  <2> QED BY <1>2, <1>3
<1> HIDE DEF it, k
<1>5. it[G] = k[G]
  BY <1>3, <1>4, AddsAgree
<1> QED BY <1>1, <1>5 DEF Total, k

\* ReadoutNeeded, the fold, is the sum of the readout widths.
LEMMA ReadoutTotal ==
  ASSUME NEW D, NEW G, IsFiniteSet(G), NEW f, \A i \in G : f[i] = D[i].aod.readout
  PROVE  ReadoutNeeded(D, G) = Total(f, G)
<1> DEFINE Sums(h) == h = [s \in SUBSET G |->
             IF s = {} THEN 0
             ELSE D[CHOOSE x \in s : TRUE].aod.readout + h[s \ {CHOOSE x \in s : TRUE}]]
           it == CHOOSE h : Sums(h)
           k == CHOOSE h : Adds(f, G, h)
<1>1. ReadoutNeeded(D, G) = it[G]
  BY Zenon DEF ReadoutNeeded, MapThenSumSet, MapThenFoldSet
<1>2. \A h : Adds(f, G, h) <=> Sums(h)
  <2>1. \A s \in SUBSET G : s # {} => f[Pick(s)] = D[Pick(s)].aod.readout
    BY PickIn
  <2>2. ASSUME NEW h
        PROVE [s \in SUBSET G |-> IF s = {} THEN 0 ELSE f[Pick(s)] + h[s \ {Pick(s)}]]
              = [s \in SUBSET G |->
                  IF s = {} THEN 0 ELSE D[Pick(s)].aod.readout + h[s \ {Pick(s)}]]
    BY <2>1
  <2> QED BY <2>2 DEF Adds, Pick
<1>3. Adds(f, G, k)
  BY AddsExists
<1>4. Adds(f, G, it)
  <2> HIDE DEF Sums, k
  <2> QED BY <1>2, <1>3
<1> HIDE DEF it, k
<1>5. it[G] = k[G]
  BY <1>3, <1>4, AddsAgree
<1> QED BY <1>1, <1>5 DEF Total, k

-----------------------------------------------------------------------------
(* Groups.                                                                   *)

\* What a declaration of a shared AOD is made of (SharedAODClaim validates it).
Declares(D, G) == \A i \in G : D[i].mode = "shared" => D[i].aod \in SharedClaims

Sharing(D, G) == \A i \in G : D[i].aod \in SharedClaims

\* Any two bands of sharers are apart, not just the neighbouring ones.
LEMMA BandsApart ==
  ASSUME NEW D, NEW G, IsFiniteSet(G), Sharing(D, G), Bands(D, G),
         NEW l \in G, NEW r \in G, l # r, D[l].aod.lo =< D[r].aod.lo
  PROVE  D[r].aod.lo > D[l].aod.hi /\ D[r].aod.lo - D[l].aod.hi >= Spacing
<1>1. \A i \in G : /\ D[i].aod.lo \in Int /\ D[i].aod.hi \in Int /\ D[i].aod.lo =< D[i].aod.hi
  BY CompatibilityAssumption DEF Sharing, SharedClaims
<1>2. Spacing \in Nat
  BY CompatibilityAssumption
<1>3. CASE \A m \in G : ~(D[l].aod.lo < D[m].aod.lo /\ D[m].aod.lo < D[r].aod.lo)
  BY <1>3 DEF Bands, Neighbours
<1>4. CASE \E m \in G : D[l].aod.lo < D[m].aod.lo /\ D[m].aod.lo < D[r].aod.lo
  <2> DEFINE H == {m \in G : D[l].aod.lo < D[m].aod.lo /\ D[m].aod.lo < D[r].aod.lo}
             before == {p \in G \X G : D[p[1]].aod.lo < D[p[2]].aod.lo}
  <2>1. IsFiniteSet(H) /\ H # {} /\ H \subseteq G
    BY <1>4, FS_Subset
  <2>2. \A x, y \in G : <<x, y>> \in before <=> D[x].aod.lo < D[y].aod.lo
    OBVIOUS
  <2>3. /\ \A x \in H : <<x, x>> \notin before
        /\ \A x, y, z \in H : <<x, y>> \in before /\ <<y, z>> \in before => <<x, z>> \in before
    <3> HIDE DEF before, H
    <3> QED BY <2>1, <2>2, <1>1
  <2>4. PICK m \in H : \A y \in H : <<y, m>> \notin before
    <3> HIDE DEF before, H
    <3> QED BY <2>1, <2>3, LeastElement
  <2>5. Neighbours(D, G, l, m)
    <3>1. m \in G /\ D[l].aod.lo < D[m].aod.lo /\ D[m].aod.lo < D[r].aod.lo
      OBVIOUS
    <3>2. \A y \in G : D[l].aod.lo < D[y].aod.lo /\ D[y].aod.lo < D[m].aod.lo => y \in H
      BY <1>1, <3>1
    <3>3. \A y \in H : ~(D[y].aod.lo < D[m].aod.lo)
      BY <2>2, <2>4
    <3> HIDE DEF before, H
    <3> QED BY <1>1, <3>1, <3>2, <3>3 DEF Neighbours
  <2>6. D[m].aod.lo > D[l].aod.hi /\ D[m].aod.lo - D[l].aod.hi >= Spacing
    BY <2>5 DEF Bands
  <2> QED BY <1>1, <1>2, <2>6
<1> QED BY <1>3, <1>4

\* A part of a group needs no more lines and no more readout than the group.
LEMMA NeedsGrow ==
  ASSUME NEW D, NEW G, IsFiniteSet(G), Sharing(D, G), NEW H \in SUBSET G
  PROVE  /\ ColumnsNeeded(D, H) =< ColumnsNeeded(D, G)
         /\ ColumnsNeeded(D, G) \in Nat /\ ColumnsNeeded(D, H) \in Nat
         /\ ReadoutNeeded(D, H) =< ReadoutNeeded(D, G)
         /\ ReadoutNeeded(D, G) \in Nat /\ ReadoutNeeded(D, H) \in Nat
<1> DEFINE f == [i \in G |-> D[i].aod.columns]
           g == [i \in G |-> D[i].aod.readout]
<1>1. \A i \in G : f[i] = D[i].aod.columns /\ g[i] = D[i].aod.readout
  OBVIOUS
<1>2. \A i \in G : D[i].aod.columns \in Nat /\ D[i].aod.readout \in Nat
  BY CompatibilityAssumption DEF Sharing, SharedClaims
<1>3. IsFiniteSet(H) /\ H \subseteq G
  BY FS_Subset
<1> HIDE DEF f, g
<1>4. \A i \in G : f[i] \in Nat /\ g[i] \in Nat
  BY <1>1, <1>2
<1>5. ColumnsNeeded(D, G) = Total(f, G) /\ ReadoutNeeded(D, G) = Total(g, G)
  BY <1>1, ColumnsTotal, ReadoutTotal
<1>6. ColumnsNeeded(D, H) = Total(f, H) /\ ReadoutNeeded(D, H) = Total(g, H)
  BY <1>1, <1>3, ColumnsTotal, ReadoutTotal
<1>7. /\ Total(f, H) =< Total(f, G) /\ Total(g, H) =< Total(g, G)
      /\ Total(f, H) \in Nat /\ Total(g, H) \in Nat
      /\ Total(f, G) \in Nat /\ Total(g, G) \in Nat
  BY <1>3, <1>4, TotalGrows, TotalIsNat
<1> QED BY <1>5, <1>6, <1>7

\* Part of the sharers of one AOD fits it.
LEMMA PartFitsAod ==
  ASSUME NEW D, NEW G, IsFiniteSet(G), Sharing(D, G), AodFits(D, G), NEW H \in SUBSET G
  PROVE  AodFits(D, H)
<1>1. \A i, j \in H : D[i].aod.grid = D[j].aod.grid /\ D[i].aod.limits = D[j].aod.limits
  BY DEF AodFits
<1>2. ColumnsNeeded(D, H) =< MaxColumns
  <2>1. ColumnsNeeded(D, G) =< MaxColumns
    BY Zenon DEF AodFits, ColumnsNeeded
  <2> QED BY <2>1, NeedsGrow, CompatibilityAssumption
<1>3. Bands(D, H)
  BY BandsApart DEF Bands, Neighbours, AodFits
<1> QED BY Zenon, <1>1, <1>2, <1>3 DEF AodFits, ColumnsNeeded

\* Where the group fits every device, every part of it does.
LEMMA PartFitsDevices ==
  ASSUME NEW D, NEW G, IsFiniteSet(G), Sharing(D, G), SharedCapacity(D, G), NEW H \in SUBSET G,
         \A i \in G : D[i].aod.family = NoFamily
  PROVE  SharedCapacity(D, H)
<1>1. ASSUME NEW a \in Aods PROVE AodFits(D, {i \in H : D[i].aod.aod = a})
  <2> DEFINE whole == {i \in G : D[i].aod.aod = a}
             part == {i \in H : D[i].aod.aod = a}
  <2>1. AodFits(D, whole)
    BY Zenon DEF SharedCapacity
  <2>2. part \in SUBSET whole /\ whole \in SUBSET G
    OBVIOUS
  <2>3. IsFiniteSet(whole) /\ Sharing(D, whole)
    BY <2>2, FS_Subset DEF Sharing
  <2> HIDE DEF whole, part
  <2>4. AodFits(D, part)
    BY <2>1, <2>2, <2>3, PartFitsAod
  <2> QED BY <2>4 DEF part
<1>2. ASSUME NEW c \in Channels
      PROVE  ReadoutNeeded(D, {i \in H : D[i].aod.channel = c}) =< MaxReadout
  <2> DEFINE whole == {i \in G : D[i].aod.channel = c}
             part == {i \in H : D[i].aod.channel = c}
  <2>1. ReadoutNeeded(D, whole) =< MaxReadout
    BY Zenon DEF SharedCapacity, ReadoutNeeded
  <2>2. part \in SUBSET whole /\ whole \in SUBSET G
    OBVIOUS
  <2>3. IsFiniteSet(whole) /\ Sharing(D, whole)
    BY <2>2, FS_Subset DEF Sharing
  <2> HIDE DEF whole, part
  <2>4. ReadoutNeeded(D, part) =< MaxReadout
    BY <2>1, <2>2, <2>3, NeedsGrow, CompatibilityAssumption
  <2> QED BY <2>4 DEF part
<1>3. ~\E i \in H : D[i].aod.family # NoFamily
  OBVIOUS
<1> QED BY Zenon, <1>1, <1>2, <1>3 DEF SharedCapacity, ReadoutNeeded

\* Part of a compatible group is compatible, whichever member the others are
\* compared with: the scan of ComponentScheduler.admit relies on it.
THEOREM PartCompatible ==
  ASSUME NEW D, NEW G, IsFiniteSet(G), Declares(D, G), NEW a \in G, Compatible(D, a, G),
         NEW H \in SUBSET G, NEW b \in H
  PROVE  Compatible(D, b, H)
<1>1. /\ Sharers(D, H) \in SUBSET Sharers(D, G) /\ Sharers(D, G) \in SUBSET G
      /\ Joint(D, H) = Joint(D, G) \cap H
  BY DEF Sharers, Joint
<1>2. IsFiniteSet(Sharers(D, G)) /\ Sharing(D, Sharers(D, G))
  BY <1>1, FS_Subset DEF Sharers, Declares, Sharing
<1>3. Disjoint(D, G) => Disjoint(D, H)
  BY DEF Disjoint
<1>4. CASE Joint(D, G) # {}
  <2>1. /\ Joint(D, G) = G /\ Disjoint(D, G) /\ SharedCapacity(D, G)
        /\ \A i \in G : OfJointCode(D, a, i) /\ D[i].waveform = D[a].waveform
    BY Zenon, <1>4 DEF Compatible
  <2>2. Joint(D, H) = H
    BY <1>1, <2>1
  <2>3. \A i \in G : D[i].aod.family # NoFamily
    BY <2>1 DEF Joint
  <2>4. /\ \A i, j \in G : D[i].aod.family = D[j].aod.family
        /\ \A i, j \in G : i # j => D[i].aod.member # D[j].aod.member
        /\ \A i, j \in G : /\ D[i].aod.codes = D[j].aod.codes
                           /\ D[i].aod.aod = D[j].aod.aod
                           /\ D[i].aod.limits = D[j].aod.limits
                           /\ D[i].aod.channel = D[j].aod.channel
    BY Zenon, <2>1, <2>3 DEF SharedCapacity
  <2>5. SharedCapacity(D, H)
    <3>1. \E i \in H : D[i].aod.family # NoFamily
      BY <2>3
    <3>2. /\ \A i, j \in H : D[i].aod.family = D[j].aod.family
          /\ \A i, j \in H : i # j => D[i].aod.member # D[j].aod.member
          /\ \A i, j \in H : /\ D[i].aod.codes = D[j].aod.codes
                             /\ D[i].aod.aod = D[j].aod.aod
                             /\ D[i].aod.limits = D[j].aod.limits
                             /\ D[i].aod.channel = D[j].aod.channel
      BY <2>4
    <3> QED BY Zenon, <3>1, <3>2 DEF SharedCapacity
  <2>6. \A i \in H : OfJointCode(D, b, i) /\ D[i].waveform = D[b].waveform
    BY <2>1, <2>4 DEF OfJointCode
  <2> QED BY Zenon, <1>3, <2>1, <2>2, <2>5, <2>6 DEF Compatible
<1>5. CASE Joint(D, G) = {} /\ D[a].mode = "profile"
  <2>1. (\A i \in G : D[i].mode = "profile") /\ Disjoint(D, G)
    BY Zenon, <1>5 DEF Compatible
  <2>2. Joint(D, H) = {} /\ D[b].mode = "profile" /\ (\A i \in H : D[i].mode = "profile") /\ H # {}
    BY <1>1, <1>5, <2>1
  <2> QED BY Zenon, <1>3, <2>1, <2>2 DEF Compatible
<1>6. CASE Joint(D, G) = {} /\ D[a].mode = "exclusive"
  <2>1. Cardinality(G) = 1
    BY Zenon, <1>6 DEF Compatible
  <2>2. H = G /\ b = a
    BY <2>1, FS_Singleton
  <2> QED BY <2>2
<1>7. CASE Joint(D, G) = {} /\ D[a].mode \notin {"profile", "exclusive"}
  <2>1. /\ \A i \in G : Alike(D, a, i)
        /\ Disjoint(D, G)
        /\ \A i \in Sharers(D, G), j \in G : D[i].aod.aod \notin D[j].claims
        /\ SharedCapacity(D, Sharers(D, G))
    BY Zenon, <1>7 DEF Compatible
  <2>2. /\ Joint(D, H) = {} /\ D[b].mode \notin {"profile", "exclusive"} /\ H # {}
        /\ \A i \in H : Alike(D, b, i)
        /\ \A i \in Sharers(D, H), j \in H : D[i].aod.aod \notin D[j].claims
    BY <1>1, <1>7, <2>1 DEF Alike
  <2>3. \A i \in Sharers(D, G) : D[i].aod.family = NoFamily
    BY <1>7 DEF Joint
  <2>4. SharedCapacity(D, Sharers(D, H))
    BY <1>1, <1>2, <2>1, <2>3, PartFitsDevices
  <2>5. D[b].mode # "profile" /\ D[b].mode # "exclusive"
    BY <2>2
  <2> QED BY Zenon, <1>3, <2>1, <2>2, <2>4, <2>5 DEF Compatible
<1> QED BY <1>4, <1>5, <1>6, <1>7

-----------------------------------------------------------------------------
(* Groups of any length.                                                      *)

Grown == group \in Seq(Declarations)

\* The members of a group are finitely many declarations.
LEMMA GroupDeclares ==
  ASSUME Grown
  PROVE  IsFiniteSet(Members) /\ Declares(group, Members) /\ (Members # {} => 1 \in Members)
<1>1. Members = 1..Len(group) /\ Len(group) \in Nat
  BY DEF Grown, Members
<1>2. IsFiniteSet(1..Len(group))
  BY <1>1, FS_Interval
<1>3. Declares(group, Members)
  BY GroupsAssumption DEF Grown, Members, Declares
<1> QED BY <1>1, <1>2, <1>3

\* What can_add accepted for the group it accepts for every part of it.
LEMMA SubgroupsAreCompatible ==
  Grown => SubgroupsCompatible
<1> SUFFICES ASSUME Grown, Members # {}, Compatible(group, 1, Members),
                    NEW H \in SUBSET Members, NEW a \in Members, a \in H
             PROVE  Compatible(group, a, H)
  BY DEF SubgroupsCompatible
<1> QED BY GroupDeclares, PartCompatible

\* The sharers of one AOD in a group without a joint trace.
LEMMA SharersFit ==
  ASSUME Grown, Members # {}, Compatible(group, 1, Members), Joint(group, Members) = {},
         NEW a \in Aods
  PROVE  LET S == {i \in Sharers(group, Members) : group[i].aod.aod = a} IN
         /\ AodFits(group, S)
         /\ S # {} => \A j \in Members : a \notin group[j].claims
<1> DEFINE S == {i \in Sharers(group, Members) : group[i].aod.aod = a}
<1>1. CASE group[1].mode \in {"profile", "exclusive"}
  <2>1. \A i \in Members : group[i].mode # "shared"
    <3>1. CASE group[1].mode = "profile"
      <4>1. \A i \in Members : group[i].mode = "profile"
        BY Zenon, <3>1 DEF Compatible
      <4> QED BY <4>1
    <3>2. CASE group[1].mode = "exclusive"
      <4>1. group[1].mode # "profile"
        BY <3>2
      <4>2. Cardinality(Members) = 1
        BY Zenon, <3>2, <4>1 DEF Compatible
      <4>3. \A i \in Members : i = 1
        BY <4>2, GroupDeclares, FS_Singleton
      <4> QED BY <3>2, <4>3
    <3> QED BY <1>1, <3>1, <3>2
  <2>2. S = {}
    BY <2>1 DEF Sharers
  <2>3. ColumnsNeeded(group, {}) =< MaxColumns
    <3>1. ColumnsNeeded(group, {}) = Total(group, {})
      BY FS_EmptySet, ColumnsTotal
    <3>2. Total(group, {}) = 0
      BY FS_EmptySet, TotalStep
    <3> QED BY <3>1, <3>2, CompatibilityAssumption
  <2>4. AodFits(group, {})
    BY Zenon, <2>3 DEF AodFits, ColumnsNeeded, Bands
  <2> HIDE DEF S
  <2> QED BY <2>2, <2>4 DEF S
<1>2. CASE group[1].mode \notin {"profile", "exclusive"}
  <2>1. group[1].mode # "profile" /\ group[1].mode # "exclusive"
    BY <1>2
  <2>2. /\ \A i \in Sharers(group, Members), j \in Members : group[i].aod.aod \notin group[j].claims
        /\ SharedCapacity(group, Sharers(group, Members))
    BY Zenon, <2>1 DEF Compatible
  <2>3. ~\E i \in Sharers(group, Members) : group[i].aod.family # NoFamily
    BY DEF Joint
  <2>4. AodFits(group, S)
    BY Zenon, <2>2, <2>3 DEF SharedCapacity
  <2>5. S # {} => \A j \in Members : a \notin group[j].claims
    BY <2>2
  <2> QED BY <2>4, <2>5
<1> QED BY <1>1, <1>2

\* Members that share a device fit its lines, and their claims of it are disjoint.
LEMMA SharersFitTheDevice ==
  Grown => SharersFitDevice
<1> SUFFICES ASSUME Grown, Members # {}, Compatible(group, 1, Members),
                    Joint(group, Members) = {}, NEW a \in Aods
             PROVE  LET S == {i \in Sharers(group, Members) : group[i].aod.aod = a} IN
      /\ ColumnsNeeded(group, S) =< MaxColumns
      /\ \A i, j \in S : i # j =>
           /\ group[i].aod.grid = group[j].aod.grid
           /\ \/ group[i].aod.lo - group[j].aod.hi >= Spacing
              \/ group[j].aod.lo - group[i].aod.hi >= Spacing
      /\ S # {} => \A j \in Members : a \notin group[j].claims
  BY Zenon DEF SharersFitDevice, ColumnsNeeded
<1> DEFINE S == {i \in Sharers(group, Members) : group[i].aod.aod = a}
<1>1. AodFits(group, S) /\ (S # {} => \A j \in Members : a \notin group[j].claims)
  BY SharersFit
<1>2. S \subseteq Members /\ Sharing(group, S) /\ IsFiniteSet(S)
  <2>1. S \subseteq Members /\ \A i \in S : group[i].mode = "shared"
    BY DEF Sharers
  <2> HIDE DEF S
  <2> QED BY <2>1, GroupDeclares, FS_Subset DEF Declares, Sharing
<1> HIDE DEF S
<1>3. ColumnsNeeded(group, S) =< MaxColumns /\ Bands(group, S)
      /\ \A i, j \in S : group[i].aod.grid = group[j].aod.grid
  BY Zenon, <1>1 DEF AodFits, ColumnsNeeded
<1>4. ASSUME NEW i \in S, NEW j \in S, i # j
      PROVE  \/ group[i].aod.lo - group[j].aod.hi >= Spacing
             \/ group[j].aod.lo - group[i].aod.hi >= Spacing
  <2>1. group[i].aod.lo \in Int /\ group[j].aod.lo \in Int
    BY <1>2, CompatibilityAssumption DEF Sharing, SharedClaims
  <2>2. group[i].aod.lo =< group[j].aod.lo \/ group[j].aod.lo =< group[i].aod.lo
    BY <2>1
  <2> QED BY <1>2, <1>3, <1>4, <2>2, BandsApart
<1> QED BY <1>1, <1>3, <1>4 DEF S

\* Every group the rule accepts is compatible in all its parts, whichever member
\* is compared with, and its sharers fit their AOD, in whatever order the bands
\* were declared (compatible_specs, _shared_capacity).
THEOREM GroupsAlwaysSound ==
  GroupSpec => []GroupsSound
<1>1. GroupInit => Grown
  BY DEF GroupInit, Grown
<1>2. Grown /\ [GroupNext]_group => Grown'
  BY DEF Grown, GroupNext, Propose
<1>3. Grown => GroupsSound
  BY SubgroupsAreCompatible, SharersFitTheDevice DEF GroupsSound
<1> QED BY <1>1, <1>2, <1>3, PTL DEF GroupSpec
=============================================================================
