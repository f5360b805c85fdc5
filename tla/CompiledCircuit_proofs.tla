----------------------- MODULE CompiledCircuit_proofs -----------------------
(***************************************************************************)
(* For every circuit PhysicalDAG accepts, any durations, latency, layer     *)
(* limits and transport: the tester and the compiler keep the order of the  *)
(* circuit and follow the bits (ReadersKeepOrder), the loop always has      *)
(* something ready or a bit to wait for unless an operation reads a skipped *)
(* measurement (StopsForCause), the tester does everything as early as it   *)
(* may (TesterEarliest), and the timing checks accept exactly the right     *)
(* results (ChecksExact).                                                   *)
(* The invariants say that the counts of unfinished predecessors, the ready *)
(* and the waiting operations, the queue and the bits tell the same story;  *)
(* that each step of the loop decides within the time it takes (Timed); and *)
(* that what a neighbour hands on is all that ancestors demand (Reaching).  *)
(***************************************************************************)
EXTENDS CompiledCircuit, Integers, FiniteSetTheorems, WellFoundedInduction, TLAPS

\* The circuit at hand is one that may be.
InputOK ==
  /\ circuit \in Circuits
  /\ bits \in [Measurements -> {0, 1}]
  /\ pace \in [duration : Durations, latency : Latencies]

-----------------------------------------------------------------------------
(* Numbers.                                                                  *)

Below(S, x) == {y \in S : y < x}
Above(S, x) == {y \in S : y > x}

\* The numbers of a set below one of its members: a finite part, closed downwards.
LEMMA BelowFacts ==
  ASSUME NEW S \in SUBSET Nat, NEW x \in S
  PROVE /\ Below(S, x) \in SUBSET S /\ IsFiniteSet(Below(S, x))
        /\ \A y \in S : y \in Below(S, x) <=> y < x
        /\ \A y \in Below(S, x) : Below(S, y) \subseteq Below(S, x) /\ y \notin Below(S, y)
<1>0. \A y \in S : y \in Nat
  OBVIOUS
<1>1. /\ Below(S, x) \subseteq S
      /\ \A y \in S : y \in Below(S, x) <=> y < x
  BY DEF Below
<1>2. Below(S, x) \in SUBSET Nat /\ x \in Nat
  BY <1>1
<1>5. ASSUME NEW y \in Below(S, x) PROVE y <= x
  <2>1. y \in Nat /\ y < x
    BY <1>0, <1>1
  <2> QED BY <2>1, <1>2
<1>3. IsFiniteSet(Below(S, x))
  BY <1>2, <1>5, FS_BoundedSetOfNaturals
<1>4. ASSUME NEW y \in Below(S, x)
      PROVE Below(S, y) \subseteq Below(S, x) /\ y \notin Below(S, y)
  <2>1. y \in Nat /\ y < x /\ x \in Nat
    BY <1>0, <1>1
  <2>2. ASSUME NEW z \in Below(S, y) PROVE z \in Below(S, x)
    <3>1. z \in Nat /\ z \in S /\ z < y
      BY <1>0 DEF Below
    <3>2. z < x
      BY <3>1, <2>1
    <3> QED BY <3>1, <3>2 DEF Below
  <2>3. y \notin Below(S, y)
    <3>1. ~(y < y)
      BY <2>1
    <3> QED BY <3>1 DEF Below
  <2> QED BY <2>2, <2>3
<1> QED BY <1>1, <1>3, <1>4

\* A non-empty set of naturals has a least element.
LEMMA MinOfNaturals ==
  ASSUME NEW S \in SUBSET Nat, S # {}
  PROVE Min(S) \in S /\ \A y \in S : Min(S) =< y
<1> DEFINE T == {Below(S, x) : x \in S}
<1>1. T \subseteq FiniteSubsetsOf(S) /\ T # {}
  <2>1. \A x \in S : Below(S, x) \in FiniteSubsetsOf(S)
    BY BelowFacts DEF FiniteSubsetsOf
  <2> QED BY <2>1
<1>2. PICK l \in T : \A k \in T : <<k, l>> \notin StrictSubsetOrdering(S)
  <2> HIDE DEF T
  <2> QED BY <1>1, FS_StrictSubsetOrderingWellFounded, WFMin
<1>3. PICK x \in S : l = Below(S, x)
  OBVIOUS
<1>4. ASSUME NEW y \in S, y < x PROVE FALSE
  <2>1. /\ Below(S, y) \in SUBSET S /\ Below(S, x) \in SUBSET S
        /\ Below(S, y) \subseteq Below(S, x) /\ Below(S, y) # Below(S, x)
    BY <1>4, BelowFacts
  <2> QED BY <2>1, <1>2, <1>3 DEF StrictSubsetOrdering
<1>5. \A y \in S : x =< y
  BY <1>4
<1> QED BY <1>5 DEF Min

\* A finite one has a greatest.
LEMMA MaxOfNaturals ==
  ASSUME NEW S \in SUBSET Nat, S # {}, IsFiniteSet(S)
  PROVE Max(S) \in S /\ \A y \in S : Max(S) >= y
<1> DEFINE T == {Above(S, x) : x \in S}
<1>0. \A y \in S : y \in Nat
  OBVIOUS
<1>1. ASSUME NEW x \in S
      PROVE /\ Above(S, x) \in SUBSET S
            /\ \A y \in S : y \in Above(S, x) <=> y > x
            /\ \A y \in S : y > x => Above(S, y) \subseteq Above(S, x) /\ y \notin Above(S, y)
  <2>1. Above(S, x) \subseteq S /\ \A y \in S : y \in Above(S, x) <=> y > x
    BY DEF Above
  <2>2. ASSUME NEW y \in S, y > x PROVE Above(S, y) \subseteq Above(S, x) /\ y \notin Above(S, y)
    <3>1. y \in Nat /\ x \in Nat /\ ~(y > y)
      BY <1>0
    <3>2. ASSUME NEW z \in Above(S, y) PROVE z \in Above(S, x)
      <4>1. z \in Nat /\ z \in S /\ z > y
        BY <1>0 DEF Above
      <4>2. z > x
        BY <4>1, <3>1, <2>2
      <4> QED BY <4>1, <4>2 DEF Above
    <3>3. y \notin Above(S, y)
      BY <3>1 DEF Above
    <3> QED BY <3>2, <3>3
  <2> QED BY <2>1, <2>2
<1>2. \A x \in S : IsFiniteSet(Above(S, x))
  BY <1>1, FS_Subset
<1>3. T \subseteq FiniteSubsetsOf(S) /\ T # {}
  <2>1. \A x \in S : Above(S, x) \in FiniteSubsetsOf(S)
    BY <1>1, <1>2 DEF FiniteSubsetsOf
  <2> QED BY <2>1
<1>4. PICK l \in T : \A k \in T : <<k, l>> \notin StrictSubsetOrdering(S)
  <2> HIDE DEF T
  <2> QED BY <1>3, FS_StrictSubsetOrderingWellFounded, WFMin
<1>5. PICK x \in S : l = Above(S, x)
  OBVIOUS
<1>6. ASSUME NEW y \in S, y > x PROVE FALSE
  <2>1. /\ Above(S, y) \in SUBSET S /\ Above(S, x) \in SUBSET S
        /\ Above(S, y) \subseteq Above(S, x) /\ Above(S, y) # Above(S, x)
    BY <1>6, <1>1
  <2> QED BY <2>1, <1>4, <1>5 DEF StrictSubsetOrdering
<1>7. \A y \in S : x >= y
  BY <1>6
<1> QED BY <1>7 DEF Max

\* The values a function takes on a finite set are finitely many.
LEMMA FiniteValues ==
  ASSUME NEW f, IsFiniteSet(DOMAIN f)
  PROVE IsFiniteSet({f[x] : x \in DOMAIN f})
<1> DEFINE T == {f[x] : x \in DOMAIN f}
           g == [x \in DOMAIN f |-> f[x]]
<1>1. g \in Surjection(DOMAIN f, T)
  BY DEF Surjection
<1> QED BY <1>1, FS_Surjection

-----------------------------------------------------------------------------
(* The circuit.                                                              *)

\* What CircuitAssumption says of the circuit at hand.
LEMMA InputFacts ==
  ASSUME InputOK
  PROVE /\ Nodes \subseteq Nat /\ IsFiniteSet(Nodes)
        /\ \A n \in Nodes : Predecessors(n) \subseteq Nodes /\ IsFiniteSet(Predecessors(n))
        /\ \A n \in Nodes : \A m \in Predecessors(n) : m < n
        /\ \A n \in Nodes : Conditioned(n) => /\ circuit.ops[n].reads \in Measurements
                                              /\ circuit.ops[n].reads < n
                                              /\ Asked(n) = circuit.ops[n].reads
        /\ \A n \in Nodes : Lasts(n) \in Nat
        /\ pace.latency \in Nat
<1>1. /\ IsCircuit(circuit) /\ pace.duration \in Durations /\ pace.latency \in Latencies
      /\ \A n \in Nodes : pace.duration[circuit.ops[n].name] \in Nat
      /\ Latencies \subseteq Nat
  BY CircuitAssumption DEF InputOK, Nodes
<1>2. Len(circuit.ops) \in Nat /\ Nodes = 1..Len(circuit.ops)
  BY <1>1 DEF IsCircuit, Nodes
<1>3. Nodes \subseteq Nat /\ IsFiniteSet(Nodes)
  BY <1>2, FS_Interval
<1>4. ASSUME NEW n \in Nodes
      PROVE /\ Predecessors(n) \subseteq Nodes /\ IsFiniteSet(Predecessors(n))
            /\ \A m \in Predecessors(n) : m < n
  <2>1. Predecessors(n) \subseteq Nodes
    BY DEF Predecessors
  <2>2. \A m \in Predecessors(n) : m < n
    BY <1>1 DEF Predecessors, IsCircuit
  <2> QED BY <2>1, <2>2, <1>3, FS_Subset
<1>5. ASSUME NEW n \in Nodes, Conditioned(n)
      PROVE /\ circuit.ops[n].reads \in Measurements /\ circuit.ops[n].reads < n
            /\ Asked(n) = circuit.ops[n].reads
  <2>1. circuit.ops[n].reads \in 1..(n - 1) /\ circuit.ops[circuit.ops[n].reads].name = "measure"
    BY <1>1, <1>5 DEF IsCircuit, Conditioned, Nodes
  <2> QED BY <2>1, <1>2 DEF Measurements, Name, Asked, Result
<1>7. \A n \in Nodes : Lasts(n) \in Nat
  BY <1>1 DEF Lasts, Name
<1> QED BY <1>1, <1>3, <1>4, <1>5, <1>7

\* The operation is on the branch that the backend's bits take.
OnBranch(n) == Conditioned(n) => bits[circuit.ops[n].reads] = Wants(n)

\* The measurements that are made: those whose bit the compiler records.
Made == {m \in Measurements : OnBranch(m)}

\* Nobody changes the circuit, the bits or the pace.
LEMMA SameInput ==
  ASSUME UNCHANGED input
  PROVE /\ InputOK => InputOK'
        /\ Nodes' = Nodes /\ Measurements' = Measurements
        /\ bits' = bits /\ circuit' = circuit /\ pace' = pace
        /\ \A n : Predecessors(n)' = Predecessors(n)
        /\ \A n : Asked(n)' = Asked(n)
        /\ \A n : Wants(n)' = Wants(n)
        /\ \A n : Conditioned(n)' <=> Conditioned(n)
        /\ Made' = Made
BY DEF input, InputOK, Nodes, Measurements, Name, Predecessors, Asked, Result, Wants, Conditioned,
       Made, OnBranch

-----------------------------------------------------------------------------
(* The compiler's loop.                                                      *)

\* Of a circuit whose operations in done are finished: the counts and the
\* ready operations say which predecessors are missing.
Progress(done) ==
  /\ done \subseteq Nodes
  /\ \A n \in done : Predecessors(n) \subseteq done
  /\ \A n \in Nodes : unmet[n] = Cardinality(Predecessors(n) \ done)
  /\ ready = {n \in Nodes \ done : Predecessors(n) \subseteq done}

\* Every finished measurement that was made has its bit on record, and no one
\* else has; what is decided read a bit that is on record.
Recording ==
  /\ DOMAIN records = DOMAIN decisions \cap Made
  /\ \A n \in DOMAIN decisions : Conditioned(n) => circuit.ops[n].reads \in DOMAIN records
  /\ \A r \in DOMAIN records : records[r].value = bits[r] /\ records[r].at \in Nat
  /\ clock \in Nat

LoopInv == InputOK /\ Progress(DOMAIN decisions) /\ Recording

\* The compiler's loop starts with nothing decided, recorded or heard.
LEMMA LoopInit ==
  ASSUME InputOK, CompilationInit
  PROVE LoopInv
<1>1. DOMAIN decisions = {} /\ DOMAIN records = {} /\ clock = 0
  BY DEF CompilationInit, Nothing
<1>2. \A n \in Nodes : Predecessors(n) \ {} = Predecessors(n)
  OBVIOUS
<1>3. /\ unmet = [n \in Nodes |-> Cardinality(Predecessors(n))]
      /\ ready = {n \in Nodes : Predecessors(n) = {}}
  BY DEF CompilationInit
<1>4. Progress(DOMAIN decisions)
  BY <1>1, <1>2, <1>3 DEF Progress
<1> QED BY <1>1, <1>4 DEF LoopInv, Recording

\* The layer selected is one of those that are ready.
LEMMA SelectWithin ==
  ASSUME NEW ns \in SUBSET Nat, ns # {}
  PROVE Select(ns) \subseteq ns
<1>1. \A ms, capacity : Disjoint(ms, capacity) \subseteq ms
  BY DEF Disjoint
<1> QED BY <1>1, MinOfNaturals DEF Select

\* The operation is on the branch exactly if the record says so.
LEMMA EnabledIsOnBranch ==
  ASSUME LoopInv, NEW n \in TimeReady
  PROVE /\ n \in Nodes /\ n \notin DOMAIN decisions /\ n \in ready
        /\ Enabled(n) <=> OnBranch(n)
        /\ Conditioned(n) => /\ circuit.ops[n].reads \in DOMAIN records
                             /\ records[circuit.ops[n].reads].at =< clock
<1>1. n \in ready /\ n \in Nodes /\ n \notin DOMAIN decisions /\ Available(n)
  BY DEF TimeReady, LoopInv, Progress
<1>2. CASE Conditioned(n)
  <2>1. Asked(n) = circuit.ops[n].reads /\ circuit.ops[n].reads \in Measurements
    BY <1>1, <1>2, InputFacts DEF LoopInv
  <2>2. Asked(n) \in DOMAIN records /\ records[Asked(n)].at =< clock
    BY <1>1, <1>2 DEF Available, Recorded
  <2>3. records[Asked(n)].value = bits[Asked(n)]
    BY <2>2 DEF LoopInv, Recording
  <2> QED BY <1>1, <1>2, <2>1, <2>2, <2>3 DEF Enabled, OnBranch
<1>3. CASE ~Conditioned(n)
  BY <1>1, <1>3 DEF Enabled, OnBranch
<1> QED BY <1>2, <1>3

\* The operations of this step.
Fresh == DOMAIN decisions' \ DOMAIN decisions

\* The operation's status, by the branch and its name.
StatusOf(n) ==
  IF ~OnBranch(n) THEN "skipped" ELSE IF Name(n) \in Metadata THEN "metadata" ELSE "emitted"

\* The step decides the operation within the time it takes.
TimesFit(n) ==
  LET d == decisions'[n] IN
  /\ d.start \in Nat /\ d.end \in Nat
  /\ clock =< d.start /\ d.start =< d.end /\ d.end =< clock'

\* Operations that were ready, with their bits available, finish: what a step
\* of the loop that finishes any comes to.
Commits ==
  /\ Fresh \subseteq TimeReady /\ Finish(Fresh)
  /\ DOMAIN decisions \subseteq DOMAIN decisions'
  /\ \A n \in DOMAIN decisions : decisions'[n] = decisions[n]
  /\ \A n \in Fresh : decisions'[n].status = StatusOf(n) /\ TimesFit(n)
  /\ DOMAIN records' = DOMAIN records \cup (Fresh \cap Made)
  /\ \A r \in DOMAIN records : records'[r] = records[r]
  /\ \A r \in Fresh \cap Made :
       /\ records'[r].value = bits[r] /\ records'[r].at \in Nat
       /\ records'[r].end \in Nat /\ records'[r].at = records'[r].end + pace.latency
       /\ records'[r].end = decisions'[r].end
  /\ clock' \in Nat /\ clock =< clock'

\* A step that commits time-ready operations keeps LoopInv and is an Advance of
\* the abstract reader.
LEMMA CommitKeeps ==
  ASSUME LoopInv, UNCHANGED input, Commits
  PROVE LoopInv' /\ Compiler!Advance
<1> DEFINE done == DOMAIN decisions
           ns == Fresh
           now == done \cup ns
<1>0. /\ ns \subseteq TimeReady /\ Finish(ns)
      /\ \A n \in done : decisions'[n] = decisions[n]
      /\ \A n \in ns : decisions'[n].status = "skipped" <=> ~OnBranch(n)
      /\ DOMAIN records' = DOMAIN records \cup (ns \cap Made)
      /\ \A r \in DOMAIN records : records'[r] = records[r]
      /\ \A r \in ns \cap Made : records'[r].value = bits[r] /\ records'[r].at \in Nat
      /\ clock' \in Nat /\ clock =< clock'
  BY DEF Commits, StatusOf
<1>1. DOMAIN decisions' = now
  BY DEF Commits, Fresh
<1> HIDE DEF ns
<1>2. /\ ns \subseteq ready /\ ns \subseteq Nodes /\ ns \cap done = {}
      /\ InputOK /\ Progress(done) /\ Recording
  BY <1>0, EnabledIsOnBranch DEF LoopInv, Fresh, ns
<1>3. /\ InputOK' /\ Nodes' = Nodes /\ Measurements' = Measurements /\ Made' = Made
      /\ bits' = bits /\ circuit' = circuit
      /\ \A n : Predecessors(n)' = Predecessors(n)
      /\ \A n : Wants(n)' = Wants(n)
      /\ \A n : Conditioned(n)' <=> Conditioned(n)
  BY <1>2, SameInput
<1>4. /\ now \subseteq Nodes
      /\ \A n \in now : Predecessors(n) \subseteq now
      /\ \A n \in Nodes : unmet'[n] = Cardinality(Predecessors(n) \ now)
      /\ ready' = {n \in Nodes \ now : Predecessors(n) \subseteq now}
  <2>0. /\ unmet' = [m \in Nodes |-> unmet[m] - Cardinality(Predecessors(m) \cap ns)]
        /\ ready' = (ready \ ns) \cup
                     {m \in Nodes : Predecessors(m) \cap ns # {} /\ unmet'[m] = 0}
    BY <1>0, <1>3 DEF Finish
  <2>1. /\ done \subseteq Nodes /\ ns \subseteq Nodes /\ ns \cap done = {}
        /\ \A n \in now : Predecessors(n) \subseteq done
        /\ \A n \in Nodes \ done : n \in ready <=> Predecessors(n) \subseteq done
    BY <1>2 DEF Progress
  <2>4. ASSUME NEW n \in Nodes
        PROVE /\ unmet'[n] = Cardinality(Predecessors(n) \ now)
              /\ unmet'[n] = 0 <=> Predecessors(n) \subseteq now
    <3>1. IsFiniteSet(Predecessors(n)) /\ unmet[n] = Cardinality(Predecessors(n) \ done)
      BY <1>2, InputFacts DEF Progress
    <3>2. /\ Cardinality(Predecessors(n) \ now) = unmet[n] - Cardinality(Predecessors(n) \cap ns)
          /\ IsFiniteSet(Predecessors(n) \ now)
      <4> DEFINE left == Predecessors(n) \ done
      <4>1. IsFiniteSet(left) /\ Predecessors(n) \ now = left \ ns /\ left \cap ns = Predecessors(n) \cap ns
        BY <2>1, <3>1, FS_Difference
      <4>2. IsFiniteSet(left \ ns) /\ Cardinality(left \ ns) = Cardinality(left) - Cardinality(left \cap ns)
        <5> HIDE DEF left
        <5> QED BY <4>1, FS_Difference
      <4> QED BY <4>1, <4>2, <3>1
    <3>3. Cardinality(Predecessors(n) \ now) = 0 <=> Predecessors(n) \subseteq now
      BY <3>2, FS_EmptySet
    <3> QED BY <3>2, <3>3, <2>0
  <2>5. ASSUME NEW n \in Nodes
        PROVE n \in ready' <=> n \notin now /\ Predecessors(n) \subseteq now
    <3>1. n \in ready' <=> ((n \in ready /\ n \notin ns)
                             \/ (Predecessors(n) \cap ns # {} /\ Predecessors(n) \subseteq now))
      BY <2>0, <2>4
    <3>2. n \in now => Predecessors(n) \cap ns = {}
      BY <2>1
    <3>3. Predecessors(n) \cap ns = {} => (Predecessors(n) \subseteq now <=> Predecessors(n) \subseteq done)
      OBVIOUS
    <3>4. n \in ready => n \notin done /\ Predecessors(n) \subseteq done
      BY <1>2 DEF Progress
    <3> QED BY <3>1, <3>2, <3>3, <3>4, <2>1
  <2>6. ready' \subseteq Nodes
    BY <1>2, <2>0, <2>1 DEF Progress
  <2> QED BY <2>1, <2>4, <2>5, <2>6
<1>5. Progress(DOMAIN decisions)'
  BY <1>1, <1>3, <1>4 DEF Progress
<1>6. Recording'
  <2>1. DOMAIN records' = DOMAIN decisions' \cap Made
    BY <1>0, <1>1, <1>2 DEF Recording
  <2>2. \A r \in DOMAIN records' : records'[r].value = bits[r] /\ records'[r].at \in Nat
    BY <1>0, <1>2 DEF Recording
  <2>3. \A n \in now : Conditioned(n) => circuit.ops[n].reads \in DOMAIN records'
    <3>1. \A n \in ns : Conditioned(n) => circuit.ops[n].reads \in DOMAIN records
      BY <1>0, <1>2, EnabledIsOnBranch DEF LoopInv
    <3>2. \A n \in done : Conditioned(n) => circuit.ops[n].reads \in DOMAIN records
      BY <1>2 DEF Recording
    <3> QED BY <3>1, <3>2, <1>0
  <2> QED BY <1>0, <1>1, <2>1, <2>2, <2>3, <1>3 DEF Recording
<1>7. done \subseteq DOMAIN decisions' /\ DOMAIN decisions' \subseteq Nodes
  BY <1>1, <1>4
<1>8. \A n \in ns : /\ Predecessors(n) \subseteq done
                    /\ Conditioned(n) => /\ circuit.ops[n].reads \in Measurements
                                         /\ circuit.ops[n].reads \in DOMAIN records
                                         /\ records[circuit.ops[n].reads].at =< clock
  BY <1>0, <1>2, EnabledIsOnBranch, InputFacts DEF Progress
<1>9. {n \in DOMAIN decisions : decisions[n].status # "skipped"}'
        = {n \in done : decisions[n].status # "skipped"} \cup {n \in ns : OnBranch(n)}
  BY <1>0, <1>1
<1> DEFINE heard == {m \in Measurements : Result(m) \in DOMAIN records /\ records[Result(m)].at =< clock}
<1>10. heard' = {m \in Measurements : m \in DOMAIN records' /\ records'[m].at =< clock'}
  BY <1>3 DEF Result
<1>11. heard = {m \in Measurements : m \in DOMAIN records /\ records[m].at =< clock}
  BY DEF Result
<1>12. heard \subseteq heard'
  <2>1. ASSUME NEW m \in heard PROVE m \in heard'
    <3>1. m \in Measurements /\ m \in DOMAIN records /\ records[m].at =< clock
      BY <1>11
    <3>2. records[m].at \in Nat /\ clock \in Nat /\ records'[m] = records[m] /\ m \in DOMAIN records'
      BY <1>0, <3>1, <1>2 DEF Recording
    <3>3. records'[m].at =< clock'
      BY <1>0, <3>1, <3>2
    <3> QED BY <3>1, <3>2, <3>3, <1>10
  <2> QED BY <2>1
<1>13. heard' \subseteq {m \in DOMAIN decisions' : circuit.ops[m].name = "measure"}
  BY <1>10, <1>6, <1>3 DEF Recording, Made, Measurements, Name
<1>14. DOMAIN decisions' \ done = ns
  BY <1>1, <1>2
<1>15. Compiler!Advance
  <2>1. \A n \in ns : /\ Compiler!Predecessors(n) \subseteq done
                      /\ Compiler!Reads(n) # 0 => Compiler!Reads(n) \in heard
    BY <1>8, <1>11 DEF Compiler!Predecessors, Compiler!Reads, Compiler!Nodes,
                       Predecessors, Nodes, Conditioned, NoRead
  <2>2. \A n : Compiler!Taken(n) <=> OnBranch(n)
    BY DEF Compiler!Taken, Compiler!Reads, OnBranch, Conditioned, NoRead, Wants
  <2>3. Compiler!Nodes = Nodes
    BY DEF Compiler!Nodes, Nodes
  <2> HIDE DEF heard
  <2> QED BY <2>1, <2>2, <2>3, <1>3, <1>7, <1>9, <1>12, <1>13, <1>14 DEF Compiler!Advance, heard
<1> QED BY <1>3, <1>5, <1>6, <1>15 DEF LoopInv

\* Finishing the operations that are not lowered commits them.
LEMMA MetadataCommits ==
  ASSUME LoopInv, UNCHANGED input, FinishMetadata
  PROVE Commits
<1> DEFINE ns == {n \in TimeReady : Unlowered(n)}
<1>1. /\ Finish(ns) /\ clock' = clock /\ records' = records
      /\ decisions' = Joined([n \in ns |->
           [status |-> IF Enabled(n) THEN "metadata" ELSE "skipped",
            start |-> clock, end |-> clock]], decisions)
  BY DEF FinishMetadata
<1>2. ns \subseteq TimeReady /\ ns \cap DOMAIN decisions = {}
  BY EnabledIsOnBranch
<1>4. \A n \in ns : Enabled(n) <=> OnBranch(n)
  BY EnabledIsOnBranch
<1>3. ns \cap Made = {}
  <2>1. \A n \in Measurements : Name(n) \notin Metadata
    BY DEF Measurements, Metadata
  <2> QED BY <2>1, <1>4 DEF Unlowered, Made
<1> HIDE DEF ns
<1>5. /\ DOMAIN decisions' = ns \cup DOMAIN decisions
      /\ \A n \in ns : decisions'[n].status = IF Enabled(n) THEN "metadata" ELSE "skipped"
      /\ \A n \in DOMAIN decisions : n \notin ns => decisions'[n] = decisions[n]
  BY <1>1 DEF Joined
<1>6. Fresh = ns
  BY <1>2, <1>5 DEF Fresh
<1>7. clock \in Nat
  BY DEF LoopInv, Recording
<1>8. ASSUME NEW n \in ns PROVE decisions'[n].status = StatusOf(n) /\ TimesFit(n)
  <2>1. decisions'[n] = [status |-> IF Enabled(n) THEN "metadata" ELSE "skipped",
                         start |-> clock, end |-> clock]
    BY <1>1 DEF Joined
  <2>2. ~OnBranch(n) \/ Name(n) \in Metadata
    BY <1>4 DEF ns, Unlowered
  <2>3. decisions'[n].status = StatusOf(n)
    BY <1>4, <2>1, <2>2 DEF StatusOf
  <2>4. TimesFit(n)
    BY <1>1, <1>7, <2>1 DEF TimesFit
  <2> QED BY <2>3, <2>4
<1>9. /\ Fresh \cap Made = {} /\ clock =< clock'
      /\ \A n \in DOMAIN decisions : decisions'[n] = decisions[n]
  BY <1>1, <1>2, <1>3, <1>5, <1>6, <1>7
<1> QED BY <1>1, <1>2, <1>5, <1>6, <1>7, <1>8, <1>9 DEF Commits

\* Lowering a layer commits it, whatever the transports were.
LEMMA LayerCommits ==
  ASSUME LoopInv, UNCHANGED input, LowerLayer
  PROVE Commits
<1> DEFINE layer == Select(TimeReady)
<1>1. PICK lead \in [layer -> Transport], tail \in Transport : Lower(layer, lead, tail)
  BY DEF LowerLayer
<1> DEFINE end(n) == clock + lead[n] + Lasts(n)
           ends == {end(n) : n \in layer}
<1>2. /\ Finish(layer)
      /\ decisions' = Joined([n \in layer |->
           [status |-> "emitted", start |-> clock + lead[n], end |-> end(n)]], decisions)
      /\ records' = Joined([r \in {Result(n) : n \in layer \cap Measurements} |->
           LET n == CHOOSE m \in layer : Result(m) = r
           IN  [value |-> bits[n], end |-> end(n), at |-> end(n) + pace.latency]], records)
      /\ clock' = Max({clock} \cup ends) + tail
  BY <1>1 DEF Lower
<1>3. /\ layer \subseteq TimeReady /\ layer \cap DOMAIN decisions = {}
      /\ layer \subseteq Nodes /\ layer \cap DOMAIN records = {}
  <2>1. TimeReady \in SUBSET Nat /\ TimeReady # {}
    BY EnabledIsOnBranch, InputFacts DEF LowerLayer, LoopInv
  <2>2. layer \subseteq TimeReady
    BY <2>1, SelectWithin
  <2> HIDE DEF layer
  <2> QED BY <2>2, EnabledIsOnBranch DEF LoopInv, Recording
<1> HIDE DEF layer
<1>4. /\ \A n \in layer : OnBranch(n) /\ Name(n) \notin Metadata
      /\ layer \cap Measurements = layer \cap Made
  BY <1>3, EnabledIsOnBranch DEF LowerLayer, Unlowered, Made
<1>5. /\ clock \in Nat /\ pace.latency \in Nat /\ tail \in Nat
      /\ \A n \in layer : /\ end(n) \in Nat /\ clock + lead[n] \in Nat
                          /\ clock =< clock + lead[n] /\ clock + lead[n] =< end(n)
  <2>1. clock \in Nat /\ pace.latency \in Nat /\ tail \in Nat
    BY InputFacts, LoopAssumption DEF LoopInv, Recording
  <2>2. ASSUME NEW n \in layer
        PROVE  /\ end(n) \in Nat /\ clock + lead[n] \in Nat
               /\ clock =< clock + lead[n] /\ clock + lead[n] =< end(n)
    <3>1. lead[n] \in Nat /\ Lasts(n) \in Nat
      BY <1>3, InputFacts, LoopAssumption DEF LoopInv
    <3> QED BY <2>1, <3>1
  <2> QED BY <2>1, <2>2
<1>6. clock' \in Nat /\ clock =< clock' /\ \A n \in layer : end(n) =< clock'
  <2> DEFINE S == {clock} \cup ends
  <2>1. IsFiniteSet(layer)
    BY <1>3, InputFacts, FS_Subset DEF LoopInv
  <2>2. IsFiniteSet(ends)
    <3> DEFINE f == [n \in layer |-> end(n)]
    <3>1. DOMAIN f = layer /\ ends = {f[n] : n \in DOMAIN f}
      OBVIOUS
    <3> HIDE DEF f, ends
    <3> QED BY <3>1, <2>1, FiniteValues
  <2>3. IsFiniteSet(S)
    <3> HIDE DEF ends
    <3>1. IsFiniteSet(ends \cup {clock}) /\ ends \cup {clock} = S
      BY <2>2, FS_AddElement
    <3> QED BY <3>1
  <2>4. S \in SUBSET Nat /\ S # {} /\ clock \in S /\ \A n \in layer : end(n) \in S
    BY <1>5
  <2> HIDE DEF S
  <2>5. Max(S) \in Nat /\ \A x \in S : Max(S) >= x
    BY <2>3, <2>4, MaxOfNaturals
  <2>6. clock' = Max(S) + tail
    BY <1>2 DEF S
  <2>7. ASSUME NEW x \in S PROVE x =< clock'
    <3>1. x \in Nat /\ Max(S) >= x
      BY <2>4, <2>5
    <3> QED BY <1>5, <2>5, <2>6, <3>1
  <2> QED BY <2>4, <2>5, <2>6, <2>7, <1>5
<1>7. /\ DOMAIN decisions' = layer \cup DOMAIN decisions
      /\ \A n \in layer : decisions'[n].status = "emitted"
      /\ \A n \in DOMAIN decisions : n \notin layer => decisions'[n] = decisions[n]
  BY <1>2 DEF Joined
<1>8. Fresh = layer
  BY <1>3, <1>7 DEF Fresh
<1>9. /\ DOMAIN records' = DOMAIN records \cup (layer \cap Made)
      /\ \A r \in DOMAIN records : records'[r] = records[r]
      /\ \A r \in layer \cap Made :
           /\ records'[r].value = bits[r] /\ records'[r].at \in Nat
           /\ records'[r].end \in Nat /\ records'[r].at = records'[r].end + pace.latency
           /\ records'[r].end = end(r)
  <2> DEFINE new == [r \in layer \cap Made |->
                       [value |-> bits[r], end |-> end(r), at |-> end(r) + pace.latency]]
  <2>1. \A r \in layer \cap Made : (CHOOSE m \in layer : Result(m) = r) = r
    BY DEF Result
  <2>2. {Result(n) : n \in layer \cap Made} = layer \cap Made
    BY DEF Result
  <2>3. records' = Joined(new, records)
    BY <1>2, <1>4, <2>1, <2>2
  <2>4. /\ DOMAIN records' = DOMAIN records \cup (layer \cap Made)
        /\ \A r \in DOMAIN records : r \notin layer => records'[r] = records[r]
        /\ \A r \in layer \cap Made : records'[r] = new[r]
    BY <2>3 DEF Joined
  <2>5. \A r \in layer \cap Made :
          /\ new[r].value = bits[r] /\ new[r].at \in Nat
          /\ new[r].end = end(r) /\ new[r].end \in Nat /\ new[r].at = new[r].end + pace.latency
    BY <1>5
  <2> HIDE DEF new
  <2> QED BY <2>4, <2>5, <1>3
<1> HIDE DEF ends
<1>10. ASSUME NEW n \in layer
       PROVE  /\ decisions'[n].status = StatusOf(n) /\ TimesFit(n)
              /\ decisions'[n].end = end(n)
  <2>1. decisions'[n] = [status |-> "emitted", start |-> clock + lead[n], end |-> end(n)]
    BY <1>2 DEF Joined
  <2>2. decisions'[n].status = StatusOf(n)
    BY <1>4, <2>1 DEF StatusOf
  <2>3. TimesFit(n)
    BY <1>5, <1>6, <2>1 DEF TimesFit
  <2> QED BY <2>1, <2>2, <2>3
<1> QED BY <1>2, <1>3, <1>6, <1>7, <1>8, <1>9, <1>10 DEF Commits

\* Waiting for a bit that is on its way.
LEMMA WaitKeeps ==
  ASSUME LoopInv, UNCHANGED input, WaitUntil
  PROVE LoopInv' /\ Compiler!Advance
<1>1. /\ ready' = ready /\ unmet' = unmet /\ records' = records /\ decisions' = decisions
      /\ clock' = Min(Pending) /\ Pending # {}
  BY DEF WaitUntil
<1>2. \A t \in Pending : t \in Nat /\ clock =< t
  <2>1. ASSUME NEW m \in ready, Recorded(m), ~Available(m)
        PROVE records[Asked(m)].at \in Nat /\ clock =< records[Asked(m)].at
    <3>1. Asked(m) \in DOMAIN records /\ ~(records[Asked(m)].at =< clock)
      BY <2>1 DEF Available, Recorded
    <3>2. records[Asked(m)].at \in Nat /\ clock \in Nat
      BY <3>1 DEF LoopInv, Recording
    <3> QED BY <3>1, <3>2
  <2> QED BY <2>1 DEF Pending
<1>3. clock' \in Nat /\ clock =< clock'
  <2>1. Pending \in SUBSET Nat
    BY <1>2
  <2>2. Min(Pending) \in Pending
    BY <1>1, <2>1, MinOfNaturals
  <2> QED BY <1>1, <1>2, <2>2
<1>4. /\ InputOK' /\ Nodes' = Nodes /\ Measurements' = Measurements /\ Made' = Made
      /\ bits' = bits /\ circuit' = circuit
      /\ \A n : Predecessors(n)' = Predecessors(n)
      /\ \A n : Conditioned(n)' <=> Conditioned(n)
  BY SameInput DEF LoopInv
<1>5. Progress(DOMAIN decisions)' /\ Recording'
  BY <1>1, <1>3, <1>4 DEF LoopInv, Progress, Recording
<1> DEFINE heard == {m \in Measurements : Result(m) \in DOMAIN records /\ records[Result(m)].at =< clock}
<1>6. heard \subseteq heard'
  <2>1. ASSUME NEW m \in heard PROVE m \in heard'
    <3>1. m \in DOMAIN records /\ records[m].at =< clock /\ m \in Measurements
      BY DEF Result
    <3>2. records[m].at \in Nat /\ clock \in Nat
      BY <3>1 DEF LoopInv, Recording
    <3>3. records'[m].at =< clock'
      BY <3>1, <3>2, <1>1, <1>3
    <3> QED BY <3>1, <3>3, <1>1, <1>4 DEF Result
  <2> QED BY <2>1
<1>7. heard' \subseteq {m \in DOMAIN decisions' : circuit.ops[m].name = "measure"}
  BY <1>1, <1>4 DEF LoopInv, Recording, Made, Measurements, Name, Result
<1>8. DOMAIN decisions' \subseteq Compiler!Nodes
  BY <1>1 DEF LoopInv, Progress, Compiler!Nodes, Nodes
<1>9. Compiler!Advance
  <2> HIDE DEF heard
  <2> QED BY <1>1, <1>4, <1>6, <1>7, <1>8 DEF Compiler!Advance, heard
<1> QED BY <1>4, <1>5, <1>9 DEF LoopInv

\* The step of the loop.
LEMMA LoopStep ==
  ASSUME LoopInv, UNCHANGED input, CompilationStep
  PROVE LoopInv' /\ Compiler!Advance
BY MetadataCommits, LayerCommits, CommitKeeps, WaitKeeps DEF CompilationStep

\* The least unfinished operation is ready, and its bit is on record, on its
\* way or never made; and who is finished had a bit that was.
LEMMA LoopInvStopsForCause ==
  ASSUME LoopInv
  PROVE StopsForCause
<1>1. /\ Nodes \subseteq Nat /\ Progress(DOMAIN decisions) /\ Recording
      /\ \A n \in Nodes : \A m \in Predecessors(n) : m \in Nodes /\ m < n
      /\ \A n \in Nodes : Conditioned(n) => /\ circuit.ops[n].reads \in Measurements
                                            /\ circuit.ops[n].reads < n
                                            /\ Asked(n) = circuit.ops[n].reads
  BY InputFacts DEF LoopInv
<1>2. \A n \in Nodes : Conditioned(n) => (Unanswered(n) <=> circuit.ops[n].reads \notin Made)
  BY <1>1 DEF Unanswered, Made, OnBranch
<1>3. ASSUME Starved PROVE \E n \in ready : Unanswered(n)
  <2> DEFINE left == Nodes \ DOMAIN decisions
             n == Min(left)
  <2>1. left \in SUBSET Nat /\ left # {}
    BY <1>1, <1>3 DEF Progress, Starved
  <2>2. n \in left /\ \A m \in left : n =< m
    <3> HIDE DEF left
    <3> QED BY <2>1, MinOfNaturals
  <2> HIDE DEF n
  <2>3. ASSUME NEW m \in Nodes, m < n PROVE m \in DOMAIN decisions
    <3>1. m \in Nat /\ n \in Nat
      BY <1>1, <2>1, <2>2
    <3> QED BY <2>2, <2>3, <3>1
  <2>4. n \in ready
    BY <1>1, <2>2, <2>3 DEF Progress
  <2>5. ~Recorded(n)
    BY <1>3, <2>4 DEF Starved, TimeReady, Pending
  <2>6. Conditioned(n) /\ circuit.ops[n].reads \notin DOMAIN records
    BY <1>1, <2>2, <2>5 DEF Recorded
  <2>7. circuit.ops[n].reads \in DOMAIN decisions
    BY <1>1, <2>2, <2>3, <2>6 DEF Measurements
  <2>8. circuit.ops[n].reads \notin Made
    BY <1>1, <2>6, <2>7 DEF Recording
  <2> QED BY <1>2, <2>2, <2>4, <2>6, <2>8
<1>4. ASSUME Compiled, NEW n \in Nodes PROVE ~Unanswered(n)
  <2>1. n \in DOMAIN decisions
    <3> DEFINE left == Nodes \ DOMAIN decisions
    <3>1. left \in SUBSET Nat
      BY <1>1
    <3>2. SUFFICES ASSUME left # {} PROVE FALSE
      BY <1>4
    <3>3. Min(left) \in left /\ \A m \in left : Min(left) =< m
      <4> HIDE DEF left
      <4> QED BY <3>1, <3>2, MinOfNaturals
    <3>4. \A m \in Predecessors(Min(left)) : m \in DOMAIN decisions
      <4>1. ASSUME NEW m \in Predecessors(Min(left)) PROVE m \in DOMAIN decisions
        <5>1. m \in Nat /\ Min(left) \in Nat /\ m \in Nodes /\ m < Min(left)
          BY <1>1, <3>1, <3>3
        <5> QED BY <3>3, <5>1
      <4> QED BY <4>1
    <3> QED BY <1>1, <1>4, <3>3, <3>4 DEF Progress, Compiled
  <2>2. Conditioned(n) => circuit.ops[n].reads \in Made
    BY <1>1, <2>1 DEF Recording
  <2> QED BY <1>2, <2>2 DEF Unanswered
<1> QED BY <1>3, <1>4 DEF StopsForCause

-----------------------------------------------------------------------------
(* The feedback tester.                                                      *)

\* What is queued: the completion of an operation that started, or the bit of
\* a measurement that is complete.
Queued(e) ==
  \/ /\ e[3] \in DOMAIN operations
     /\ e = <<operations[e[3]].end, "complete", e[3]>>
  \/ /\ e[3] \in Completed \cap Measurements
     /\ e = <<e[1], "result", e[3]>>

RunInv ==
  /\ InputOK
  /\ DOMAIN operations \subseteq Nodes /\ waiting \subseteq Nodes
  /\ waiting \cap DOMAIN operations = {}
  /\ \A n \in DOMAIN operations \cup waiting : Predecessors(n) \subseteq Completed
  /\ \A n \in Nodes : remaining[n] = Cardinality(Predecessors(n) \ Completed)
  /\ \A e \in queue : Queued(e)
  /\ DOMAIN results \subseteq Completed \cap Measurements
  /\ DOMAIN reports = DOMAIN results
  /\ \A r \in DOMAIN results : results[r] = bits[r]
  /\ \A n \in DOMAIN operations :
       /\ Conditioned(n) => circuit.ops[n].reads \in DOMAIN results
       /\ operations[n].status = "executed" <=> OnBranch(n)

\* What start decides, by the bits that are there.
LEMMA EventsAre ==
  ASSUME InputOK, NEW released, released \subseteq Nodes, NEW at,
         NEW known, \A r \in DOMAIN known : known[r] = bits[r]
  PROVE LET events == Events(released, at, known) IN
        /\ DOMAIN events \subseteq released
        /\ \A n \in DOMAIN events :
             /\ Conditioned(n) => circuit.ops[n].reads \in DOMAIN known
             /\ events[n].status = "executed" <=> OnBranch(n)
<1> DEFINE events == Events(released, at, known)
<1>1. /\ DOMAIN events = {m \in released : MayStart(m, known)}
      /\ \A n \in DOMAIN events : events[n] = Event(n, at, known)
  BY DEF Events
<1>2. ASSUME NEW n \in DOMAIN events
      PROVE /\ Conditioned(n) => circuit.ops[n].reads \in DOMAIN known
            /\ events[n].status = "executed" <=> OnBranch(n)
  <2>1. n \in Nodes /\ MayStart(n, known)
    BY <1>1
  <2>2. Conditioned(n) => /\ circuit.ops[n].reads \in DOMAIN known
                         /\ known[Asked(n)] = bits[circuit.ops[n].reads]
    BY <2>1, InputFacts DEF MayStart
  <2>3. events[n].status = "executed" <=> (Conditioned(n) => known[Asked(n)] = Wants(n))
    BY <1>1 DEF Event
  <2> QED BY <2>2, <2>3 DEF OnBranch
<1>3. DOMAIN events \subseteq released
  BY <1>1
<1> HIDE DEF events
<1> QED BY <1>2, <1>3 DEF events

\* The tester starts with nothing completed or reported, its roots under way.
LEMMA RunInit ==
  ASSUME InputOK, ExecutionInit
  PROVE RunInv /\ Completed = {} /\ DOMAIN reports = {}
<1> DEFINE roots == {n \in Nodes : Predecessors(n) = {}}
<1>1. /\ remaining = [n \in Nodes |-> Cardinality(Predecessors(n))]
      /\ operations = Events(roots, 0, NoBits)
      /\ queue = Completions(operations)
      /\ waiting = roots \ DOMAIN operations
      /\ results = NoBits /\ reports = NoBits
  BY DEF ExecutionInit
<1>2. DOMAIN NoBits = {}
  BY DEF NoBits
<1>3. /\ DOMAIN operations \subseteq roots
      /\ \A n \in DOMAIN operations :
           /\ Conditioned(n) => circuit.ops[n].reads \in DOMAIN NoBits
           /\ operations[n].status = "executed" <=> OnBranch(n)
  <2>1. roots \subseteq Nodes /\ \A r \in DOMAIN NoBits : NoBits[r] = bits[r]
    BY <1>2
  <2> DEFINE events == Events(roots, 0, NoBits)
  <2>2. /\ DOMAIN events \subseteq roots
        /\ \A n \in DOMAIN events :
             /\ Conditioned(n) => circuit.ops[n].reads \in DOMAIN NoBits
             /\ events[n].status = "executed" <=> OnBranch(n)
    <3> HIDE DEF roots
    <3> QED BY <2>1, EventsAre
  <2> QED BY <1>1, <2>2
<1>4. /\ \A n \in DOMAIN operations : <<operations[n].end, "complete", n>> \in queue
      /\ \A e \in queue : e[3] \in DOMAIN operations /\ e = <<operations[e[3]].end, "complete", e[3]>>
  <2>1. queue = {<<operations[n].end, "complete", n>> : n \in DOMAIN operations}
    BY <1>1 DEF Completions
  <2>2. ASSUME NEW e \in queue
        PROVE e[3] \in DOMAIN operations /\ e = <<operations[e[3]].end, "complete", e[3]>>
    <3>1. PICK n \in DOMAIN operations : e = <<operations[n].end, "complete", n>>
      BY <2>1
    <3> QED BY <3>1
  <2> QED BY <2>1, <2>2
<1>5. Completed = {}
  BY <1>4 DEF Completed
<1>6. \A n \in Nodes : Predecessors(n) \ Completed = Predecessors(n)
  BY <1>5
<1>7. \A n \in roots : n \in Nodes /\ Predecessors(n) = {}
  OBVIOUS
<1> HIDE DEF roots
<1>8. \A e \in queue : Queued(e)
  BY <1>4 DEF Queued
<1>9. DOMAIN operations \subseteq Nodes /\ waiting \subseteq Nodes
  BY <1>1, <1>3, <1>7
<1> QED BY <1>1, <1>2, <1>3, <1>5, <1>6, <1>7, <1>8, <1>9 DEF RunInv

\* A completion: the operation is complete, and nothing else is.
LEMMA CompleteKeeps ==
  ASSUME RunInv, UNCHANGED input, NEW e \in queue, Complete(e)
  PROVE /\ RunInv' /\ Tester!Advance
        /\ e[3] \in DOMAIN operations /\ e = <<operations[e[3]].end, "complete", e[3]>>
        /\ Completed' = Completed \cup {e[3]}
        /\ \A m \in DOMAIN operations : m \in DOMAIN operations' /\ operations'[m] = operations[m]
        /\ \A m \in Nodes : e[3] \in Predecessors(m) =>
             (remaining[m] = 1 <=> Predecessors(m) \subseteq Completed \cup {e[3]})
<1> DEFINE n == e[3]
           released == {m \in Successors(n) : remaining[m] = 1}
           events == Events(released, e[1], results)
           report == IF Name(n) = "measure" THEN {<<e[1] + pace.latency, "result", n>>} ELSE {}
<1>1. /\ e[2] = "complete"
      /\ remaining' = [m \in Nodes |-> remaining[m] - IF m \in Successors(n) THEN 1 ELSE 0]
      /\ operations' = Joined(events, operations)
      /\ queue' = (queue \ {e}) \cup Completions(events) \cup report
      /\ waiting' = waiting \cup (released \ DOMAIN events)
      /\ results' = results /\ reports' = reports
  BY DEF Complete
<1>2. /\ n \in DOMAIN operations /\ e = <<operations[n].end, "complete", n>>
      /\ n \in Nodes /\ n \notin Completed
  <2>1. Queued(e)
    BY DEF RunInv
  <2>2. n \in DOMAIN operations /\ e = <<operations[n].end, "complete", n>>
    BY <1>1, <2>1 DEF Queued
  <2>3. n \notin Completed
    BY <2>2 DEF Completed
  <2> QED BY <2>2, <2>3 DEF RunInv
<1>3. \A m \in Nodes : m \in Successors(n) <=> n \in Predecessors(m)
  BY <1>2 DEF Successors, Predecessors
<1>4. ASSUME NEW m \in Nodes
      PROVE /\ remaining'[m] = Cardinality(Predecessors(m) \ (Completed \cup {n}))
            /\ m \in Successors(n) =>
                 (remaining[m] = 1 <=> Predecessors(m) \subseteq Completed \cup {n})
  <2> DEFINE left == Predecessors(m) \ Completed
  <2>1. IsFiniteSet(left) /\ remaining[m] = Cardinality(left)
    BY InputFacts, FS_Difference DEF RunInv
  <2>2. left \ {n} = Predecessors(m) \ (Completed \cup {n}) /\ (n \in left <=> m \in Successors(n))
    BY <1>2, <1>3
  <2> HIDE DEF left
  <2>3. /\ IsFiniteSet(left \ {n})
        /\ Cardinality(left \ {n}) = IF n \in left THEN Cardinality(left) - 1 ELSE Cardinality(left)
    BY <2>1, FS_RemoveElement
  <2>4. Cardinality(left \ {n}) = 0 => left \ {n} = {}
    BY <2>3, FS_EmptySet
  <2>5. Cardinality(left) \in Nat
    BY <2>1, FS_CardinalityType
  <2>6. remaining'[m] = Cardinality(left \ {n})
    BY <1>1, <2>1, <2>2, <2>3, <2>5
  <2>7. m \in Successors(n) => (remaining[m] = 1 <=> left \ {n} = {})
    BY <2>1, <2>2, <2>3, <2>4, <2>5, FS_EmptySet
  <2> QED BY <2>2, <2>6, <2>7
<1>5. /\ released \subseteq Nodes
      /\ \A m \in released : /\ Predecessors(m) \subseteq Completed \cup {n}
                             /\ m \notin DOMAIN operations /\ m \notin waiting
  <2>1. released \subseteq Nodes
    BY DEF Successors
  <2>2. \A m \in released : n \in Predecessors(m)
    BY <1>3, <2>1
  <2> QED BY <1>2, <1>4, <2>1, <2>2 DEF RunInv
<1> HIDE DEF released
<1>6. /\ DOMAIN events \subseteq released
      /\ \A m \in DOMAIN events :
           /\ Conditioned(m) => circuit.ops[m].reads \in DOMAIN results
           /\ events[m].status = "executed" <=> OnBranch(m)
  <2>1. InputOK /\ \A r \in DOMAIN results : results[r] = bits[r]
    BY DEF RunInv
  <2> QED BY <1>5, <2>1, EventsAre
<1> HIDE DEF events
<1>7. /\ DOMAIN operations' = DOMAIN events \cup DOMAIN operations
      /\ DOMAIN events \cap DOMAIN operations = {}
      /\ \A m \in DOMAIN events : operations'[m] = events[m]
      /\ \A m \in DOMAIN operations : operations'[m] = operations[m]
  BY <1>1, <1>5, <1>6 DEF Joined
<1>8. /\ \A f \in Completions(events) : f[3] \in DOMAIN events /\ f = <<events[f[3]].end, "complete", f[3]>>
      /\ \A m \in DOMAIN events : <<events[m].end, "complete", m>> \in Completions(events)
  <2>1. ASSUME NEW f \in Completions(events)
        PROVE f[3] \in DOMAIN events /\ f = <<events[f[3]].end, "complete", f[3]>>
    <3>1. PICK m \in DOMAIN events : f = <<events[m].end, "complete", m>>
      BY DEF Completions
    <3> QED BY <3>1
  <2> QED BY <2>1 DEF Completions
<1>9. Completed' = Completed \cup {n}
  <2>1. \A m : m \in Completed' <=> /\ m \in DOMAIN operations'
                                   /\ <<operations'[m].end, "complete", m>> \notin queue'
    BY DEF Completed
  <2>2. ASSUME NEW m \in DOMAIN events PROVE m \notin Completed' /\ m \notin Completed /\ m # n
    <3>1. <<operations'[m].end, "complete", m>> \in queue'
      BY <1>1, <1>7, <1>8
    <3>2. m \notin DOMAIN operations
      BY <1>7
    <3>3. m \notin Completed'
      BY <2>1, <3>1
    <3> QED BY <1>2, <3>2, <3>3 DEF Completed
  <2>3. ASSUME NEW m \in DOMAIN operations
        PROVE m \in Completed' <=> m \in Completed \/ m = n
    <3> DEFINE done == <<operations[m].end, "complete", m>>
    <3>1. done \notin report /\ done \notin Completions(events)
      BY <1>7, <1>8, <2>3
    <3>2. done \in queue' <=> done \in queue /\ m # n
      BY <1>1, <1>2, <3>1
    <3>3. m \in Completed <=> done \notin queue
      BY <2>3 DEF Completed
    <3> QED BY <1>7, <2>1, <2>3, <3>2, <3>3
  <2> QED BY <1>2, <1>7, <2>1, <2>2, <2>3 DEF Completed
<1>10. /\ InputOK' /\ Nodes' = Nodes /\ Measurements' = Measurements
       /\ bits' = bits /\ circuit' = circuit
       /\ \A m : Predecessors(m)' = Predecessors(m)
       /\ \A m : Wants(m)' = Wants(m)
       /\ \A m : Conditioned(m)' <=> Conditioned(m)
       /\ \A m : OnBranch(m)' <=> OnBranch(m)
  BY SameInput DEF RunInv, OnBranch
<1>11. \A f \in queue' : Queued(f)'
  <2>1. ASSUME NEW f \in queue' PROVE Queued(f)'
    <3>1. CASE f \in queue
      BY <1>7, <1>9, <1>10, <3>1 DEF RunInv, Queued
    <3>2. CASE f \in Completions(events)
      BY <1>7, <1>8, <3>2 DEF Queued
    <3>3. CASE f \in report
      BY <1>2, <1>9, <1>10, <3>3 DEF Queued, Measurements
    <3> QED BY <1>1, <3>1, <3>2, <3>3
  <2> QED BY <2>1
<1>12. /\ DOMAIN operations' \subseteq Nodes /\ waiting' \subseteq Nodes
       /\ waiting' \cap DOMAIN operations' = {}
       /\ \A m \in DOMAIN operations' \cup waiting' : Predecessors(m) \subseteq Completed'
  BY <1>1, <1>5, <1>6, <1>7, <1>9 DEF RunInv
<1>13. \A m \in DOMAIN operations' :
        /\ Conditioned(m) => circuit.ops[m].reads \in DOMAIN results
        /\ operations'[m].status = "executed" <=> OnBranch(m)
  BY <1>6, <1>7 DEF RunInv
<1>14. RunInv'
  BY <1>1, <1>4, <1>9, <1>10, <1>11, <1>12, <1>13 DEF RunInv
<1>15. Tester!Advance
  <2>1. {m \in Completed : operations[m].status = "executed"}'
          = {m \in Completed : operations[m].status = "executed"}
            \cup {m \in {n} : Tester!Taken(m)}
    <3>1. \A m \in Completed \cup {n} : operations'[m] = operations[m]
      BY <1>2, <1>7 DEF Completed
    <3>2. operations[n].status = "executed" <=> Tester!Taken(n)
      BY <1>2 DEF RunInv, OnBranch, Tester!Taken, Tester!Reads, Conditioned, NoRead, Wants
    <3> QED BY <1>9, <3>1, <3>2
  <2>2. {m \in Measurements : m \in DOMAIN reports}' = {m \in Measurements : m \in DOMAIN reports}
    BY <1>1, <1>10
  <2>3. {m \in Measurements : m \in DOMAIN reports}
          \subseteq {m \in Completed' : circuit.ops[m].name = "measure"}
    BY <1>9 DEF RunInv, Measurements, Name
  <2>4. Completed' \subseteq Tester!Nodes
    BY <1>2, <1>9 DEF RunInv, Completed, Tester!Nodes, Nodes
  <2>5. Tester!Predecessors(n) \subseteq Completed
    BY <1>2 DEF RunInv, Tester!Predecessors, Tester!Nodes, Predecessors, Nodes
  <2>6. Tester!Reads(n) # 0 => Tester!Reads(n) \in {m \in Measurements : m \in DOMAIN reports}
    BY <1>2, InputFacts DEF RunInv, Tester!Reads, Conditioned, NoRead
  <2>7. Completed' \ Completed = {n}
    BY <1>2, <1>9
  <2> QED BY <1>9, <1>10, <2>1, <2>2, <2>3, <2>4, <2>5, <2>6, <2>7 DEF Tester!Advance
<1> QED BY <1>2, <1>3, <1>4, <1>7, <1>9, <1>14, <1>15

\* A result: its bit is there, and what waited for it may start.
LEMMA ReportKeeps ==
  ASSUME RunInv, UNCHANGED input, NEW e \in queue, Report(e)
  PROVE /\ RunInv' /\ Tester!Advance
        /\ e = <<e[1], "result", e[3]>> /\ e[3] \in Completed \cap Measurements
        /\ Completed' = Completed
        /\ \A m \in DOMAIN operations : m \in DOMAIN operations' /\ operations'[m] = operations[m]
<1> DEFINE n == e[3]
           known == Joined([r \in {Result(n)} |-> bits[n]], results)
           released == {m \in waiting : Asked(m) = Result(n)}
           events == Events(released, e[1], known)
<1>1. /\ e[2] = "result"
      /\ remaining' = remaining
      /\ operations' = Joined(events, operations)
      /\ queue' = (queue \ {e}) \cup Completions(events)
      /\ waiting' = waiting \ DOMAIN events
      /\ results' = known
      /\ reports' = Joined([m \in {n} |-> e[1]], reports)
  BY DEF Report
<1>2. e = <<e[1], "result", n>> /\ n \in Completed /\ n \in Measurements
  <2>1. Queued(e)
    BY DEF RunInv
  <2>2. e # <<operations[n].end, "complete", n>>
    BY <1>1
  <2> QED BY <2>1, <2>2 DEF Queued
<1>3. /\ DOMAIN known = {n} \cup DOMAIN results
      /\ \A r \in DOMAIN known : known[r] = bits[r]
  BY DEF Joined, Result, RunInv
<1>4. DOMAIN reports' = {n} \cup DOMAIN reports
  BY <1>1 DEF Joined
<1>5. released \subseteq waiting /\ released \subseteq Nodes
  BY DEF RunInv
<1> HIDE DEF released, known
<1>6. /\ DOMAIN events \subseteq released
      /\ \A m \in DOMAIN events :
           /\ Conditioned(m) => circuit.ops[m].reads \in DOMAIN known
           /\ events[m].status = "executed" <=> OnBranch(m)
  <2>1. InputOK /\ \A r \in DOMAIN known : known[r] = bits[r]
    BY <1>3 DEF RunInv
  <2> QED BY <1>5, <2>1, EventsAre
<1> HIDE DEF events
<1>7. /\ DOMAIN operations' = DOMAIN events \cup DOMAIN operations
      /\ DOMAIN events \cap DOMAIN operations = {} /\ DOMAIN events \subseteq waiting
      /\ \A m \in DOMAIN events : operations'[m] = events[m]
      /\ \A m \in DOMAIN operations : operations'[m] = operations[m]
  BY <1>1, <1>5, <1>6 DEF Joined, RunInv
<1>8. /\ \A f \in Completions(events) : f[3] \in DOMAIN events /\ f = <<events[f[3]].end, "complete", f[3]>>
      /\ \A m \in DOMAIN events : <<events[m].end, "complete", m>> \in Completions(events)
  <2>1. ASSUME NEW f \in Completions(events)
        PROVE f[3] \in DOMAIN events /\ f = <<events[f[3]].end, "complete", f[3]>>
    <3>1. PICK m \in DOMAIN events : f = <<events[m].end, "complete", m>>
      BY DEF Completions
    <3> QED BY <3>1
  <2> QED BY <2>1 DEF Completions
<1>9. Completed' = Completed
  <2>1. \A m : m \in Completed' <=> /\ m \in DOMAIN operations'
                                   /\ <<operations'[m].end, "complete", m>> \notin queue'
    BY DEF Completed
  <2>2. ASSUME NEW m \in DOMAIN events PROVE m \notin Completed' /\ m \notin Completed
    <3>1. <<operations'[m].end, "complete", m>> \in queue'
      BY <1>1, <1>7, <1>8
    <3>2. m \notin DOMAIN operations
      BY <1>7
    <3>3. m \notin Completed'
      BY <2>1, <3>1
    <3> QED BY <3>2, <3>3 DEF Completed
  <2>3. ASSUME NEW m \in DOMAIN operations
        PROVE m \in Completed' <=> m \in Completed
    <3> DEFINE done == <<operations[m].end, "complete", m>>
    <3>1. done \notin Completions(events) /\ done # e
      BY <1>1, <1>7, <1>8, <2>3
    <3>2. done \in queue' <=> done \in queue
      BY <1>1, <3>1
    <3>3. m \in Completed <=> done \notin queue
      BY <2>3 DEF Completed
    <3> QED BY <1>7, <2>1, <2>3, <3>2, <3>3
  <2> QED BY <1>7, <2>1, <2>2, <2>3 DEF Completed
<1>10. /\ InputOK' /\ Nodes' = Nodes /\ Measurements' = Measurements
       /\ bits' = bits /\ circuit' = circuit
       /\ \A m : Predecessors(m)' = Predecessors(m)
       /\ \A m : Conditioned(m)' <=> Conditioned(m)
       /\ \A m : OnBranch(m)' <=> OnBranch(m)
  BY SameInput DEF RunInv, OnBranch
<1>11. \A f \in queue' : Queued(f)'
  <2>1. ASSUME NEW f \in queue' PROVE Queued(f)'
    <3>1. CASE f \in queue
      BY <1>7, <1>9, <1>10, <3>1 DEF RunInv, Queued
    <3>2. CASE f \in Completions(events)
      BY <1>7, <1>8, <3>2 DEF Queued
    <3> QED BY <1>1, <3>1, <3>2
  <2> QED BY <2>1
<1>12. /\ DOMAIN operations' \subseteq Nodes /\ waiting' \subseteq Nodes
       /\ waiting' \cap DOMAIN operations' = {}
       /\ \A m \in DOMAIN operations' \cup waiting' : Predecessors(m) \subseteq Completed'
  BY <1>1, <1>5, <1>7, <1>9 DEF RunInv
<1>13. \A m \in DOMAIN operations' :
        /\ Conditioned(m) => circuit.ops[m].reads \in DOMAIN results'
        /\ operations'[m].status = "executed" <=> OnBranch(m)
  BY <1>1, <1>3, <1>6, <1>7 DEF RunInv
<1>14. /\ DOMAIN results' \subseteq Completed \cap Measurements
       /\ DOMAIN reports' = DOMAIN results'
       /\ \A r \in DOMAIN results' : results'[r] = bits[r]
  BY <1>1, <1>2, <1>3, <1>4 DEF RunInv
<1>15. RunInv'
  BY <1>1, <1>9, <1>10, <1>11, <1>12, <1>13, <1>14 DEF RunInv
<1>16. Tester!Advance
  <2>1. {m \in Completed : operations[m].status = "executed"}'
          = {m \in Completed : operations[m].status = "executed"}
    BY <1>7, <1>9 DEF Completed
  <2>2. {m \in Measurements : m \in DOMAIN reports}
          \subseteq {m \in Measurements : m \in DOMAIN reports}'
    BY <1>4, <1>10
  <2>3. {m \in Measurements : m \in DOMAIN reports}'
          \subseteq {m \in Completed' : circuit.ops[m].name = "measure"}
    BY <1>9, <1>10, <1>14 DEF Measurements, Name
  <2>4. Completed' \subseteq Tester!Nodes
    BY <1>9 DEF RunInv, Completed, Tester!Nodes, Nodes
  <2> QED BY <1>9, <1>10, <2>1, <2>2, <2>3, <2>4 DEF Tester!Advance
<1> QED BY <1>2, <1>7, <1>9, <1>15, <1>16

\* The tester's step.
LEMMA RunStep ==
  ASSUME RunInv, UNCHANGED input, ExecutionStep
  PROVE RunInv' /\ Tester!Advance
BY CompleteKeeps, ReportKeeps DEF ExecutionStep

-----------------------------------------------------------------------------
(* The tester's times.                                                       *)

\* The decisions are those that are due; time does not run backwards; a bit is
\* on its way or there; what can be released is.
EarlyInv ==
  /\ \A n \in DOMAIN operations :
       /\ operations[n] = Due(n)
       /\ operations[n].start \in Nat /\ operations[n].end \in Nat
  /\ \A e \in queue : /\ \A n \in Completed : operations[n].end =< e[1]
                      /\ \A m \in DOMAIN reports : reports[m] =< e[1]
                      /\ e[2] = "result" => e[1] = operations[e[3]].end + pace.latency
  /\ reports = [m \in DOMAIN reports |-> operations[m].end + pace.latency]
  /\ \A m \in Completed \cap Measurements :
       m \in DOMAIN reports \/ <<operations[m].end + pace.latency, "result", m>> \in queue
  /\ \A n \in waiting : Conditioned(n) /\ Asked(n) \notin DOMAIN results
  /\ \A n \in Nodes : Predecessors(n) \subseteq Completed => n \in DOMAIN operations \cup waiting

\* Max names the largest member of a set of numbers.
LEMMA MaxIs ==
  ASSUME NEW S \in SUBSET Nat, NEW t \in S, \A y \in S : y =< t
  PROVE  Max(S) = t
<1>1. \E x \in S : \A y \in S : x >= y
  <2>1. \A y \in S : t >= y
    OBVIOUS
  <2> QED BY <2>1
<1>2. Max(S) \in S /\ \A y \in S : Max(S) >= y
  BY <1>1 DEF Max
<1>3. Max(S) >= t /\ t >= Max(S) /\ Max(S) \in Nat /\ t \in Nat
  BY <1>2
<1> QED BY <1>3

\* What start decides is due, if it starts when the last thing awaited is there.
LEMMA EventIsDue ==
  ASSUME InputOK, NEW m \in Nodes, NEW t \in Nat, NEW known,
         \A p \in Predecessors(m) : operations[p].end \in Nat /\ operations[p].end =< t,
         Conditioned(m) => LET reads == circuit.ops[m].reads IN
           /\ known[reads] = bits[reads]
           /\ operations[reads].end \in Nat /\ operations[reads].end + pace.latency =< t,
         \/ t = 0
         \/ \E p \in Predecessors(m) : operations[p].end = t
         \/ Conditioned(m) /\ operations[circuit.ops[m].reads].end + pace.latency = t
  PROVE  /\ Event(m, t, known) = Due(m)
         /\ Event(m, t, known).start \in Nat /\ Event(m, t, known).end \in Nat
         /\ t =< Event(m, t, known).end
<1> DEFINE reads == circuit.ops[m].reads
           times == {0} \cup {operations[p].end : p \in Predecessors(m)}
                    \cup (IF reads = NoRead THEN {} ELSE {operations[reads].end + pace.latency})
<1>1. Conditioned(m) <=> reads # NoRead
  BY DEF Conditioned
<1>2. pace.latency \in Nat /\ Lasts(m) \in Nat /\ (Conditioned(m) => Asked(m) = reads)
  BY InputFacts
<1>3. times \in SUBSET Nat /\ t \in times /\ \A y \in times : y =< t
  BY <1>1, <1>2
<1>4. Max(times) = t
  <2> HIDE DEF times
  <2> QED BY <1>3, MaxIs
<1>5. (Conditioned(m) => known[Asked(m)] = Wants(m)) <=> (reads = NoRead \/ bits[reads] = Wants(m))
  BY <1>1, <1>2
<1>6. Event(m, t, known) = Due(m)
  BY <1>4, <1>5 DEF Event, Due
<1>7. Event(m, t, known).start = t /\ Event(m, t, known).end \in {t, t + Lasts(m)}
  BY DEF Event
<1> QED BY <1>2, <1>6, <1>7

\* Later decisions do not change what an operation is due.
LEMMA SameDue ==
  ASSUME UNCHANGED input, NEW m \in Nodes,
         \A p \in Predecessors(m) : operations'[p] = operations[p],
         Conditioned(m) => operations'[circuit.ops[m].reads] = operations[circuit.ops[m].reads]
  PROVE  Due(m)' = Due(m)
<1>1. /\ circuit' = circuit /\ bits' = bits /\ pace' = pace /\ Predecessors(m)' = Predecessors(m)
      /\ Wants(m)' = Wants(m) /\ Lasts(m)' = Lasts(m)
  BY SameInput DEF Lasts, Name
<1>2. {operations'[p].end : p \in Predecessors(m)'} = {operations[p].end : p \in Predecessors(m)}
  BY <1>1
<1>3. CASE circuit.ops[m].reads = NoRead
  BY <1>1, <1>2, <1>3 DEF Due
<1>4. CASE circuit.ops[m].reads # NoRead
  BY <1>1, <1>2, <1>4 DEF Due, Conditioned
<1> QED BY <1>3, <1>4

\* What starts at the beginning awaits nothing.
LEMMA EarlyInit ==
  ASSUME InputOK, ExecutionInit
  PROVE  EarlyInv
<1> DEFINE roots == {n \in Nodes : Predecessors(n) = {}}
<1>1. /\ operations = Events(roots, 0, NoBits) /\ queue = Completions(operations)
      /\ waiting = roots \ DOMAIN operations /\ results = NoBits /\ reports = NoBits
      /\ DOMAIN NoBits = {}
  BY DEF ExecutionInit, NoBits
<1>2. RunInv /\ Completed = {} /\ DOMAIN reports = {} /\ DOMAIN results = {}
  BY <1>1, RunInit
<1>3. /\ DOMAIN operations = {m \in roots : MayStart(m, NoBits)}
      /\ \A n \in DOMAIN operations : operations[n] = Event(n, 0, NoBits)
  BY <1>1 DEF Events
<1>4. ASSUME NEW n \in DOMAIN operations
      PROVE  /\ operations[n] = Due(n)
             /\ operations[n].start \in Nat /\ operations[n].end \in Nat
  <2>1. n \in Nodes /\ Predecessors(n) = {} /\ ~Conditioned(n)
    BY <1>1, <1>3 DEF MayStart
  <2>2. 0 \in Nat
    OBVIOUS
  <2> QED BY <1>3, <2>1, <2>2, EventIsDue
<1>5. \A e \in queue : e[2] = "complete"
  BY <1>1 DEF Completions
<1>6. ASSUME NEW n \in waiting PROVE Conditioned(n) /\ Asked(n) \notin DOMAIN results
  BY <1>1, <1>3 DEF MayStart
<1>7. \A n \in Nodes : Predecessors(n) \subseteq Completed => n \in DOMAIN operations \cup waiting
  BY <1>1, <1>2
<1> QED BY <1>2, <1>4, <1>5, <1>6, <1>7 DEF EarlyInv

\* Operations released at the instant the last thing they awaited is there get
\* what they are due, and nobody else's changes.
LEMMA StartsAreDue ==
  ASSUME RunInv, EarlyInv, UNCHANGED input,
         NEW released, released \subseteq Nodes, NEW at \in Nat, NEW known,
         \A r \in DOMAIN known : /\ r \in DOMAIN operations /\ known[r] = bits[r]
                                /\ operations[r].end + pace.latency =< at,
         \A m \in released :
           /\ m \notin DOMAIN operations
           /\ \A p \in Predecessors(m) : p \in DOMAIN operations /\ operations[p].end =< at
           /\ \/ \E p \in Predecessors(m) : operations[p].end = at
              \/ Conditioned(m) /\ operations[circuit.ops[m].reads].end + pace.latency = at,
         operations' = Joined(Events(released, at, known), operations)
  PROVE /\ \A m \in DOMAIN operations' :
             /\ operations'[m] = Due(m)'
             /\ operations'[m].start \in Nat /\ operations'[m].end \in Nat
        /\ \A m \in DOMAIN operations : m \in DOMAIN operations' /\ operations'[m] = operations[m]
        /\ \A f \in Completions(Events(released, at, known)) : f[2] = "complete" /\ at =< f[1]
<1> DEFINE events == Events(released, at, known)
<1>1. /\ DOMAIN events = {m \in released : MayStart(m, known)}
      /\ \A m \in DOMAIN events : events[m] = Event(m, at, known)
  BY DEF Events
<1>2. /\ DOMAIN operations' = DOMAIN events \cup DOMAIN operations
      /\ \A m \in DOMAIN events : operations'[m] = events[m] /\ m \notin DOMAIN operations
      /\ \A m \in DOMAIN operations : operations'[m] = operations[m]
  <2>1. \A m \in DOMAIN events : m \notin DOMAIN operations
    BY <1>1
  <2> HIDE DEF events
  <2> QED BY <2>1 DEF Joined, events
<1>3. ASSUME NEW m \in DOMAIN events
      PROVE /\ events[m] = Due(m) /\ events[m].start \in Nat /\ events[m].end \in Nat
            /\ at =< events[m].end
            /\ Due(m)' = Due(m)
  <2>1. m \in Nodes /\ m \in released /\ MayStart(m, known) /\ events[m] = Event(m, at, known)
    BY <1>1
  <2>2. Conditioned(m) => Asked(m) = circuit.ops[m].reads /\ Asked(m) \in DOMAIN known
    BY <2>1, InputFacts DEF RunInv, MayStart
  <2>3. \A p \in Predecessors(m) : /\ operations[p].end \in Nat /\ operations[p].end =< at
                                   /\ p \in DOMAIN operations
    BY <2>1 DEF EarlyInv
  <2>4. Conditioned(m) => LET reads == circuit.ops[m].reads IN
          /\ known[reads] = bits[reads] /\ reads \in DOMAIN operations
          /\ operations[reads].end \in Nat /\ operations[reads].end + pace.latency =< at
    BY <2>2 DEF EarlyInv
  <2>5. \/ \E p \in Predecessors(m) : operations[p].end = at
        \/ Conditioned(m) /\ operations[circuit.ops[m].reads].end + pace.latency = at
    BY <2>1
  <2>6. InputOK
    BY DEF RunInv
  <2>7. /\ Event(m, at, known) = Due(m)
        /\ Event(m, at, known).start \in Nat /\ Event(m, at, known).end \in Nat
        /\ at =< Event(m, at, known).end
    BY <2>1, <2>3, <2>4, <2>5, <2>6, EventIsDue
  <2>8. /\ \A p \in Predecessors(m) : operations'[p] = operations[p]
        /\ Conditioned(m) => operations'[circuit.ops[m].reads] = operations[circuit.ops[m].reads]
    BY <1>2, <2>3, <2>4
  <2>9. Due(m)' = Due(m)
    BY <2>1, <2>8, SameDue
  <2> QED BY <2>1, <2>7, <2>9
<1>4. ASSUME NEW m \in DOMAIN operations
      PROVE Due(m)' = Due(m) /\ operations[m] = Due(m)
            /\ operations[m].start \in Nat /\ operations[m].end \in Nat
  <2>1. /\ m \in Nodes /\ Predecessors(m) \subseteq DOMAIN operations
        /\ Conditioned(m) => circuit.ops[m].reads \in DOMAIN operations
    BY DEF RunInv, Completed
  <2>2. /\ \A p \in Predecessors(m) : operations'[p] = operations[p]
        /\ Conditioned(m) => operations'[circuit.ops[m].reads] = operations[circuit.ops[m].reads]
    BY <1>2, <2>1
  <2>3. Due(m)' = Due(m)
    BY <2>1, <2>2, SameDue
  <2> QED BY <2>3 DEF EarlyInv
<1>5. ASSUME NEW f \in Completions(events) PROVE f[2] = "complete" /\ at =< f[1]
  <2>1. PICK m \in DOMAIN events : f = <<events[m].end, "complete", m>>
    BY DEF Completions
  <2> QED BY <1>3, <2>1
<1> HIDE DEF events
<1>6. \A m \in DOMAIN operations' :
        /\ operations'[m] = Due(m)'
        /\ operations'[m].start \in Nat /\ operations'[m].end \in Nat
  BY <1>2, <1>3, <1>4
<1> QED BY <1>2, <1>5, <1>6 DEF events

\* What is queued lies ahead: in time not before anything that is complete or
\* was reported.
LEMMA EventsAhead ==
  ASSUME RunInv, EarlyInv, NEW e \in queue
  PROVE  /\ e[1] \in Nat
         /\ e[2] = "result" => e[1] = operations[e[3]].end + pace.latency
         /\ \A m \in DOMAIN reports : /\ m \in DOMAIN operations /\ reports[m] =< e[1]
                                      /\ reports[m] = operations[m].end + pace.latency
<1>1. Queued(e) /\ pace.latency \in Nat
  BY InputFacts DEF RunInv
<1>2. e[2] = "result" => e[3] \in DOMAIN operations
  BY <1>1 DEF Queued, Completed
<1>3. e[1] \in Nat
  <2>1. CASE e[2] = "result"
    BY <1>1, <1>2, <2>1 DEF EarlyInv
  <2>2. CASE e[2] # "result"
    BY <1>1, <2>2 DEF EarlyInv, Queued
  <2> QED BY <2>1, <2>2
<1>4. ASSUME NEW m \in DOMAIN reports PROVE m \in DOMAIN operations /\ reports[m] =< e[1]
                                            /\ reports[m] = operations[m].end + pace.latency
  BY DEF RunInv, EarlyInv, Completed
<1> QED BY <1>3, <1>4 DEF EarlyInv

\* A completion: what waited only for it is released, when it ends.
LEMMA CompleteEarly ==
  ASSUME RunInv, EarlyInv, UNCHANGED input, NEW e \in queue, Earliest(e), Complete(e)
  PROVE  EarlyInv'
<1> DEFINE n == e[3]
           released == {m \in Successors(n) : remaining[m] = 1}
           events == Events(released, e[1], results)
           report == IF Name(n) = "measure" THEN {<<e[1] + pace.latency, "result", n>>} ELSE {}
<1>1. /\ e[2] = "complete"
      /\ operations' = Joined(events, operations)
      /\ queue' = (queue \ {e}) \cup Completions(events) \cup report
      /\ waiting' = waiting \cup (released \ DOMAIN events)
      /\ results' = results /\ reports' = reports
  BY DEF Complete
<1>2. /\ RunInv'
      /\ n \in DOMAIN operations /\ e = <<operations[n].end, "complete", n>>
      /\ Completed' = Completed \cup {n}
      /\ \A m \in Nodes : n \in Predecessors(m) =>
           (remaining[m] = 1 <=> Predecessors(m) \subseteq Completed \cup {n})
  BY CompleteKeeps
<1>3. /\ n \in Nodes /\ Completed \subseteq DOMAIN operations /\ n \notin Completed
      /\ e[1] \in Nat /\ pace.latency \in Nat /\ InputOK
      /\ operations[n].end = e[1]
      /\ \A m \in Completed : operations[m].end =< e[1]
      /\ \A m \in DOMAIN reports : m \in DOMAIN operations /\ reports[m] =< e[1]
                                  /\ reports[m] = operations[m].end + pace.latency
  <2>1. n \notin Completed
    BY <1>2 DEF Completed
  <2>2. n \in Nodes /\ Completed \subseteq DOMAIN operations /\ InputOK /\ pace.latency \in Nat
    BY <1>2, InputFacts DEF RunInv, Completed
  <2>3. operations[n].end = e[1]
    BY <1>2
  <2> QED BY <2>1, <2>2, <2>3, EventsAhead DEF EarlyInv
<1>4. /\ released \subseteq Nodes
      /\ \A m \in released :
           /\ m \notin DOMAIN operations
           /\ \A p \in Predecessors(m) : p \in DOMAIN operations /\ operations[p].end =< e[1]
           /\ \E p \in Predecessors(m) : operations[p].end = e[1]
      /\ \A m \in Nodes : n \in Predecessors(m) /\ Predecessors(m) \subseteq Completed \cup {n}
                          => m \in released
  <2>1. released \subseteq Nodes
    BY DEF Successors
  <2>2. \A m \in Nodes : m \in Successors(n) <=> n \in Predecessors(m)
    BY <1>3 DEF Successors, Predecessors
  <2>3. \A m \in released : n \in Predecessors(m) /\ Predecessors(m) \subseteq Completed \cup {n}
    BY <1>2, <2>1, <2>2
  <2>4. ASSUME NEW m \in released PROVE m \notin DOMAIN operations
    BY <1>3, <2>3 DEF RunInv
  <2>5. e[1] =< e[1]
    BY <1>3
  <2>6. ASSUME NEW m \in released, NEW p \in Predecessors(m)
        PROVE p \in DOMAIN operations /\ operations[p].end =< e[1]
    BY <1>2, <1>3, <2>3, <2>5
  <2>7. \A m \in released : \E p \in Predecessors(m) : operations[p].end = e[1]
    BY <1>3, <2>3
  <2>8. \A m \in Nodes : n \in Predecessors(m) /\ Predecessors(m) \subseteq Completed \cup {n}
                          => m \in released
    BY <1>2, <2>2
  <2> QED BY <2>1, <2>4, <2>6, <2>7, <2>8
<1> HIDE DEF released
<1>5. /\ \A m \in DOMAIN operations' :
           /\ operations'[m] = Due(m)'
           /\ operations'[m].start \in Nat /\ operations'[m].end \in Nat
      /\ \A m \in DOMAIN operations : m \in DOMAIN operations' /\ operations'[m] = operations[m]
      /\ \A f \in Completions(events) : f[2] = "complete" /\ e[1] =< f[1]
  <2>1. \A r \in DOMAIN results : /\ r \in DOMAIN operations /\ results[r] = bits[r]
                                 /\ operations[r].end + pace.latency =< e[1]
    BY <1>3 DEF RunInv
  <2>2. e[1] \in Nat /\ operations' = Joined(Events(released, e[1], results), operations)
    BY <1>1, <1>3
  <2> QED BY <1>4, <2>1, <2>2, StartsAreDue
<1>6. /\ DOMAIN events = {m \in released : MayStart(m, results)}
      /\ DOMAIN operations' = DOMAIN events \cup DOMAIN operations
  <2>1. DOMAIN events = {m \in released : MayStart(m, results)}
    BY DEF Events
  <2> QED BY <1>1, <2>1 DEF Joined
<1> HIDE DEF events
<1>7. /\ Nodes' = Nodes /\ Measurements' = Measurements
      /\ pace' = pace /\ circuit' = circuit
      /\ \A m : Predecessors(m)' = Predecessors(m)
      /\ \A m : Asked(m)' = Asked(m)
      /\ \A m : Conditioned(m)' <=> Conditioned(m)
  BY SameInput
<1>8. ASSUME NEW f \in queue'
      PROVE  /\ e[1] =< f[1] /\ f[1] \in Nat
             /\ f[2] = "result" => f[1] = operations'[f[3]].end + pace.latency
  <2>1. CASE f \in queue
    <3>1. f[1] \in Nat /\ Earlier(e, f) /\ (f[2] = "result" => f[1] = operations[f[3]].end + pace.latency)
      BY <2>1, EventsAhead DEF Earliest
    <3>2. f[2] = "result" => f[3] \in DOMAIN operations
      BY <1>3, <2>1 DEF RunInv, Queued
    <3>3. e[1] =< f[1]
      BY <1>3, <3>1 DEF Earlier
    <3> QED BY <3>1, <3>2, <3>3, <1>5
  <2>2. CASE f \in Completions(events)
    <3>1. f[2] = "complete" /\ e[1] =< f[1]
      BY <2>2, <1>5
    <3>2. PICK m \in DOMAIN events : f = <<events[m].end, "complete", m>>
      BY <2>2 DEF Completions
    <3>3. operations'[m] = events[m] /\ m \in DOMAIN operations'
      BY <1>1, <1>6 DEF Joined
    <3>4. f[1] \in Nat
      BY <1>5, <3>2, <3>3
    <3> QED BY <3>1, <3>4
  <2>3. CASE f \in report
    <3>1. f = <<e[1] + pace.latency, "result", n>>
      BY <2>3
    <3>2. operations'[n].end = e[1]
      BY <1>2, <1>3, <1>5
    <3> QED BY <1>3, <3>1, <3>2
  <2> QED BY <1>1, <2>1, <2>2, <2>3
<1>9. ASSUME NEW f \in queue'
      PROVE  /\ \A m \in Completed' : operations'[m].end =< f[1]
             /\ \A m \in DOMAIN reports' : reports'[m] =< f[1]
             /\ f[2] = "result" => f[1] = operations'[f[3]].end + pace'.latency
  <2>1. ASSUME NEW m \in Completed' PROVE operations'[m].end =< f[1]
    <3>1. operations'[m].end = operations[m].end /\ operations[m].end \in Nat
      BY <1>2, <1>3, <1>5 DEF EarlyInv
    <3>2. operations[m].end =< e[1]
      BY <1>2, <1>3, <2>1
    <3> QED BY <1>3, <1>8, <3>1, <3>2
  <2>2. ASSUME NEW m \in DOMAIN reports PROVE reports[m] =< f[1]
    <3>1. reports[m] \in Nat /\ reports[m] =< e[1]
      BY <1>3 DEF EarlyInv
    <3> QED BY <1>3, <1>8, <3>1
  <2> QED BY <1>1, <1>7, <1>8, <2>1, <2>2
<1>10. reports' = [m \in DOMAIN reports' |-> operations'[m].end + pace'.latency]
  <2>1. \A m \in DOMAIN reports : operations'[m] = operations[m]
    BY <1>3, <1>5
  <2>2. reports = [m \in DOMAIN reports |-> operations[m].end + pace.latency]
    BY DEF EarlyInv
  <2> QED BY <1>1, <1>7, <2>1, <2>2
<1>11. ASSUME NEW m \in (Completed \cap Measurements)'
       PROVE m \in DOMAIN reports' \/ <<operations'[m].end + pace'.latency, "result", m>> \in queue'
  <2>1. CASE m = n
    <3>1. Name(n) = "measure" /\ operations'[m].end = e[1]
      BY <1>2, <1>3, <1>5, <1>7, <2>1 DEF Measurements
    <3> QED BY <1>1, <1>7, <2>1, <3>1
  <2>2. CASE m # n
    <3>1. m \in Completed \cap Measurements /\ operations'[m] = operations[m]
      BY <1>2, <1>3, <1>5, <1>7, <2>2
    <3>2. m \in DOMAIN reports \/ <<operations[m].end + pace.latency, "result", m>> \in queue
      BY <3>1 DEF EarlyInv
    <3>3. <<operations[m].end + pace.latency, "result", m>> # e
      BY <1>1
    <3> QED BY <1>1, <1>7, <3>1, <3>2, <3>3
  <2> QED BY <2>1, <2>2
<1>12. \A m \in waiting' : Conditioned(m) /\ Asked(m) \notin DOMAIN results
  BY <1>1, <1>6 DEF EarlyInv, MayStart
<1>13. ASSUME NEW m \in Nodes, Predecessors(m) \subseteq Completed'
       PROVE m \in DOMAIN operations' \cup waiting'
  <2>1. CASE n \in Predecessors(m)
    BY <1>1, <1>2, <1>4, <1>6, <1>13, <2>1
  <2>2. CASE n \notin Predecessors(m)
    BY <1>1, <1>2, <1>6, <1>13, <2>2 DEF EarlyInv
  <2> QED BY <2>1, <2>2
<1> QED BY <1>1, <1>5, <1>7, <1>9, <1>10, <1>11, <1>12, <1>13 DEF EarlyInv

\* A result: what waited for the bit is released, when it arrives.
LEMMA ReportEarly ==
  ASSUME RunInv, EarlyInv, UNCHANGED input, NEW e \in queue, Earliest(e), Report(e)
  PROVE  EarlyInv'
<1> DEFINE n == e[3]
           known == Joined([r \in {Result(n)} |-> bits[n]], results)
           released == {m \in waiting : Asked(m) = Result(n)}
           events == Events(released, e[1], known)
<1>1. /\ e[2] = "result"
      /\ operations' = Joined(events, operations)
      /\ queue' = (queue \ {e}) \cup Completions(events)
      /\ waiting' = waiting \ DOMAIN events
      /\ results' = known
      /\ reports' = Joined([m \in {n} |-> e[1]], reports)
  BY DEF Report
<1>2. /\ RunInv' /\ Completed' = Completed
      /\ e = <<e[1], "result", n>> /\ n \in Completed \cap Measurements
  BY ReportKeeps
<1>3. /\ n \in Nodes /\ Completed \subseteq DOMAIN operations
      /\ e[1] \in Nat /\ pace.latency \in Nat /\ InputOK
      /\ operations[n].end + pace.latency = e[1]
      /\ \A m \in Completed : operations[m].end =< e[1]
      /\ \A m \in DOMAIN reports : m \in DOMAIN operations /\ reports[m] =< e[1]
                                  /\ reports[m] = operations[m].end + pace.latency
  <2>1. n \in Nodes /\ Completed \subseteq DOMAIN operations /\ InputOK /\ pace.latency \in Nat
    BY <1>2, InputFacts DEF RunInv, Completed, Measurements
  <2> QED BY <1>1, <2>1, EventsAhead DEF EarlyInv
<1>4. /\ DOMAIN known = {n} \cup DOMAIN results
      /\ \A r \in DOMAIN known : known[r] = bits[r]
      /\ Result(n) = n
  BY DEF Joined, Result, RunInv
<1>5. /\ released \subseteq Nodes /\ released \subseteq waiting
      /\ \A m \in released :
           /\ m \notin DOMAIN operations
           /\ \A p \in Predecessors(m) : p \in DOMAIN operations /\ operations[p].end =< e[1]
           /\ Conditioned(m) /\ operations[circuit.ops[m].reads].end + pace.latency = e[1]
  <2>1. released \subseteq Nodes /\ released \subseteq waiting
    BY DEF RunInv
  <2>2. ASSUME NEW m \in released
        PROVE /\ m \notin DOMAIN operations
              /\ \A p \in Predecessors(m) : p \in DOMAIN operations /\ operations[p].end =< e[1]
    BY <1>3, <2>1 DEF RunInv
  <2>3. ASSUME NEW m \in released
        PROVE Conditioned(m) /\ operations[circuit.ops[m].reads].end + pace.latency = e[1]
    <3>1. Conditioned(m)
      BY <2>1 DEF EarlyInv
    <3>2. Asked(m) = circuit.ops[m].reads
      BY <1>3, <2>1, <3>1, InputFacts
    <3> QED BY <1>3, <1>4, <3>1, <3>2
  <2> QED BY <2>1, <2>2, <2>3
<1>6. /\ DOMAIN events = {m \in released : MayStart(m, known)}
      /\ DOMAIN operations' = DOMAIN events \cup DOMAIN operations
      /\ \A m \in released : m \in DOMAIN events
  <2>1. DOMAIN events = {m \in released : MayStart(m, known)}
    BY DEF Events
  <2>2. \A m \in released : Asked(m) \in DOMAIN known
    BY <1>4
  <2>3. \A m \in released : m \in DOMAIN events
    BY <2>1, <2>2 DEF MayStart
  <2> QED BY <1>1, <2>1, <2>3 DEF Joined
<1>7. \A m \in waiting : Asked(m) = n => m \in DOMAIN events
  BY <1>4, <1>6
<1> HIDE DEF released, known
<1>8. /\ \A m \in DOMAIN operations' :
           /\ operations'[m] = Due(m)'
           /\ operations'[m].start \in Nat /\ operations'[m].end \in Nat
      /\ \A m \in DOMAIN operations : m \in DOMAIN operations' /\ operations'[m] = operations[m]
      /\ \A f \in Completions(events) : f[2] = "complete" /\ e[1] =< f[1]
  <2>1. e[1] =< e[1]
    BY <1>3
  <2>2. \A r \in DOMAIN results : r \in DOMAIN operations /\ operations[r].end + pace.latency =< e[1]
    BY <1>3 DEF RunInv
  <2>3. \A r \in DOMAIN known : /\ r \in DOMAIN operations /\ known[r] = bits[r]
                               /\ operations[r].end + pace.latency =< e[1]
    BY <1>2, <1>3, <1>4, <2>1, <2>2
  <2>4. e[1] \in Nat /\ operations' = Joined(Events(released, e[1], known), operations)
    BY <1>1, <1>3
  <2> QED BY <1>5, <2>3, <2>4, StartsAreDue
<1> HIDE DEF events
<1>9. /\ Nodes' = Nodes /\ Measurements' = Measurements
      /\ pace' = pace /\ circuit' = circuit
      /\ \A m : Predecessors(m)' = Predecessors(m)
      /\ \A m : Asked(m)' = Asked(m)
      /\ \A m : Conditioned(m)' <=> Conditioned(m)
  BY SameInput
<1>10. ASSUME NEW f \in queue'
       PROVE  /\ e[1] =< f[1] /\ f[1] \in Nat
              /\ f[2] = "result" => f[1] = operations'[f[3]].end + pace.latency
  <2>1. CASE f \in queue
    <3>1. f[1] \in Nat /\ Earlier(e, f) /\ (f[2] = "result" => f[1] = operations[f[3]].end + pace.latency)
      BY <2>1, EventsAhead DEF Earliest
    <3>2. f[2] = "result" => f[3] \in DOMAIN operations
      BY <1>3, <2>1 DEF RunInv, Queued
    <3>3. e[1] =< f[1]
      BY <1>3, <3>1 DEF Earlier
    <3> QED BY <3>1, <3>2, <3>3, <1>8
  <2>2. CASE f \in Completions(events)
    <3>1. f[2] = "complete" /\ e[1] =< f[1]
      BY <2>2, <1>8
    <3>2. PICK m \in DOMAIN events : f = <<events[m].end, "complete", m>>
      BY <2>2 DEF Completions
    <3>3. operations'[m] = events[m] /\ m \in DOMAIN operations'
      BY <1>1, <1>6 DEF Joined
    <3>4. f[1] \in Nat
      BY <1>8, <3>2, <3>3
    <3> QED BY <3>1, <3>4
  <2> QED BY <1>1, <2>1, <2>2
<1>11. DOMAIN reports' = {n} \cup DOMAIN reports /\ reports'[n] = e[1]
       /\ (\A m \in DOMAIN reports : m # n => reports'[m] = reports[m])
       /\ reports' = [m \in DOMAIN reports' |-> reports'[m]]
  BY <1>1 DEF Joined
<1>12. \A m \in DOMAIN reports' : m \in DOMAIN operations /\ reports'[m] = operations[m].end + pace.latency
                                /\ reports'[m] =< e[1]
  <2>1. e[1] =< e[1]
    BY <1>3
  <2>2. ASSUME NEW m \in DOMAIN reports', m # n
        PROVE  m \in DOMAIN operations /\ reports'[m] = operations[m].end + pace.latency
               /\ reports'[m] =< e[1]
    BY <1>3, <1>11, <2>2
  <2>3. n \in DOMAIN operations /\ reports'[n] = operations[n].end + pace.latency /\ reports'[n] =< e[1]
    BY <1>2, <1>3, <1>11, <2>1
  <2> QED BY <2>2, <2>3
<1>13. ASSUME NEW f \in queue'
       PROVE  /\ \A m \in Completed' : operations'[m].end =< f[1]
              /\ \A m \in DOMAIN reports' : reports'[m] =< f[1]
              /\ f[2] = "result" => f[1] = operations'[f[3]].end + pace'.latency
  <2>1. ASSUME NEW m \in Completed' PROVE operations'[m].end =< f[1]
    <3>1. operations'[m].end = operations[m].end /\ operations[m].end \in Nat /\ m \in Completed
      BY <1>2, <1>3, <1>8 DEF EarlyInv
    <3>2. operations[m].end =< e[1]
      BY <1>3, <3>1
    <3> QED BY <1>3, <1>10, <3>1, <3>2
  <2>2. ASSUME NEW m \in DOMAIN reports' PROVE reports'[m] =< f[1]
    <3>1. reports'[m] \in Nat /\ reports'[m] =< e[1]
      BY <1>3, <1>12 DEF EarlyInv
    <3> QED BY <1>3, <1>10, <3>1
  <2> QED BY <1>9, <1>10, <2>1, <2>2
<1>14. reports' = [m \in DOMAIN reports' |-> operations'[m].end + pace'.latency]
  <2>1. \A m \in DOMAIN reports' : reports'[m] = operations'[m].end + pace'.latency
    BY <1>8, <1>9, <1>12
  <2>2. reports' = [m \in DOMAIN reports' |-> reports'[m]]
    BY <1>11
  <2> QED BY <2>1, <2>2
<1>15. ASSUME NEW m \in (Completed \cap Measurements)'
       PROVE m \in DOMAIN reports' \/ <<operations'[m].end + pace'.latency, "result", m>> \in queue'
  <2>1. CASE m = n
    BY <1>11, <2>1
  <2>2. CASE m # n
    <3>1. m \in Completed \cap Measurements /\ operations'[m] = operations[m]
      BY <1>2, <1>3, <1>8, <1>9
    <3>2. m \in DOMAIN reports \/ <<operations[m].end + pace.latency, "result", m>> \in queue
      BY <3>1 DEF EarlyInv
    <3>3. <<operations[m].end + pace.latency, "result", m>> # e
      BY <2>2
    <3> QED BY <1>1, <1>9, <1>11, <3>1, <3>2, <3>3
  <2> QED BY <2>1, <2>2
<1>16. \A m \in waiting' : Conditioned(m) /\ Asked(m) \notin DOMAIN results'
  BY <1>1, <1>4, <1>7 DEF EarlyInv
<1>17. ASSUME NEW m \in Nodes, Predecessors(m) \subseteq Completed'
       PROVE m \in DOMAIN operations' \cup waiting'
  BY <1>1, <1>2, <1>6, <1>17 DEF EarlyInv
<1> QED BY <1>8, <1>9, <1>13, <1>14, <1>15, <1>16, <1>17 DEF EarlyInv

\* The tester's step.
LEMMA EarlyStep ==
  ASSUME RunInv, EarlyInv, UNCHANGED input, ExecutionStep
  PROVE  EarlyInv'
BY CompleteEarly, ReportEarly DEF ExecutionStep

\* When nothing is queued, everything is complete: the first operation that is
\* not would be released, and the bit it reads reported.
LEMMA AllComplete ==
  ASSUME RunInv, EarlyInv, Executed
  PROVE  DOMAIN operations = Nodes /\ Completed = Nodes /\ DOMAIN reports = Measurements
<1>1. Completed = DOMAIN operations /\ Completed \subseteq Nodes
  BY DEF Executed, Completed, RunInv
<1>2. Completed \cap Measurements = DOMAIN reports
  BY DEF Executed, EarlyInv, RunInv
<1>3. InputOK
  BY DEF RunInv
<1>4. Nodes \subseteq Completed
  <2> SUFFICES ASSUME Nodes \ Completed # {} PROVE FALSE
    OBVIOUS
  <2> DEFINE left == Nodes \ Completed
             n == Min(left)
  <2>1. left \in SUBSET Nat /\ left # {}
    BY <1>3, InputFacts
  <2>2. n \in left /\ \A m \in left : n =< m
    <3> HIDE DEF left
    <3> QED BY <2>1, MinOfNaturals
  <2> HIDE DEF n
  <2>3. n \in Nat /\ \A m \in Nodes : m < n => m \in Completed
    BY <2>1, <2>2
  <2>4. Predecessors(n) \subseteq Completed
    BY <1>3, <2>2, <2>3, InputFacts
  <2>5. n \in waiting
    BY <1>1, <2>2, <2>4 DEF EarlyInv
  <2>6. Conditioned(n) /\ Asked(n) \notin DOMAIN reports
    BY <2>5 DEF EarlyInv, RunInv
  <2>7. Asked(n) \in Measurements /\ Asked(n) \in Nodes /\ Asked(n) < n
    BY <1>3, <2>2, <2>6, InputFacts DEF Measurements
  <2> QED BY <1>2, <2>3, <2>6, <2>7
<1> QED BY <1>1, <1>2, <1>4 DEF Measurements

\* The invariant of the tester's times, once all has happened, is TesterEarliest.
LEMMA EarlyIsEarliest ==
  ASSUME RunInv, EarlyInv
  PROVE  TesterEarliest
BY AllComplete DEF TesterEarliest, EarlyInv

-----------------------------------------------------------------------------
(* The theorems.                                                             *)

CircuitInv == LoopInv /\ RunInv

\* Both readers start on a circuit, with nothing done.
LEMMA CircuitInit ==
  ASSUME Init
  PROVE CircuitInv /\ Tester!Init /\ Compiler!Init
<1>1. InputOK
  BY DEF Init, InputInit, InputOK
<1>2. LoopInv /\ DOMAIN decisions = {} /\ DOMAIN records = {}
  BY <1>1, LoopInit DEF Init, CompilationInit, Nothing
<1>3. RunInv /\ Completed = {} /\ DOMAIN reports = {}
  BY <1>1, RunInit DEF Init
<1> QED BY <1>2, <1>3 DEF CircuitInv, Tester!Init, Compiler!Init

\* Each step is one reader's: the other's stands still.
LEMMA CircuitStep ==
  ASSUME CircuitInv, [Next]_vars
  PROVE /\ CircuitInv'
        /\ [Tester!Advance]_(Tester!progress)
        /\ [Compiler!Advance]_(Compiler!progress)
<1>1. ASSUME UNCHANGED <<input, execution>>
      PROVE RunInv' /\ UNCHANGED Tester!progress
  <2>1. /\ remaining' = remaining /\ queue' = queue /\ waiting' = waiting
        /\ results' = results /\ reports' = reports /\ operations' = operations
        /\ circuit' = circuit /\ bits' = bits /\ pace' = pace
    BY <1>1 DEF execution, input
  <2>2. Completed' = Completed /\ Measurements' = Measurements /\ Nodes' = Nodes
    BY <2>1 DEF Completed, Measurements, Nodes, Name
  <2> QED BY <2>1, <2>2 DEF CircuitInv, RunInv, InputOK, Queued, OnBranch, Conditioned, Wants,
                            Predecessors, Tester!progress
<1>2. ASSUME UNCHANGED <<input, compilation>>
      PROVE LoopInv' /\ UNCHANGED Compiler!progress
  <2>1. /\ ready' = ready /\ unmet' = unmet /\ clock' = clock
        /\ records' = records /\ decisions' = decisions
        /\ circuit' = circuit /\ bits' = bits /\ pace' = pace
    BY <1>2 DEF compilation, input
  <2>2. Measurements' = Measurements /\ Nodes' = Nodes
    BY <2>1 DEF Measurements, Nodes, Name
  <2>3. Made' = Made /\ \A n : Conditioned(n)' <=> Conditioned(n)
    BY <1>2, SameInput
  <2> QED BY <2>1, <2>2, <2>3 DEF CircuitInv, LoopInv, InputOK, Progress, Recording, Predecessors,
                                  Result, Compiler!progress
<1>3. CASE Execute
  BY <1>2, <1>3, RunStep DEF Execute, CircuitInv, input
<1>4. CASE Compile
  BY <1>1, <1>4, LoopStep DEF Compile, CircuitInv, input
<1>5. CASE Alter
  BY <1>1, <1>2, <1>5 DEF Alter, CircuitInv
<1>6. CASE UNCHANGED vars
  BY <1>1, <1>2, <1>6 DEF vars, CircuitInv
<1> QED BY <1>3, <1>4, <1>5, <1>6 DEF Next

\* The tester's times through a step of anyone.
LEMMA EarlyNext ==
  ASSUME CircuitInv, EarlyInv, [Next]_vars
  PROVE  EarlyInv'
<1>1. ASSUME UNCHANGED <<input, execution>>
      PROVE EarlyInv'
  <2>1. /\ remaining' = remaining /\ queue' = queue /\ waiting' = waiting
        /\ results' = results /\ reports' = reports /\ operations' = operations
        /\ circuit' = circuit /\ bits' = bits /\ pace' = pace
    BY <1>1 DEF execution, input
  <2>2. Completed' = Completed /\ Measurements' = Measurements /\ Nodes' = Nodes
    BY <2>1 DEF Completed, Measurements, Nodes, Name
  <2>3. \A n \in DOMAIN operations : Due(n)' = Due(n)
    <3>1. DOMAIN operations \subseteq Nodes
      BY DEF CircuitInv, RunInv
    <3>2. UNCHANGED input
      BY <1>1
    <3> QED BY <2>1, <3>1, <3>2, SameDue
  <2>4. \A n : Predecessors(n)' = Predecessors(n) /\ Asked(n)' = Asked(n) /\ (Conditioned(n)' <=> Conditioned(n))
    BY <1>1, SameInput
  <2> QED BY <2>1, <2>2, <2>3, <2>4 DEF EarlyInv
<1>2. CASE Execute
  BY <1>2, EarlyStep DEF Execute, CircuitInv, input
<1>3. CASE Compile
  BY <1>1, <1>3 DEF Compile
<1>4. CASE Alter
  BY <1>1, <1>4 DEF Alter
<1>5. CASE UNCHANGED vars
  BY <1>1, <1>5 DEF vars
<1> QED BY <1>2, <1>3, <1>4, <1>5 DEF Next

\* The invariant of the loop and the tester together.
THEOREM InvariantHolds == Spec => []CircuitInv
BY CircuitInit, CircuitStep, PTL DEF Spec

\* The event queue of execution.py gives every operation the decision and the
\* earliest time that the circuit, its durations and the latency allow, and
\* delivers every bit when it is due, in whatever order the events come.
THEOREM TesterIsEarliest == Spec => []TesterEarliest
<1>1. Init => EarlyInv
  BY EarlyInit DEF Init, InputInit, InputOK
<1>2. CircuitInv /\ EarlyInv /\ [Next]_vars => EarlyInv'
  BY EarlyNext
<1>3. CircuitInv /\ EarlyInv => TesterEarliest
  BY EarlyIsEarliest DEF CircuitInv
<1> QED BY <1>1, <1>2, <1>3, InvariantHolds, PTL DEF Spec

\* compiler.py's "Ready conditions have no compiled measurement" is raised for
\* circuits with an operation that reads a conditioned measurement on the branch
\* not taken, when such an operation is ready, and none of them is compiled; for
\* any other circuit, also one without edges from the measurements, an operation
\* is ready or its bit is on its way while operations are left.
THEOREM CompilerStopsForCause == Spec => []StopsForCause
<1>1. CircuitInv => StopsForCause
  BY LoopInvStopsForCause DEF CircuitInv
<1> QED BY <1>1, InvariantHolds, PTL

\* The event loop of execution.py and the loop of compiler.py implement
\* DependencyProgress: nothing is done before what it depends on or before its
\* bit was delivered, and it acts exactly on the branch its own measurement
\* took.
THEOREM OrderKept == Spec => ReadersKeepOrder
BY CircuitInit, CircuitStep, InvariantHolds, PTL DEF Spec, ReadersKeepOrder, Tester!Safe, Compiler!Safe

-----------------------------------------------------------------------------
(* The timing checks: what neighbours hand on is what ancestors demand.      *)

\* The operations up to one.
Upto(k) == {n \in Nodes : n =< k}

\* Two tables that agree on what comes before an operation hand on the same.
LEMMA HandOnSame ==
  ASSUME NEW f, NEW g, NEW n, NEW r, \A m \in Predecessors(n) : f[m] = g[m]
  PROVE  HandOn(f, n, r) = HandOn(g, n, r)
<1>1. {f[m].after : m \in Predecessors(n)} = {g[m].after : m \in Predecessors(n)}
  OBVIOUS
<1>2. {f[m].awaits : m \in Predecessors(n)} = {g[m].awaits : m \in Predecessors(n)}
  OBVIOUS
<1> QED BY <1>1, <1>2 DEF HandOn

\* The loop of _dependencies gives each operation what its predecessors hand on.
LEMMA HandedOnIs ==
  ASSUME InputOK, NEW r
  PROVE  HandedOn(r) = [n \in Nodes |-> HandOn(HandedOn(r), n, r)]
<1> DEFINE Table(k, f) == f = [n \in Upto(k) |-> HandOn(f, n, r)]
           wrong == {k \in Nat : \A f : ~Table(k, f)}
<1>1. /\ Nodes \subseteq Nat /\ \A n \in Nodes : Predecessors(n) \subseteq Nodes
      /\ \A n \in Nodes : \A m \in Predecessors(n) : m < n
  BY InputFacts
<1>2. wrong = {}
  <2> SUFFICES ASSUME wrong # {} PROVE FALSE
    OBVIOUS
  <2> DEFINE k == Min(wrong)
  <2>1. k \in wrong /\ \A j \in wrong : k =< j
    <3>1. wrong \in SUBSET Nat
      OBVIOUS
    <3> HIDE DEF wrong
    <3> QED BY <3>1, MinOfNaturals
  <2> HIDE DEF k
  <2>2. k \in Nat /\ \A f : ~Table(k, f)
    BY <2>1
  <2>3. PICK f : Table(k - 1, f) \/ k = 0
    <3>1. CASE k # 0
      <4>1. k - 1 \in Nat /\ ~(k =< k - 1)
        BY <2>2, <3>1
      <4>2. k - 1 \notin wrong
        BY <2>1, <4>1
      <4> QED BY <4>1, <4>2
    <3> QED BY <3>1
  <2> DEFINE g == [n \in Upto(k) |-> IF n < k THEN f[n] ELSE HandOn(f, n, r)]
  <2>4. ASSUME NEW n \in Upto(k) PROVE g[n] = HandOn(g, n, r)
    <3>0. n \in Nat /\ n \in Nodes /\ n =< k
      BY <1>1 DEF Upto
    <3>a. ASSUME NEW m \in Predecessors(n)
          PROVE  m \in Upto(k) /\ m < k /\ m \in Upto(k - 1)
      <4>1. m \in Nodes /\ m \in Nat /\ m < n
        BY <1>1, <3>0
      <4>2. m < k /\ m =< k /\ m =< k - 1
        BY <2>2, <3>0, <4>1
      <4> QED BY <4>1, <4>2 DEF Upto
    <3>1. /\ n \in Nat /\ n \in Nodes /\ n =< k
          /\ \A m \in Predecessors(n) : m \in Upto(k) /\ m < k /\ m \in Upto(k - 1)
      BY <3>0, <3>a
    <3>2. \A m \in Predecessors(n) : g[m] = f[m]
      BY <3>1
    <3> HIDE DEF g
    <3>3. HandOn(g, n, r) = HandOn(f, n, r)
      BY <3>2, HandOnSame
    <3>4. CASE n < k
      <4>1. n \in Upto(k - 1) /\ k # 0
        BY <2>2, <3>1, <3>4 DEF Upto
      <4>2. f[n] = HandOn(f, n, r)
        BY <2>3, <4>1
      <4> QED BY <3>3, <3>4, <4>2 DEF g
    <3>5. CASE ~(n < k)
      BY <3>3, <3>5 DEF g
    <3> QED BY <3>4, <3>5
  <2>5. DOMAIN g = Upto(k) /\ g = [n \in Upto(k) |-> g[n]]
    OBVIOUS
  <2> HIDE DEF g
  <2>6. Table(k, g)
    BY <2>4, <2>5
  <2> QED BY <2>2, <2>6
<1>3. Len(circuit.ops) \in Nat /\ Upto(Len(circuit.ops)) = Nodes
  <2>1. Len(circuit.ops) \in Nat /\ Nodes = 1..Len(circuit.ops)
    BY CircuitAssumption DEF InputOK, IsCircuit, Nodes
  <2> QED BY <2>1 DEF Upto
<1>4. \E f : f = [n \in Nodes |-> HandOn(f, n, r)]
  <2>1. Len(circuit.ops) \notin wrong
    BY <1>2
  <2> QED BY <1>3, <2>1
<1> QED BY <1>4 DEF HandedOn

\* The ancestors of an operation are its predecessors and theirs.
LEMMA AncestorsAre ==
  ASSUME InputOK
  PROVE  Ancestors = [n \in Nodes |-> Predecessors(n) \cup
                                        UNION {Ancestors[m] : m \in Predecessors(n)}]
<1> DEFINE Gathered(f, n) == Predecessors(n) \cup UNION {f[m] : m \in Predecessors(n)}
           Table(k, f) == f = [n \in Upto(k) |-> Gathered(f, n)]
           wrong == {k \in Nat : \A f : ~Table(k, f)}
<1>1. /\ Nodes \subseteq Nat /\ \A n \in Nodes : Predecessors(n) \subseteq Nodes
      /\ \A n \in Nodes : \A m \in Predecessors(n) : m < n
  BY InputFacts
<1>2. wrong = {}
  <2> SUFFICES ASSUME wrong # {} PROVE FALSE
    OBVIOUS
  <2> DEFINE k == Min(wrong)
  <2>1. k \in wrong /\ \A j \in wrong : k =< j
    <3>1. wrong \in SUBSET Nat
      OBVIOUS
    <3> HIDE DEF wrong
    <3> QED BY <3>1, MinOfNaturals
  <2> HIDE DEF k
  <2>2. k \in Nat /\ \A f : ~Table(k, f)
    BY <2>1
  <2>3. PICK f : Table(k - 1, f) \/ k = 0
    <3>1. CASE k # 0
      <4>1. k - 1 \in Nat /\ ~(k =< k - 1)
        BY <2>2, <3>1
      <4>2. k - 1 \notin wrong
        BY <2>1, <4>1
      <4> QED BY <4>1, <4>2
    <3> QED BY <3>1
  <2> DEFINE g == [n \in Upto(k) |-> IF n < k THEN f[n] ELSE Gathered(f, n)]
  <2>4. ASSUME NEW n \in Upto(k) PROVE g[n] = Gathered(g, n)
    <3>1. n \in Nat /\ n \in Nodes /\ n =< k
      BY <1>1 DEF Upto
    <3>2. ASSUME NEW m \in Predecessors(n)
          PROVE  m \in Upto(k) /\ m < k
      <4>1. m \in Nodes /\ m \in Nat /\ m < n
        BY <1>1, <3>1
      <4>2. m < k /\ m =< k
        BY <2>2, <3>1, <4>1
      <4> QED BY <4>1, <4>2 DEF Upto
    <3>3. \A m \in Predecessors(n) : g[m] = f[m]
      BY <3>2
    <3> HIDE DEF g
    <3>4. Gathered(g, n) = Gathered(f, n)
      <4>1. {g[m] : m \in Predecessors(n)} = {f[m] : m \in Predecessors(n)}
        BY <3>3
      <4> QED BY <4>1
    <3>5. CASE n < k
      <4>1. n \in Upto(k - 1) /\ k # 0
        BY <2>2, <3>1, <3>5 DEF Upto
      <4>2. f[n] = Gathered(f, n)
        BY <2>3, <4>1
      <4> QED BY <3>4, <3>5, <4>2 DEF g
    <3>6. CASE ~(n < k)
      BY <3>4, <3>6 DEF g
    <3> QED BY <3>5, <3>6
  <2>5. DOMAIN g = Upto(k) /\ g = [n \in Upto(k) |-> g[n]]
    OBVIOUS
  <2> HIDE DEF g
  <2>6. Table(k, g)
    BY <2>4, <2>5
  <2> QED BY <2>2, <2>6
<1>3. Len(circuit.ops) \in Nat /\ Upto(Len(circuit.ops)) = Nodes
  <2>1. Len(circuit.ops) \in Nat /\ Nodes = 1..Len(circuit.ops)
    BY CircuitAssumption DEF InputOK, IsCircuit, Nodes
  <2> QED BY <2>1 DEF Upto
<1>4. \E f : f = [n \in Nodes |-> Gathered(f, n)]
  <2>1. Len(circuit.ops) \notin wrong
    BY <1>2
  <2> QED BY <1>3, <2>1
<1> QED BY <1>4 DEF Ancestors

\* What follows from it: ancestors come earlier, and they are closed.
LEMMA AncestorFacts ==
  ASSUME InputOK, NEW n \in Nodes
  PROVE  /\ Predecessors(n) \subseteq Ancestors[n] /\ Ancestors[n] \subseteq Nodes
         /\ \A m \in Ancestors[n] : m < n
         /\ \A p \in Predecessors(n) : Ancestors[p] \subseteq Ancestors[n]
         /\ \A m \in Ancestors[n] : m \in Predecessors(n)
                                    \/ \E p \in Predecessors(n) : m \in Ancestors[p]
<1> DEFINE OnlyBefore(k) == Ancestors[k] \subseteq Nodes /\ \A m \in Ancestors[k] : m < k
           wrong == {k \in Nodes : ~OnlyBefore(k)}
<1>1. /\ Nodes \subseteq Nat /\ \A k \in Nodes : Predecessors(k) \subseteq Nodes
      /\ \A k \in Nodes : \A m \in Predecessors(k) : m < k
  BY InputFacts
<1>2. \A k \in Nodes : Ancestors[k] = Predecessors(k) \cup
                                       UNION {Ancestors[m] : m \in Predecessors(k)}
  BY AncestorsAre
<1>3. wrong = {}
  <2> SUFFICES ASSUME wrong # {} PROVE FALSE
    OBVIOUS
  <2> DEFINE k == Min(wrong)
  <2>1. k \in wrong /\ \A j \in wrong : k =< j
    <3>1. wrong \in SUBSET Nat
      BY <1>1
    <3> HIDE DEF wrong
    <3> QED BY <3>1, MinOfNaturals
  <2> HIDE DEF k
  <2>2. k \in Nodes /\ k \in Nat /\ ~OnlyBefore(k)
    BY <1>1, <2>1
  <2>3. ASSUME NEW p \in Predecessors(k)
        PROVE  p \in Nodes /\ p < k /\ Ancestors[p] \subseteq Nodes /\ \A m \in Ancestors[p] : m < p
    <3>1. p \in Nodes /\ p < k
      BY <1>1, <2>2
    <3>2. ~(k =< p)
      <4>1. p \in Nat
        BY <1>1, <3>1
      <4> QED BY <2>2, <3>1, <4>1
    <3>3. p \notin wrong
      BY <2>1, <3>2
    <3> QED BY <3>1, <3>3
  <2>4. ASSUME NEW m \in Ancestors[k] PROVE m \in Nodes /\ m < k
    <3>1. CASE m \in Predecessors(k)
      BY <2>3, <3>1
    <3>2. CASE m \notin Predecessors(k)
      <4>1. PICK p \in Predecessors(k) : m \in Ancestors[p]
        BY <1>2, <2>2, <3>2
      <4>2. m \in Nodes /\ m < p /\ p < k /\ p \in Nodes
        BY <2>3, <4>1
      <4>3. m \in Nat /\ p \in Nat
        BY <1>1, <4>2
      <4> QED BY <2>2, <4>2, <4>3
    <3> QED BY <3>1, <3>2
  <2> QED BY <2>2, <2>4
<1>4. Ancestors[n] \subseteq Nodes /\ \A m \in Ancestors[n] : m < n
  BY <1>3
<1> QED BY <1>2, <1>4

\* What reaches an operation by way of those without actions: all it must follow
\* or await is an ancestor's, and every ancestor's is handed to it or to
\* one with actions that it must follow.
Reaching(n, r) ==
  LET on == HandedOn(r)[n] IN
  /\ on.incoming \subseteq Ancestors[n] \cap DOMAIN r.spans
  /\ \A ref \in on.conditions :
       \E m \in Ancestors[n] \cup {n} : Conditioned(m) /\ ref = Asked(m)
  /\ \A m \in Ancestors[n] \cap DOMAIN r.spans :
       m \in on.incoming \/ \E k \in on.incoming : m \in Ancestors[k]
  /\ \A m \in Ancestors[n] \cup {n} : Conditioned(m) =>
       Asked(m) \in on.conditions \/ \E k \in on.incoming : m \in Ancestors[k] \cup {k}

\* What the loop gives one operation, in the terms of its predecessors.
LEMMA HandedOnOne ==
  ASSUME InputOK, NEW r, NEW n \in Nodes
  PROVE  LET on == HandedOn(r) IN
         /\ on[n].incoming = UNION {on[p].after : p \in Predecessors(n)}
         /\ on[n].conditions = (IF Conditioned(n) THEN {Asked(n)} ELSE {})
                               \cup UNION {on[p].awaits : p \in Predecessors(n)}
         /\ n \in DOMAIN r.spans => on[n].after = {n} /\ on[n].awaits = {}
         /\ n \notin DOMAIN r.spans => /\ on[n].after = on[n].incoming
                                       /\ on[n].awaits = on[n].conditions
<1>1. HandedOn(r)[n] = HandOn(HandedOn(r), n, r)
  BY HandedOnIs
<1> DEFINE on == HandedOn(r)
<1> HIDE DEF on
<1>2. on[n] = HandOn(on, n, r)
  BY <1>1 DEF on
<1>3. /\ on[n].incoming = UNION {on[p].after : p \in Predecessors(n)}
      /\ on[n].conditions = (IF Conditioned(n) THEN {Asked(n)} ELSE {})
                            \cup UNION {on[p].awaits : p \in Predecessors(n)}
      /\ on[n].after = IF n \in DOMAIN r.spans THEN {n} ELSE on[n].incoming
      /\ on[n].awaits = IF n \in DOMAIN r.spans THEN {} ELSE on[n].conditions
  BY <1>2 DEF HandOn
<1> QED BY <1>3 DEF on

\* So it is at every operation, if at those before it.
LEMMA ReachingStep ==
  ASSUME InputOK, NEW r, NEW n \in Nodes, \A p \in Predecessors(n) : Reaching(p, r)
  PROVE  Reaching(n, r)
<1> DEFINE on == HandedOn(r)
<1> HIDE DEF on
<1>1. /\ on[n].incoming = UNION {on[p].after : p \in Predecessors(n)}
      /\ on[n].conditions = (IF Conditioned(n) THEN {Asked(n)} ELSE {})
                            \cup UNION {on[p].awaits : p \in Predecessors(n)}
  BY HandedOnOne DEF on
<1>2. ASSUME NEW p \in Predecessors(n)
      PROVE  /\ p \in Ancestors[n] /\ Ancestors[p] \subseteq Ancestors[n] /\ p \in Nodes
             /\ p \in DOMAIN r.spans => on[p].after = {p} /\ on[p].awaits = {}
             /\ p \notin DOMAIN r.spans => on[p].after = on[p].incoming /\ on[p].awaits = on[p].conditions
             /\ on[p].incoming \subseteq Ancestors[p] \cap DOMAIN r.spans
             /\ \A ref \in on[p].conditions :
                  \E m \in Ancestors[p] \cup {p} : Conditioned(m) /\ ref = Asked(m)
             /\ \A m \in Ancestors[p] \cap DOMAIN r.spans :
                  m \in on[p].incoming \/ \E k \in on[p].incoming : m \in Ancestors[k]
             /\ \A m \in Ancestors[p] \cup {p} : Conditioned(m) =>
                  Asked(m) \in on[p].conditions \/ \E k \in on[p].incoming : m \in Ancestors[k] \cup {k}
  <2>1. p \in Ancestors[n] /\ Ancestors[p] \subseteq Ancestors[n] /\ p \in Nodes
    BY AncestorFacts
  <2>2. Reaching(p, r)
    OBVIOUS
  <2>3. /\ p \in DOMAIN r.spans => on[p].after = {p} /\ on[p].awaits = {}
        /\ p \notin DOMAIN r.spans => on[p].after = on[p].incoming /\ on[p].awaits = on[p].conditions
    BY <2>1, HandedOnOne DEF on
  <2> QED BY <2>1, <2>2, <2>3 DEF Reaching, on
<1>3. \A p \in Predecessors(n) : on[p].after \subseteq on[n].incoming
                                 /\ on[p].awaits \subseteq on[n].conditions
  BY <1>1
<1>4. on[n].incoming \subseteq Ancestors[n] \cap DOMAIN r.spans
  <2>1. ASSUME NEW m \in on[n].incoming PROVE m \in Ancestors[n] \cap DOMAIN r.spans
    <3>1. PICK p \in Predecessors(n) : m \in on[p].after
      BY <1>1
    <3> QED BY <1>2, <3>1
  <2> QED BY <2>1
<1>5. ASSUME NEW ref \in on[n].conditions
      PROVE  \E m \in Ancestors[n] \cup {n} : Conditioned(m) /\ ref = Asked(m)
  <2>1. CASE Conditioned(n) /\ ref = Asked(n)
    BY <2>1
  <2>2. CASE \E p \in Predecessors(n) : ref \in on[p].awaits
    <3>1. PICK p \in Predecessors(n) : ref \in on[p].awaits
      BY <2>2
    <3>2. ref \in on[p].conditions
      BY <1>2, <3>1
    <3>3. PICK m \in Ancestors[p] \cup {p} : Conditioned(m) /\ ref = Asked(m)
      BY <1>2, <3>2
    <3> QED BY <1>2, <3>3
  <2> QED BY <1>1, <2>1, <2>2
<1>6. ASSUME NEW m \in Ancestors[n] \cap DOMAIN r.spans
      PROVE  m \in on[n].incoming \/ \E k \in on[n].incoming : m \in Ancestors[k]
  <2>1. CASE m \in Predecessors(n)
    BY <1>2, <1>3, <2>1
  <2>2. CASE m \notin Predecessors(n)
    <3>1. PICK p \in Predecessors(n) : m \in Ancestors[p]
      BY <2>2, AncestorFacts
    <3>2. CASE p \in DOMAIN r.spans
      <4>1. p \in on[n].incoming
        BY <1>2, <1>3, <3>2
      <4> QED BY <3>1, <4>1
    <3>3. CASE p \notin DOMAIN r.spans
      <4>1. on[p].incoming \subseteq on[n].incoming
        BY <1>2, <1>3, <3>3
      <4>2. m \in on[p].incoming \/ \E k \in on[p].incoming : m \in Ancestors[k]
        BY <1>2, <3>1
      <4> QED BY <4>1, <4>2
    <3> QED BY <3>2, <3>3
  <2> QED BY <2>1, <2>2
<1>7. ASSUME NEW m \in Ancestors[n] \cup {n}, Conditioned(m)
      PROVE  Asked(m) \in on[n].conditions \/ \E k \in on[n].incoming : m \in Ancestors[k] \cup {k}
  <2>1. CASE m = n
    BY <1>1, <1>7, <2>1
  <2>2. CASE m # n
    <3>1. PICK p \in Predecessors(n) : m \in Ancestors[p] \cup {p}
      <4>1. m \in Ancestors[n]
        BY <2>2
      <4> QED BY <4>1, AncestorFacts
    <3>2. CASE p \in DOMAIN r.spans
      <4>1. p \in on[n].incoming
        BY <1>2, <1>3, <3>2
      <4> QED BY <3>1, <4>1
    <3>3. CASE p \notin DOMAIN r.spans
      <4>1. on[p].incoming \subseteq on[n].incoming /\ on[p].conditions \subseteq on[n].conditions
        BY <1>2, <1>3, <3>3
      <4>2. Asked(m) \in on[p].conditions \/ \E k \in on[p].incoming : m \in Ancestors[k] \cup {k}
        BY <1>2, <1>7, <3>1
      <4> QED BY <4>1, <4>2
    <3> QED BY <3>2, <3>3
  <2> QED BY <2>1, <2>2
<1> QED BY <1>4, <1>5, <1>6, <1>7 DEF Reaching, on

\* At every operation.
LEMMA ReachingAll ==
  ASSUME InputOK, NEW r
  PROVE  \A n \in Nodes : Reaching(n, r)
<1> DEFINE wrong == {n \in Nodes : ~Reaching(n, r)}
<1> SUFFICES ASSUME wrong # {} PROVE FALSE
  OBVIOUS
<1> DEFINE n == Min(wrong)
<1>1. wrong \in SUBSET Nat
  BY InputFacts
<1>2. n \in wrong /\ \A m \in wrong : n =< m
  <2> HIDE DEF wrong
  <2> QED BY <1>1, MinOfNaturals
<1> HIDE DEF n
<1>3. n \in Nodes /\ ~Reaching(n, r)
  BY <1>2
<1>4. ASSUME NEW p \in Predecessors(n) PROVE Reaching(p, r)
  <2>1. p \in Nodes /\ p < n
    BY <1>3, InputFacts
  <2>2. p \in Nat /\ n \in Nat
    BY <1>3, <2>1, InputFacts
  <2>3. p \notin wrong
    BY <1>2, <2>1, <2>2
  <2> QED BY <2>1, <2>3
<1> QED BY <1>3, <1>4, ReachingStep

\* What the compiler returns, and any alteration of it, is of this shape: actions
\* of operations take time, and times are numbers.
ResultShape(r) ==
  /\ DOMAIN r = {"decisions", "spans", "measured", "records"}
  /\ DOMAIN r.spans \subseteq Nodes /\ DOMAIN r.decisions \subseteq Nodes
  /\ \A n \in DOMAIN r.spans : /\ r.spans[n].start \in Int /\ r.spans[n].end \in Int
                               /\ r.spans[n].start =< r.spans[n].end
                               /\ DOMAIN r.spans[n] = {"start", "end"}
  /\ \A ref \in DOMAIN r.measured : r.measured[ref] \in Int
  /\ \A ref \in DOMAIN r.records : r.records[ref].at \in Int
                                   /\ DOMAIN r.records[ref] = {"value", "at"}

\* The actions of an operation come after all that it must come after.
InTime(n, r) ==
  /\ \A m \in Ancestors[n] \cap DOMAIN r.spans : r.spans[m].end =< r.spans[n].start
  /\ \A m \in Ancestors[n] \cup {n} : Conditioned(m) =>
       /\ circuit.ops[m].reads \in DOMAIN r.measured
       /\ r.spans[n].start >= r.measured[circuit.ops[m].reads] + pace.latency
       /\ r.spans[n].start >= r.records[circuit.ops[m].reads].at

\* Looking at neighbours is enough.
LEMMA KeptIsInTime ==
  ASSUME InputOK, NEW r, ResultShape(r), DOMAIN r.records = DOMAIN r.measured
  PROVE  DependenciesKept(r) <=> \A n \in DOMAIN r.spans : InTime(n, r)
<1> DEFINE on == HandedOn(r)
<1> HIDE DEF on
<1>1. DependenciesKept(r) <=>
        \A n \in DOMAIN r.spans :
          /\ \A m \in on[n].incoming : r.spans[m].end =< r.spans[n].start
          /\ \A ref \in on[n].conditions : HeardInTime(n, ref, r)
  BY DEF DependenciesKept, on
<1>2. ASSUME NEW n \in Nodes
      PROVE  /\ on[n].incoming \subseteq Ancestors[n] \cap DOMAIN r.spans
             /\ \A ref \in on[n].conditions :
                  \E m \in Ancestors[n] \cup {n} : Conditioned(m) /\ ref = Asked(m)
             /\ \A m \in Ancestors[n] \cap DOMAIN r.spans :
                  m \in on[n].incoming \/ \E k \in on[n].incoming : m \in Ancestors[k]
             /\ \A m \in Ancestors[n] \cup {n} : Conditioned(m) =>
                  Asked(m) \in on[n].conditions \/ \E k \in on[n].incoming : m \in Ancestors[k] \cup {k}
             /\ \A m \in Ancestors[n] \cup {n} :
                  m \in Nodes /\ (Conditioned(m) => Asked(m) = circuit.ops[m].reads)
  <2>1. Reaching(n, r)
    BY ReachingAll
  <2>2. \A m \in Ancestors[n] \cup {n} : m \in Nodes
    BY AncestorFacts
  <2>3. \A m \in Ancestors[n] \cup {n} : Conditioned(m) => Asked(m) = circuit.ops[m].reads
    BY <2>2, InputFacts
  <2> QED BY <2>1, <2>2, <2>3 DEF Reaching, on
<1>3. DOMAIN r.spans \subseteq Nodes /\ Nodes \subseteq Nat /\ pace.latency \in Nat
  BY InputFacts DEF ResultShape
<1>4. ASSUME \A n \in DOMAIN r.spans : InTime(n, r), NEW n \in DOMAIN r.spans
      PROVE  /\ \A m \in on[n].incoming : r.spans[m].end =< r.spans[n].start
             /\ \A ref \in on[n].conditions : HeardInTime(n, ref, r)
  <2>1. n \in Nodes /\ InTime(n, r)
    BY <1>3, <1>4
  <2>2. \A m \in on[n].incoming : r.spans[m].end =< r.spans[n].start
    BY <1>2, <2>1 DEF InTime
  <2>3. ASSUME NEW ref \in on[n].conditions PROVE HeardInTime(n, ref, r)
    <3>1. PICK m \in Ancestors[n] \cup {n} : Conditioned(m) /\ ref = Asked(m)
      BY <1>2, <2>1
    <3>2. ref = circuit.ops[m].reads
      BY <1>2, <2>1, <3>1
    <3> QED BY <2>1, <3>1, <3>2 DEF InTime, HeardInTime
  <2> QED BY <2>2, <2>3
<1>5. ASSUME DependenciesKept(r) PROVE \A n \in DOMAIN r.spans : InTime(n, r)
  <2> DEFINE wrong == {n \in DOMAIN r.spans : ~InTime(n, r)}
  <2> SUFFICES ASSUME wrong # {} PROVE FALSE
    OBVIOUS
  <2> DEFINE n == Min(wrong)
  <2>1. wrong \in SUBSET Nat
    BY <1>3
  <2>2. n \in wrong /\ \A m \in wrong : n =< m
    <3> HIDE DEF wrong
    <3> QED BY <2>1, MinOfNaturals
  <2> HIDE DEF n
  <2>3. n \in DOMAIN r.spans /\ n \in Nodes /\ n \in Nat /\ ~InTime(n, r)
    BY <1>3, <2>2
  <2>4. /\ \A m \in on[n].incoming : r.spans[m].end =< r.spans[n].start
        /\ \A ref \in on[n].conditions : HeardInTime(n, ref, r)
    BY <1>1, <1>5, <2>3
  <2>5. ASSUME NEW k \in on[n].incoming
        PROVE  /\ k \in DOMAIN r.spans /\ InTime(k, r)
               /\ r.spans[k].start \in Int /\ r.spans[n].start \in Int
               /\ r.spans[k].start =< r.spans[n].start
    <3>1. k \in Ancestors[n] /\ k \in DOMAIN r.spans
      BY <1>2, <2>3
    <3>2. k < n
      BY <2>3, <3>1, AncestorFacts
    <3>3. ~(n =< k)
      <4>1. k \in Nat
        BY <1>3, <3>1
      <4> QED BY <2>3, <3>2, <4>1
    <3>4. k \notin wrong
      BY <2>2, <3>3
    <3>5. r.spans[k].end =< r.spans[n].start
      BY <2>4
    <3>6. /\ r.spans[k].start \in Int /\ r.spans[k].end \in Int /\ r.spans[n].start \in Int
          /\ r.spans[k].start =< r.spans[k].end
      BY <2>3, <3>1 DEF ResultShape
    <3> QED BY <3>1, <3>4, <3>5, <3>6
  <2>6. ASSUME NEW m \in Ancestors[n] \cap DOMAIN r.spans
        PROVE  r.spans[m].end =< r.spans[n].start
    <3>1. CASE m \in on[n].incoming
      BY <2>4, <3>1
    <3>2. CASE m \notin on[n].incoming
      <4>1. PICK k \in on[n].incoming : m \in Ancestors[k]
        BY <1>2, <2>3, <3>2
      <4>2. r.spans[m].end =< r.spans[k].start
        BY <2>5, <4>1 DEF InTime
      <4>3. r.spans[m].end \in Int
        BY DEF ResultShape
      <4> QED BY <2>5, <4>2, <4>3
    <3> QED BY <3>1, <3>2
  <2>7. ASSUME NEW m \in Ancestors[n] \cup {n}, Conditioned(m)
        PROVE  /\ circuit.ops[m].reads \in DOMAIN r.measured
               /\ r.spans[n].start >= r.measured[circuit.ops[m].reads] + pace.latency
               /\ r.spans[n].start >= r.records[circuit.ops[m].reads].at
    <3> DEFINE ref == circuit.ops[m].reads
    <3>0. Asked(m) = ref
      BY <1>2, <2>3, <2>7
    <3> HIDE DEF ref
    <3>1. CASE ref \in on[n].conditions
      <4>1. HeardInTime(n, ref, r)
        BY <2>4, <3>1
      <4> QED BY <4>1 DEF HeardInTime, ref
    <3>2. CASE ref \notin on[n].conditions
      <4>1. PICK k \in on[n].incoming : m \in Ancestors[k] \cup {k}
        BY <1>2, <2>3, <2>7, <3>0, <3>2
      <4>2. /\ ref \in DOMAIN r.measured
            /\ r.spans[k].start >= r.measured[ref] + pace.latency
            /\ r.spans[k].start >= r.records[ref].at
        BY <2>5, <2>7, <4>1 DEF InTime, ref
      <4>3. r.measured[ref] \in Int /\ r.records[ref].at \in Int
        BY <4>2 DEF ResultShape
      <4>4. /\ r.spans[n].start >= r.measured[ref] + pace.latency
            /\ r.spans[n].start >= r.records[ref].at
        BY <1>3, <2>5, <4>2, <4>3
      <4> QED BY <4>2, <4>4 DEF ref
    <3> QED BY <3>1, <3>2
  <2>8. InTime(n, r)
    BY <2>6, <2>7 DEF InTime
  <2> QED BY <2>3, <2>8
<1> QED BY <1>1, <1>4, <1>5

\* The timing checks accept a result exactly if it is right.
THEOREM AcceptsIsRight ==
  ASSUME InputOK, NEW r, ResultShape(r)
  PROVE  Accepts(r) <=> Right(r)
<1>1. /\ \A n \in Nodes : Conditioned(n) => Asked(n) = circuit.ops[n].reads
      /\ \A n \in Nodes : Conditioned(n) <=> circuit.ops[n].reads # NoRead
  BY InputFacts DEF Conditioned
<1>2. DOMAIN r.spans \subseteq Nodes /\ DOMAIN r.decisions \subseteq Nodes
  BY DEF ResultShape
<1> DEFINE Decided(n) ==
             LET reads == circuit.ops[n].reads IN
             /\ reads # NoRead => reads \in DOMAIN r.records
             /\ LET taken == reads # NoRead => r.records[reads].value = Wants(n)
                    plain == Name(n) \in {"barrier", "global_phase"}
                IN  /\ n \in DOMAIN r.spans <=> taken /\ ~plain
                    /\ r.decisions[n].status = IF ~taken THEN "skipped"
                                               ELSE IF plain THEN "metadata" ELSE "emitted"
           SameTimes(n) == r.decisions[n].start = r.spans[n].start
                           /\ r.decisions[n].end = r.spans[n].end
           Later == \A ref \in DOMAIN r.measured : r.records[ref].at >= r.measured[ref] + pace.latency
<1>3. ASSUME NEW n \in Nodes
      PROVE  DecidedAsRead(n, r) /\ RecordedAsRun(n, r) <=>
               n \in DOMAIN r.decisions /\ Decided(n) /\ (n \in DOMAIN r.spans => SameTimes(n))
  <2> DEFINE reads == circuit.ops[n].reads
             plain == Name(n) \in {"barrier", "global_phase"}
  <2>1. /\ Conditioned(n) <=> reads # NoRead
        /\ reads # NoRead => Asked(n) = reads
    BY <1>1
  <2>2. Expected(n, r) = IF reads # NoRead /\ r.records[reads].value # Wants(n) THEN "skipped"
                         ELSE IF plain THEN "metadata" ELSE "emitted"
    BY <2>1 DEF Expected
  <2>3. DecidedAsRead(n, r) <=>
          /\ reads # NoRead => reads \in DOMAIN r.records
          /\ n \in DOMAIN r.decisions =>
               /\ r.decisions[n].status = Expected(n, r)
               /\ (n \in DOMAIN r.spans) <=> (Expected(n, r) = "emitted")
    BY <2>1 DEF DecidedAsRead
  <2>4. RecordedAsRun(n, r) <=> n \in DOMAIN r.decisions /\ (n \in DOMAIN r.spans => SameTimes(n))
    BY DEF RecordedAsRun
  <2> QED BY <2>2, <2>3, <2>4
<1>4. Accepts(r) <=> /\ DependenciesKept(r) /\ DOMAIN r.records = DOMAIN r.measured /\ Later
                     /\ \A n \in Nodes : /\ n \in DOMAIN r.decisions /\ Decided(n)
                                         /\ n \in DOMAIN r.spans => SameTimes(n)
  <2> HIDE DEF Decided, SameTimes
  <2> QED BY <1>3 DEF Accepts, BitsRecorded
<1>5. Right(r) <=> /\ DOMAIN r.decisions = Nodes /\ DOMAIN r.records = DOMAIN r.measured
                   /\ \A n \in Nodes : Decided(n)
                   /\ \A n \in DOMAIN r.spans :
                        /\ SameTimes(n)
                        /\ \A m \in Ancestors[n] \cap DOMAIN r.spans : r.spans[m].end =< r.spans[n].start
                        /\ \A m \in Ancestors[n] \cup {n} : circuit.ops[m].reads # NoRead =>
                             /\ r.spans[n].start >= r.measured[circuit.ops[m].reads] + pace.latency
                             /\ r.spans[n].start >= r.records[circuit.ops[m].reads].at
                   /\ Later
  BY DEF Right
<1>6. ASSUME DOMAIN r.records = DOMAIN r.measured, \A n \in Nodes : Decided(n)
      PROVE  DependenciesKept(r) <=>
               \A n \in DOMAIN r.spans :
                 /\ \A m \in Ancestors[n] \cap DOMAIN r.spans : r.spans[m].end =< r.spans[n].start
                 /\ \A m \in Ancestors[n] \cup {n} : circuit.ops[m].reads # NoRead =>
                      /\ r.spans[n].start >= r.measured[circuit.ops[m].reads] + pace.latency
                      /\ r.spans[n].start >= r.records[circuit.ops[m].reads].at
  <2>1. DependenciesKept(r) <=> \A n \in DOMAIN r.spans : InTime(n, r)
    BY <1>6, KeptIsInTime
  <2>2. \A n \in DOMAIN r.spans : \A m \in Ancestors[n] \cup {n} :
          /\ m \in Nodes
          /\ Conditioned(m) <=> circuit.ops[m].reads # NoRead
          /\ Conditioned(m) => circuit.ops[m].reads \in DOMAIN r.measured
    <3>1. \A n \in DOMAIN r.spans : \A m \in Ancestors[n] \cup {n} : m \in Nodes
      BY <1>2, AncestorFacts
    <3> QED BY <1>1, <1>6, <3>1
  <2> HIDE DEF Decided
  <2> QED BY <2>1, <2>2 DEF InTime
<1> HIDE DEF Decided, SameTimes, Later
<1> QED BY <1>2, <1>4, <1>5, <1>6

-----------------------------------------------------------------------------
(* What the compiler returns is right.                                       *)

\* Every operation is decided within the time that has passed, as its branch and
\* name say, after those before it and after its bit.
Timed ==
  /\ \A n \in DOMAIN decisions :
       LET d == decisions[n] IN
       /\ d.start \in Nat /\ d.end \in Nat /\ d.start =< d.end /\ d.end =< clock
       /\ d.status = StatusOf(n)
       /\ \A m \in Predecessors(n) : decisions[m].end =< d.start
       /\ Conditioned(n) => /\ circuit.ops[n].reads \in DOMAIN records
                            /\ records[circuit.ops[n].reads].at =< d.start
  /\ \A r \in DOMAIN records :
       /\ records[r].end \in Nat /\ records[r].at = records[r].end + pace.latency

\* A step that commits operations keeps it.
LEMMA CommitTimed ==
  ASSUME LoopInv, Timed, UNCHANGED input, Commits
  PROVE  Timed'
<1>1. /\ Fresh \subseteq TimeReady /\ clock \in Nat /\ clock' \in Nat /\ clock =< clock'
      /\ DOMAIN decisions' = DOMAIN decisions \cup Fresh
      /\ \A n \in DOMAIN decisions : decisions'[n] = decisions[n]
      /\ \A n \in Fresh : decisions'[n].status = StatusOf(n) /\ TimesFit(n)
      /\ DOMAIN records' = DOMAIN records \cup (Fresh \cap Made)
      /\ \A r \in DOMAIN records : records'[r] = records[r]
      /\ \A r \in Fresh \cap Made :
           records'[r].end \in Nat /\ records'[r].at = records'[r].end + pace.latency
  BY DEF Commits, Fresh, LoopInv, Recording
<1>2. /\ \A n : Predecessors(n)' = Predecessors(n)
      /\ \A n : StatusOf(n)' = StatusOf(n)
      /\ \A n : Conditioned(n)' <=> Conditioned(n)
      /\ circuit' = circuit /\ pace' = pace
  BY SameInput DEF StatusOf, OnBranch, Name, input
<1>3. \A n \in DOMAIN decisions : Predecessors(n) \subseteq DOMAIN decisions
  BY DEF LoopInv, Progress
<1> DEFINE Fine(n) ==
             LET d == decisions'[n] IN
             /\ d.start \in Nat /\ d.end \in Nat /\ d.start =< d.end /\ d.end =< clock'
             /\ d.status = StatusOf(n)
             /\ \A m \in Predecessors(n) : decisions'[m].end =< d.start
             /\ Conditioned(n) => /\ circuit.ops[n].reads \in DOMAIN records'
                                  /\ records'[circuit.ops[n].reads].at =< d.start
<1>4. ASSUME NEW n \in DOMAIN decisions PROVE Fine(n)
  <2>1. /\ decisions'[n] = decisions[n] /\ decisions[n].end \in Nat /\ decisions[n].end =< clock
        /\ decisions[n].start \in Nat /\ decisions[n].start =< decisions[n].end
        /\ decisions[n].status = StatusOf(n)
    BY <1>1 DEF Timed
  <2>2. \A m \in Predecessors(n) : decisions'[m].end =< decisions[n].start
    BY <1>1, <1>3 DEF Timed
  <2>3. Conditioned(n) => /\ circuit.ops[n].reads \in DOMAIN records'
                          /\ records'[circuit.ops[n].reads].at =< decisions[n].start
    BY <1>1 DEF Timed
  <2>4. decisions[n].end =< clock'
    BY <1>1, <2>1
  <2> QED BY <2>1, <2>2, <2>3, <2>4
<1>5. ASSUME NEW n \in Fresh PROVE Fine(n)
  <2>1. /\ n \in Nodes /\ n \in ready
        /\ Conditioned(n) => /\ circuit.ops[n].reads \in DOMAIN records
                             /\ records[circuit.ops[n].reads].at =< clock
    BY <1>1, EnabledIsOnBranch
  <2>2. /\ decisions'[n].start \in Nat /\ decisions'[n].end \in Nat
        /\ clock =< decisions'[n].start /\ decisions'[n].start =< decisions'[n].end
        /\ decisions'[n].end =< clock' /\ decisions'[n].status = StatusOf(n)
    BY <1>1 DEF TimesFit
  <2>3. ASSUME NEW m \in Predecessors(n) PROVE decisions'[m].end =< decisions'[n].start
    <3>1. m \in DOMAIN decisions
      BY <2>1 DEF LoopInv, Progress
    <3>2. decisions'[m] = decisions[m] /\ decisions[m].end \in Nat /\ decisions[m].end =< clock
      BY <1>1, <3>1 DEF Timed
    <3> QED BY <1>1, <2>2, <3>2
  <2>4. ASSUME Conditioned(n)
        PROVE  /\ circuit.ops[n].reads \in DOMAIN records'
               /\ records'[circuit.ops[n].reads].at =< decisions'[n].start
    <3> DEFINE ref == circuit.ops[n].reads
    <3>1. ref \in DOMAIN records /\ records[ref].at =< clock
      BY <2>1, <2>4
    <3> HIDE DEF ref
    <3>2. records[ref].at \in Nat
      BY <3>1 DEF LoopInv, Recording
    <3>3. records'[ref].at =< decisions'[n].start /\ ref \in DOMAIN records'
      BY <1>1, <2>2, <3>1, <3>2
    <3> QED BY <3>3 DEF ref
  <2> QED BY <2>2, <2>3, <2>4
<1>6. \A n \in DOMAIN decisions' : Fine(n)
  <2> HIDE DEF Fine
  <2> QED BY <1>1, <1>4, <1>5
<1>7. \A r \in DOMAIN records' :
        records'[r].end \in Nat /\ records'[r].at = records'[r].end + pace.latency
  BY <1>1 DEF Timed
<1> QED BY <1>2, <1>6, <1>7 DEF Timed

\* Waiting keeps it.
LEMMA WaitTimed ==
  ASSUME LoopInv, Timed, UNCHANGED input, WaitUntil
  PROVE  Timed'
<1>1. /\ records' = records /\ decisions' = decisions /\ clock' = Min(Pending) /\ Pending # {}
      /\ ready' = ready
  BY DEF WaitUntil
<1>2. \A t \in Pending : t \in Nat /\ clock =< t
  <2>1. ASSUME NEW m \in ready, Recorded(m), ~Available(m)
        PROVE records[Asked(m)].at \in Nat /\ clock =< records[Asked(m)].at
    <3>1. Asked(m) \in DOMAIN records /\ ~(records[Asked(m)].at =< clock)
      BY <2>1 DEF Available, Recorded
    <3>2. records[Asked(m)].at \in Nat /\ clock \in Nat
      BY <3>1 DEF LoopInv, Recording
    <3> QED BY <3>1, <3>2
  <2> QED BY <2>1 DEF Pending
<1>3. clock \in Nat /\ clock' \in Nat /\ clock =< clock'
  <2>1. Pending \in SUBSET Nat
    BY <1>2
  <2>2. Min(Pending) \in Pending
    BY <1>1, <2>1, MinOfNaturals
  <2> QED BY <1>1, <1>2, <2>2 DEF LoopInv, Recording
<1>4. /\ \A n : Predecessors(n)' = Predecessors(n)
      /\ \A n : StatusOf(n)' = StatusOf(n)
      /\ \A n : Conditioned(n)' <=> Conditioned(n)
      /\ circuit' = circuit /\ pace' = pace
  BY SameInput DEF StatusOf, OnBranch, Name, input
<1>5. \A n \in DOMAIN decisions : decisions[n].end =< clock'
  <2>1. \A n \in DOMAIN decisions : decisions[n].end \in Nat /\ decisions[n].end =< clock
    BY DEF Timed
  <2> QED BY <1>3, <2>1
<1> QED BY <1>1, <1>4, <1>5 DEF Timed

\* When the loop is done, what it returns is of the shape of results, and right.
LEMMA ReturnedIsRight ==
  ASSUME LoopInv, Timed, Compiled
  PROVE  ResultShape(Returned) /\ Right(Returned)
<1> DEFINE r == Returned
<1>0. InputOK /\ pace.latency \in Nat /\ Nodes \subseteq Nat
  BY InputFacts DEF LoopInv
<1>1. DOMAIN decisions = Nodes
  <2> DEFINE left == Nodes \ DOMAIN decisions
  <2> SUFFICES ASSUME left # {} PROVE FALSE
    BY DEF LoopInv, Progress
  <2> DEFINE n == Min(left)
  <2>1. left \in SUBSET Nat
    BY <1>0
  <2>2. n \in left /\ \A m \in left : n =< m
    <3> HIDE DEF left
    <3> QED BY <2>1, MinOfNaturals
  <2> HIDE DEF n
  <2>3. ASSUME NEW m \in Predecessors(n) PROVE m \in DOMAIN decisions
    <3>1. m \in Nodes /\ m < n
      BY <1>0, <2>2, InputFacts
    <3>2. ~(n =< m)
      <4>1. m \in Nat /\ n \in Nat
        BY <1>0, <2>2, <3>1
      <4> QED BY <3>1, <4>1
    <3> QED BY <2>2, <3>1, <3>2
  <2>4. n \in ready
    BY <2>2, <2>3 DEF LoopInv, Progress
  <2> QED BY <2>4 DEF Compiled
<1>a. /\ DOMAIN r = {"decisions", "spans", "measured", "records"}
      /\ \A n \in DOMAIN r.spans : DOMAIN r.spans[n] = {"start", "end"}
      /\ \A ref \in DOMAIN r.records : DOMAIN r.records[ref] = {"value", "at"}
  BY DEF Returned
<1>2. /\ r.decisions = decisions
      /\ DOMAIN r.spans = {m \in DOMAIN decisions : decisions[m].status = "emitted"}
      /\ \A n \in DOMAIN r.spans : /\ r.spans[n].start = decisions[n].start
                                  /\ r.spans[n].end = decisions[n].end
      /\ DOMAIN r.measured = DOMAIN records /\ DOMAIN r.records = DOMAIN records
      /\ \A ref \in DOMAIN records : /\ r.measured[ref] = records[ref].end
                                     /\ r.records[ref].value = records[ref].value
                                     /\ r.records[ref].at = records[ref].at
  BY DEF Returned
<1> HIDE DEF r
<1>3. /\ DOMAIN records = Made
      /\ \A ref \in DOMAIN records : /\ records[ref].value = bits[ref] /\ records[ref].at \in Nat
                                     /\ records[ref].end \in Nat
                                     /\ records[ref].at = records[ref].end + pace.latency
  <2>1. DOMAIN records = DOMAIN decisions \cap Made
    BY DEF LoopInv, Recording
  <2>2. Made \subseteq Nodes
    BY DEF Made, Measurements
  <2>3. DOMAIN records = Made
    BY <1>1, <2>1, <2>2
  <2> QED BY <2>3 DEF LoopInv, Recording, Timed
<1>4. ASSUME NEW n \in Nodes
      PROVE  /\ decisions[n].start \in Nat /\ decisions[n].end \in Nat
             /\ decisions[n].start =< decisions[n].end
             /\ decisions[n].status = StatusOf(n)
             /\ \A m \in Predecessors(n) : decisions[m].end =< decisions[n].start
             /\ Conditioned(n) => /\ circuit.ops[n].reads \in DOMAIN records
                                  /\ records[circuit.ops[n].reads].at =< decisions[n].start
  BY <1>1 DEF Timed
<1>5. ResultShape(r)
  <2>1. ASSUME NEW n \in DOMAIN r.spans
        PROVE  /\ r.spans[n].start \in Int /\ r.spans[n].end \in Int
               /\ r.spans[n].start =< r.spans[n].end
    <3>1. n \in Nodes
      BY <1>1, <1>2
    <3> QED BY <1>2, <1>4, <3>1
  <2>2. \A ref \in DOMAIN r.measured : r.measured[ref] \in Int
    BY <1>2, <1>3
  <2>3. \A ref \in DOMAIN r.records : r.records[ref].at \in Int
    BY <1>2, <1>3
  <2> QED BY <1>a, <1>1, <1>2, <2>1, <2>2, <2>3 DEF ResultShape
<1>6. ASSUME NEW n \in Nodes
      PROVE  \A m \in Ancestors[n] : decisions[m].end =< decisions[n].start
  <2> DEFINE Late(k) == \A m \in Ancestors[k] : decisions[m].end =< decisions[k].start
             wrong == {k \in Nodes : ~Late(k)}
  <2> SUFFICES ASSUME wrong # {} PROVE FALSE
    OBVIOUS
  <2> DEFINE k == Min(wrong)
  <2>1. wrong \in SUBSET Nat
    BY <1>0
  <2>2. k \in wrong /\ \A j \in wrong : k =< j
    <3> HIDE DEF wrong
    <3> QED BY <2>1, MinOfNaturals
  <2> HIDE DEF k
  <2>3. k \in Nodes /\ ~Late(k)
    BY <2>2
  <2>4. PICK m \in Ancestors[k] : ~(decisions[m].end =< decisions[k].start)
    BY <2>3
  <2>5. PICK p \in Predecessors(k) : m \in Ancestors[p]
    BY <1>0, <1>4, <2>3, <2>4, AncestorFacts
  <2>6. p \in Nodes /\ p < k
    BY <1>0, <2>3, InputFacts
  <2>7. p \notin wrong
    <3>1. p \in Nat /\ k \in Nat
      BY <1>0, <2>3, <2>6
    <3> QED BY <2>2, <2>6, <3>1
  <2>8. decisions[m].end =< decisions[p].start /\ decisions[p].end =< decisions[k].start
    BY <1>4, <2>3, <2>5, <2>6, <2>7
  <2>9. m \in Nodes
    BY <1>0, <2>5, <2>6, AncestorFacts
  <2> QED BY <1>4, <2>3, <2>4, <2>6, <2>8, <2>9
<1>7. ASSUME NEW n \in Nodes
      PROVE  LET reads == circuit.ops[n].reads IN
             /\ reads # NoRead => reads \in DOMAIN r.records
             /\ LET taken == reads # NoRead => r.records[reads].value = Wants(n)
                    plain == Name(n) \in {"barrier", "global_phase"}
                IN  /\ n \in DOMAIN r.spans <=> taken /\ ~plain
                    /\ r.decisions[n].status = IF ~taken THEN "skipped"
                                               ELSE IF plain THEN "metadata" ELSE "emitted"
  <2> DEFINE reads == circuit.ops[n].reads
             taken == reads # NoRead => r.records[reads].value = Wants(n)
  <2>1. reads # NoRead => reads \in DOMAIN records
    BY <1>4 DEF Conditioned
  <2>2. taken <=> OnBranch(n)
    <3>1. reads # NoRead => r.records[reads].value = bits[reads]
      BY <1>2, <1>3, <2>1
    <3> QED BY <3>1 DEF OnBranch, Conditioned
  <2>3. decisions[n].status = IF ~taken THEN "skipped"
                              ELSE IF Name(n) \in {"barrier", "global_phase"} THEN "metadata" ELSE "emitted"
    BY <1>4, <2>2 DEF StatusOf, Metadata
  <2>4. n \in DOMAIN r.spans <=> taken /\ ~(Name(n) \in {"barrier", "global_phase"})
    <3>1. n \in DOMAIN r.spans <=> decisions[n].status = "emitted"
      BY <1>1, <1>2
    <3> HIDE DEF taken
    <3> QED BY <2>3, <3>1
  <2> HIDE DEF taken
  <2>5. reads # NoRead => reads \in DOMAIN r.records
    BY <1>2, <2>1
  <2> QED BY <1>2, <2>3, <2>4, <2>5 DEF taken
<1>8. ASSUME NEW n \in DOMAIN r.spans
      PROVE  /\ n \in Nodes /\ r.spans[n].start = decisions[n].start /\ r.spans[n].end = decisions[n].end
  BY <1>1, <1>2
<1>9. ASSUME NEW n \in DOMAIN r.spans, NEW m \in Ancestors[n] \cup {n}
      PROVE  /\ m \in DOMAIN r.spans /\ m # n => r.spans[m].end =< r.spans[n].start
             /\ circuit.ops[m].reads # NoRead =>
                  /\ r.spans[n].start >= r.measured[circuit.ops[m].reads] + pace.latency
                  /\ r.spans[n].start >= r.records[circuit.ops[m].reads].at
  <2>1. n \in Nodes /\ m \in Nodes /\ r.spans[n].start = decisions[n].start
    BY <1>0, <1>8, AncestorFacts
  <2>2. m # n => decisions[m].end =< decisions[n].start
    BY <1>6, <2>1
  <2>3. decisions[m].start =< decisions[n].start
    BY <1>4, <2>1, <2>2
  <2>4. ASSUME circuit.ops[m].reads # NoRead
        PROVE  /\ r.spans[n].start >= r.measured[circuit.ops[m].reads] + pace.latency
               /\ r.spans[n].start >= r.records[circuit.ops[m].reads].at
    <3> DEFINE ref == circuit.ops[m].reads
    <3>1. ref \in DOMAIN records /\ records[ref].at =< decisions[m].start
      BY <1>4, <2>1, <2>4 DEF Conditioned
    <3> HIDE DEF ref
    <3>2. r.records[ref].at = records[ref].at /\ r.measured[ref] + pace.latency = records[ref].at
          /\ records[ref].at \in Nat
      BY <1>2, <1>3, <3>1
    <3>3. r.spans[n].start >= records[ref].at
      <4>1. decisions[m].start \in Nat /\ decisions[n].start \in Nat
        BY <1>4, <2>1
      <4> QED BY <2>1, <2>3, <3>1, <3>2, <4>1
    <3> QED BY <3>2, <3>3 DEF ref
  <2> QED BY <1>8, <2>1, <2>2, <2>4
<1>10. \A ref \in DOMAIN r.measured : r.records[ref].at >= r.measured[ref] + pace.latency
  BY <1>0, <1>2, <1>3
<1>11. \A n \in DOMAIN r.spans : \A m \in Ancestors[n] \cap DOMAIN r.spans :
         r.spans[m].end =< r.spans[n].start
  <2>1. ASSUME NEW n \in DOMAIN r.spans, NEW m \in Ancestors[n] \cap DOMAIN r.spans
        PROVE  m # n
    <3>1. n \in Nodes /\ m < n
      BY <1>0, <1>8, AncestorFacts
    <3>2. n \in Nat
      BY <1>0, <3>1
    <3> QED BY <3>1, <3>2
  <2> QED BY <1>9, <2>1
<1>12. Right(r)
  <2>1. \A n \in DOMAIN r.spans : /\ r.decisions[n].start = r.spans[n].start
                                  /\ r.decisions[n].end = r.spans[n].end
    BY <1>2, <1>8
  <2>2. \A n \in DOMAIN r.spans : \A m \in Ancestors[n] \cup {n} : circuit.ops[m].reads # NoRead =>
          /\ r.spans[n].start >= r.measured[circuit.ops[m].reads] + pace.latency
          /\ r.spans[n].start >= r.records[circuit.ops[m].reads].at
    BY <1>9
  <2>3. DOMAIN r.decisions = Nodes /\ DOMAIN r.records = DOMAIN r.measured
    BY <1>1, <1>2
  <2> QED BY <1>7, <1>10, <1>11, <2>1, <2>2, <2>3 DEF Right
<1> QED BY <1>5, <1>12 DEF r

\* An operation's actions moved as a whole.
LEMMA MovedSpan ==
  ASSUME NEW span, span.start \in Int, span.end \in Int, span.start =< span.end,
         DOMAIN span = {"start", "end"}, NEW by \in {1, 0 - 1}
  PROVE  LET moved == Moved(span, by) IN
         /\ moved.start \in Int /\ moved.end \in Int /\ moved.start =< moved.end
         /\ DOMAIN moved = {"start", "end"}
<1>1. /\ Moved(span, by).start = span.start + by /\ Moved(span, by).end = span.end + by
      /\ DOMAIN Moved(span, by) = DOMAIN span
  BY DEF Moved
<1>2. by \in Int
  OBVIOUS
<1>3. span.start + by \in Int /\ span.end + by \in Int /\ span.start + by =< span.end + by
  BY <1>2
<1> QED BY <1>1, <1>3

\* Any alteration of a result is of the shape of results.
LEMMA NearKeepsShape ==
  ASSUME NEW r, ResultShape(r), NEW s \in Near(r)
  PROVE  ResultShape(s)
<1> DEFINE forth == {1, 0 - 1}
           Same(f) == s[f] = r[f]
           SpansFine(spans) ==
             /\ DOMAIN spans \subseteq Nodes
             /\ \A n \in DOMAIN spans : /\ spans[n].start \in Int /\ spans[n].end \in Int
                                        /\ spans[n].start =< spans[n].end
                                        /\ DOMAIN spans[n] = {"start", "end"}
           DecisionsFine(decided) == DOMAIN decided \subseteq Nodes
           MeasuredFine(measured) == \A ref \in DOMAIN measured : measured[ref] \in Int
           RecordsFine(recorded) ==
             \A ref \in DOMAIN recorded : recorded[ref].at \in Int
                                          /\ DOMAIN recorded[ref] = {"value", "at"}
           Fields == {"decisions", "spans", "measured", "records"}
<1>1. \A q : ResultShape(q) <=> /\ DOMAIN q = Fields
                                /\ SpansFine(q.spans) /\ DecisionsFine(q.decisions)
                                /\ MeasuredFine(q.measured) /\ RecordsFine(q.records)
  BY DEF ResultShape
<1>2. /\ DOMAIN r = Fields
      /\ SpansFine(r.spans) /\ DecisionsFine(r.decisions)
      /\ MeasuredFine(r.measured) /\ RecordsFine(r.records)
  BY <1>1
<1>3. ASSUME NEW n \in DOMAIN r.spans, NEW by \in forth
      PROVE  SpansFine([r.spans EXCEPT ![n] = Moved(r.spans[n], by)])
  <2> DEFINE moved == [r.spans EXCEPT ![n] = Moved(r.spans[n], by)]
  <2>1. DOMAIN moved = DOMAIN r.spans /\ moved[n] = Moved(r.spans[n], by)
        /\ \A m \in DOMAIN r.spans : m # n => moved[m] = r.spans[m]
    OBVIOUS
  <2>2. /\ Moved(r.spans[n], by).start \in Int /\ Moved(r.spans[n], by).end \in Int
        /\ Moved(r.spans[n], by).start =< Moved(r.spans[n], by).end
        /\ DOMAIN Moved(r.spans[n], by) = {"start", "end"}
    <3>1. /\ r.spans[n].start \in Int /\ r.spans[n].end \in Int
          /\ r.spans[n].start =< r.spans[n].end /\ DOMAIN r.spans[n] = {"start", "end"}
      BY <1>2
    <3> QED BY <3>1, MovedSpan
  <2> HIDE DEF moved
  <2>3. ASSUME NEW m \in DOMAIN moved
        PROVE  /\ moved[m].start \in Int /\ moved[m].end \in Int
               /\ moved[m].start =< moved[m].end
               /\ DOMAIN moved[m] = {"start", "end"}
    <3>1. CASE m = n
      BY <2>1, <2>2, <3>1
    <3>2. CASE m # n
      BY <1>2, <2>1, <3>2
    <3> QED BY <3>1, <3>2
  <2>4. SpansFine(moved)
    BY <1>2, <2>1, <2>3
  <2> QED BY <2>4 DEF moved
<1>4. \A f, x : /\ DOMAIN Without(f, x) \subseteq DOMAIN f
                 /\ \A y \in DOMAIN Without(f, x) : Without(f, x)[y] = f[y]
  BY DEF Without
<1> HIDE DEF SpansFine, DecisionsFine, MeasuredFine, RecordsFine
<1>5. ASSUME NEW f \in Fields, NEW v, s = [r EXCEPT ![f] = v]
      PROVE  /\ DOMAIN s = Fields /\ s[f] = v
             /\ \A g \in Fields : g # f => s[g] = r[g]
  BY <1>2, <1>5
<1>6. CASE \E n \in DOMAIN r.spans, by \in forth : s = [r EXCEPT !.spans[n] = Moved(@, by)]
  <2>1. PICK n \in DOMAIN r.spans, by \in forth : s = [r EXCEPT !.spans = [r.spans EXCEPT ![n] = Moved(r.spans[n], by)]]
    BY <1>6
  <2>2. SpansFine([r.spans EXCEPT ![n] = Moved(r.spans[n], by)])
    BY <1>3
  <2> QED BY <1>1, <1>2, <1>5, <2>1, <2>2
<1>7. CASE \E n \in DOMAIN r.spans, by \in forth :
        s = Rerun(r, n, by)
  <2>1. PICK n \in DOMAIN r.spans, by \in forth : s = Rerun(r, n, by)
    BY <1>7
  <2> DEFINE moved == [r.spans EXCEPT ![n] = Moved(r.spans[n], by)]
             half == [r EXCEPT !.spans = moved]
  <2>2. DOMAIN half = Fields /\ half.spans = moved /\ half.decisions = r.decisions
        /\ half.measured = r.measured /\ half.records = r.records
    BY <1>2
  <2>3. PICK v : s = [half EXCEPT !.decisions = [half.decisions EXCEPT ![n] = v]]
    BY <2>1 DEF Rerun
  <2>4. SpansFine(moved)
    BY <1>3
  <2> HIDE DEF moved, half
  <2>5. /\ DOMAIN s = Fields /\ s.spans = moved
        /\ s.decisions = [r.decisions EXCEPT ![n] = v]
        /\ s.measured = r.measured /\ s.records = r.records
    BY <2>2, <2>3
  <2>6. DecisionsFine([r.decisions EXCEPT ![n] = v])
    BY <1>2 DEF DecisionsFine
  <2> QED BY <1>1, <1>2, <2>4, <2>5, <2>6
<1>8. CASE \E n \in DOMAIN r.spans : s = [r EXCEPT !.spans = Without(@, n)]
  <2>1. PICK n \in DOMAIN r.spans : s = [r EXCEPT !.spans = Without(r.spans, n)]
    BY <1>8
  <2> DEFINE rest == Without(r.spans, n)
  <2>3. DOMAIN rest \subseteq DOMAIN r.spans /\ \A y \in DOMAIN rest : rest[y] = r.spans[y]
    BY <1>4
  <2> HIDE DEF rest
  <2>2. SpansFine(rest)
    BY <1>2, <2>3 DEF SpansFine
  <2> QED BY <1>1, <1>2, <1>5, <2>1, <2>2 DEF rest
<1>9. CASE \E n \in DOMAIN r.decisions : \E t \in {"emitted", "skipped", "metadata"} :
        s = [r EXCEPT !.decisions[n].status = t]
  <2>1. PICK n \in DOMAIN r.decisions, t \in {"emitted", "skipped", "metadata"} :
          s = [r EXCEPT !.decisions =
                  [r.decisions EXCEPT ![n] = [r.decisions[n] EXCEPT !.status = t]]]
    BY <1>9
  <2>2. DecisionsFine([r.decisions EXCEPT ![n] = [r.decisions[n] EXCEPT !.status = t]])
    BY <1>2 DEF DecisionsFine
  <2> QED BY <1>1, <1>2, <1>5, <2>1, <2>2
<1>10. CASE \E n \in DOMAIN r.decisions : s = [r EXCEPT !.decisions = Without(@, n)]
  <2>1. PICK n \in DOMAIN r.decisions : s = [r EXCEPT !.decisions = Without(r.decisions, n)]
    BY <1>10
  <2> DEFINE rest == Without(r.decisions, n)
  <2>3. DOMAIN rest \subseteq DOMAIN r.decisions /\ \A y \in DOMAIN rest : rest[y] = r.decisions[y]
    BY <1>4
  <2> HIDE DEF rest
  <2>2. DecisionsFine(rest)
    BY <1>2, <2>3 DEF DecisionsFine
  <2> QED BY <1>1, <1>2, <1>5, <2>1, <2>2 DEF rest
<1>11. CASE \E ref \in DOMAIN r.records : s = [r EXCEPT !.records[ref].value = 1 - @]
  <2>1. PICK ref \in DOMAIN r.records :
          s = [r EXCEPT !.records =
                  [r.records EXCEPT ![ref] = [r.records[ref] EXCEPT !.value = 1 - r.records[ref].value]]]
    BY <1>11
  <2> DEFINE recorded == [r.records EXCEPT ![ref] = [r.records[ref] EXCEPT !.value = 1 - r.records[ref].value]]
  <2>2. /\ DOMAIN recorded = DOMAIN r.records
        /\ \A q \in DOMAIN r.records : recorded[q].at = r.records[q].at
                                       /\ DOMAIN recorded[q] = DOMAIN r.records[q]
    OBVIOUS
  <2> HIDE DEF recorded
  <2>3. RecordsFine(recorded)
    BY <1>2, <2>2 DEF RecordsFine
  <2> QED BY <1>1, <1>2, <1>5, <2>1, <2>3 DEF recorded
<1>12. CASE \E ref \in DOMAIN r.records, by \in forth : s = [r EXCEPT !.records[ref].at = @ + by]
  <2>1. PICK ref \in DOMAIN r.records, by \in forth :
          s = [r EXCEPT !.records =
                  [r.records EXCEPT ![ref] = [r.records[ref] EXCEPT !.at = r.records[ref].at + by]]]
    BY <1>12
  <2> DEFINE recorded == [r.records EXCEPT ![ref] = [r.records[ref] EXCEPT !.at = r.records[ref].at + by]]
  <2>2. /\ DOMAIN recorded = DOMAIN r.records
        /\ \A q \in DOMAIN r.records : q # ref => recorded[q] = r.records[q]
        /\ recorded[ref] = [r.records[ref] EXCEPT !.at = @ + by]
    OBVIOUS
  <2> HIDE DEF recorded
  <2>3. r.records[ref].at \in Int /\ DOMAIN r.records[ref] = {"value", "at"}
    BY <1>2 DEF RecordsFine
  <2>4. recorded[ref].at = r.records[ref].at + by /\ DOMAIN recorded[ref] = {"value", "at"}
    BY <2>2, <2>3
  <2>5. recorded[ref].at \in Int
    BY <2>3, <2>4
  <2>6. RecordsFine(recorded)
    BY <1>2, <2>2, <2>4, <2>5 DEF RecordsFine
  <2> QED BY <1>1, <1>2, <1>5, <2>1, <2>6 DEF recorded
<1>13. CASE \E ref \in DOMAIN r.records : s = [r EXCEPT !.records = Without(@, ref)]
  <2>1. PICK ref \in DOMAIN r.records : s = [r EXCEPT !.records = Without(r.records, ref)]
    BY <1>13
  <2> DEFINE rest == Without(r.records, ref)
  <2>3. DOMAIN rest \subseteq DOMAIN r.records /\ \A y \in DOMAIN rest : rest[y] = r.records[y]
    BY <1>4
  <2> HIDE DEF rest
  <2>2. RecordsFine(rest)
    BY <1>2, <2>3 DEF RecordsFine
  <2> QED BY <1>1, <1>2, <1>5, <2>1, <2>2 DEF rest
<1>14. CASE \E ref \in DOMAIN r.measured : s = [r EXCEPT !.measured = Without(@, ref)]
  <2>1. PICK ref \in DOMAIN r.measured : s = [r EXCEPT !.measured = Without(r.measured, ref)]
    BY <1>14
  <2> DEFINE rest == Without(r.measured, ref)
  <2>3. DOMAIN rest \subseteq DOMAIN r.measured /\ \A y \in DOMAIN rest : rest[y] = r.measured[y]
    BY <1>4
  <2> HIDE DEF rest
  <2>2. MeasuredFine(rest)
    BY <1>2, <2>3 DEF MeasuredFine
  <2> QED BY <1>1, <1>2, <1>5, <2>1, <2>2 DEF rest
<1>15. CASE s \in NearSpans(r)
  <2>1. \/ \E n \in DOMAIN r.spans, by \in forth : s = [r EXCEPT !.spans[n] = Moved(@, by)]
        \/ \E n \in DOMAIN r.spans : s = [r EXCEPT !.spans = Without(@, n)]
    BY <1>15 DEF NearSpans, Forth
  <2> QED BY <1>6, <1>8, <2>1
<1>16. CASE s \in NearRuns(r)
  BY <1>7, <1>16 DEF NearRuns, Forth
<1>17. CASE s \in NearDecisions(r)
  <2>1. \/ \E n \in DOMAIN r.decisions : \E t \in {"emitted", "skipped", "metadata"} :
             s = [r EXCEPT !.decisions[n].status = t]
        \/ \E n \in DOMAIN r.decisions : s = [r EXCEPT !.decisions = Without(@, n)]
    BY <1>17 DEF NearDecisions
  <2> QED BY <1>9, <1>10, <2>1
<1>18. CASE s \in NearRecords(r)
  <2>1. \/ \E ref \in DOMAIN r.records : s = [r EXCEPT !.records[ref].value = 1 - @]
        \/ \E ref \in DOMAIN r.records, by \in forth : s = [r EXCEPT !.records[ref].at = @ + by]
        \/ \E ref \in DOMAIN r.records : s = [r EXCEPT !.records = Without(@, ref)]
        \/ \E ref \in DOMAIN r.measured : s = [r EXCEPT !.measured = Without(@, ref)]
    BY <1>18 DEF NearRecords, Forth
  <2> QED BY <1>11, <1>12, <1>13, <1>14, <2>1
<1> QED BY <1>15, <1>16, <1>17, <1>18 DEF Near

\* What is checked is what the compiler returned, or was altered since.
ResultInv ==
  /\ Timed /\ alterations \in Nat
  /\ result # NoResult => \/ Compiled /\ result = Returned
                          \/ alterations > 0 /\ ResultShape(result)

\* In the beginning nothing is decided and nothing returned.
LEMMA ResultInit ==
  ASSUME Init
  PROVE  ResultInv
<1>1. DOMAIN decisions = {} /\ DOMAIN records = {}
  BY DEF Init, CompilationInit, Nothing
<1>2. Timed
  BY <1>1 DEF Timed
<1> QED BY <1>2 DEF Init, ResultInv

\* What is checked is of the shape of results.
LEMMA CheckedShape ==
  ASSUME CircuitInv, ResultInv, result # NoResult
  PROVE  ResultShape(result)
<1>1. CASE Compiled /\ result = Returned
  BY <1>1, ReturnedIsRight DEF CircuitInv, ResultInv
<1>2. CASE ResultShape(result)
  BY <1>2
<1> QED BY <1>1, <1>2 DEF ResultInv

\* While the loop stands still, its decisions keep their times.
LEMMA StandsTimed ==
  ASSUME Timed, UNCHANGED <<input, compilation>>
  PROVE  Timed'
<1>1. /\ clock' = clock /\ records' = records /\ decisions' = decisions
      /\ circuit' = circuit /\ bits' = bits /\ pace' = pace
  BY DEF compilation, input
<1>2. /\ \A n : Predecessors(n)' = Predecessors(n)
      /\ \A n : Conditioned(n)' <=> Conditioned(n)
  BY SameInput DEF input
<1>3. \A n : StatusOf(n)' = StatusOf(n)
  BY <1>1, <1>2 DEF StatusOf, OnBranch, Name, Wants
<1> QED BY <1>1, <1>2, <1>3 DEF Timed

\* Every step leaves a result of the compiler or an alteration of one.
LEMMA ResultStep ==
  ASSUME CircuitInv, ResultInv, [Next]_vars
  PROVE  ResultInv'
<1>1. ASSUME UNCHANGED <<input, compilation, result, alterations>>
      PROVE  ResultInv'
  <2>1. Timed'
    BY <1>1, StandsTimed DEF ResultInv
  <2>2. Returned' = Returned /\ Compiled' = Compiled /\ Nodes' = Nodes
    BY <1>1 DEF compilation, input, Returned, Compiled, Nodes
  <2>3. result' = result /\ alterations' = alterations
    BY <1>1
  <2>4. ResultShape(result)' <=> ResultShape(result)
    BY <2>2, <2>3 DEF ResultShape
  <2> QED BY <2>1, <2>2, <2>3, <2>4 DEF ResultInv
<1>2. CASE Execute
  BY <1>1, <1>2 DEF Execute
<1>3. CASE Compile
  <2>1. /\ CompilationStep /\ UNCHANGED input /\ alterations' = alterations
        /\ result' = IF Compiled' THEN Returned' ELSE NoResult
    BY <1>3 DEF Compile, input
  <2>2. LoopInv /\ Timed
    BY DEF CircuitInv, ResultInv
  <2>3. Timed'
    BY <2>1, <2>2, MetadataCommits, LayerCommits, CommitTimed, WaitTimed DEF CompilationStep
  <2>4. result' # NoResult => Compiled' /\ result' = Returned'
    BY <2>1
  <2>5. NoResult' = NoResult
    OBVIOUS
  <2> QED BY <2>1, <2>3, <2>4 DEF ResultInv
<1>4. CASE Alter
  <2>1. /\ result # NoResult /\ result' \in Near(result) /\ alterations' = alterations + 1
        /\ UNCHANGED <<input, compilation>>
    BY <1>4 DEF Alter
  <2>2. ResultShape(result')
    BY <2>1, CheckedShape, NearKeepsShape
  <2>3. Nodes' = Nodes
    BY <2>1, SameInput
  <2>4. ResultShape(result)'
    BY <2>2, <2>3 DEF ResultShape
  <2>5. Timed'
    BY <2>1, StandsTimed DEF ResultInv
  <2>6. alterations' \in Nat /\ alterations' > 0
    BY <2>1 DEF ResultInv
  <2> QED BY <2>4, <2>5, <2>6 DEF ResultInv
<1>5. CASE UNCHANGED vars
  BY <1>1, <1>5 DEF vars
<1> QED BY <1>2, <1>3, <1>4, <1>5 DEF Next

\* The timing checks accept what the compiler returns, and an alteration of it
\* exactly if it is still right: though timing_checks.py hands the last end of
\* the operations before, and the bits on the way, from neighbour to neighbour,
\* it misses nothing and refuses nothing that is right.
THEOREM ChecksAlwaysExact == Spec => []ChecksExact
<1>1. Init => ResultInv
  BY ResultInit
<1>2. CircuitInv /\ ResultInv /\ [Next]_vars => ResultInv'
  BY ResultStep
<1>3. CircuitInv /\ ResultInv => ChecksExact
  <2> SUFFICES ASSUME CircuitInv, ResultInv, result # NoResult
               PROVE  /\ Accepts(result) <=> Right(result)
                      /\ alterations = 0 => Accepts(result)
    BY DEF ChecksExact
  <2>1. InputOK /\ ResultShape(result)
    BY CheckedShape DEF CircuitInv, LoopInv
  <2>2. Accepts(result) <=> Right(result)
    BY <2>1, AcceptsIsRight
  <2>3. ASSUME alterations = 0 PROVE Right(result)
    <3>1. Compiled /\ result = Returned
      BY <2>3 DEF ResultInv
    <3> QED BY <3>1, ReturnedIsRight DEF CircuitInv, ResultInv
  <2> QED BY <2>2, <2>3
<1> QED BY <1>1, <1>2, <1>3, InvariantHolds, PTL DEF Spec
=============================================================================
