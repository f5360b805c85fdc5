-------------------------- MODULE TaskPlan_proofs --------------------------
(***************************************************************************)
(* For any tasks, requests and campaigns: wherever a runner dies, the next *)
(* one can start on what it left and knows what it knew; no child runs     *)
(* under an earlier child's name; a verdict of failure stands; and a task  *)
(* runs, is blocked or is given up for the reasons the plan states.        *)
(*                                                                         *)
(* A handler is followed write by write: what holds of the directory after *)
(* each of its writes holds of whatever a crash leaves behind.             *)
(***************************************************************************)
EXTENDS TaskPlan, FiniteSetTheorems, WellFoundedInduction, TLAPS

\* A set of numbers has a least one.
LEMMA LeastNumber ==
  ASSUME NEW S \in SUBSET Nat, S # {}
  PROVE  \E n \in S : \A k \in S : n =< k
<1> PICK top \in S : TRUE
  OBVIOUS
<1> DEFINE low == {n \in S : n =< top}
           T == {0..n : n \in low}
<1>1. IsFiniteSet(0..top) /\ T \subseteq FiniteSubsetsOf(0..top) /\ T # {}
  <2>1. IsFiniteSet(0..top)
    BY FS_Interval
  <2>2. \A t \in T : t \in SUBSET (0..top)
    OBVIOUS
  <2>3. top \in low
    OBVIOUS
  <2>4. T # {}
    BY <2>3
  <2>5. \A t \in T : IsFiniteSet(t)
    <3> HIDE DEF T
    <3> QED BY <2>1, <2>2, FS_Subset
  <2> HIDE DEF T
  <2> QED BY <2>1, <2>2, <2>4, <2>5 DEF FiniteSubsetsOf
<1>2. PICK t \in T : \A u \in T : <<u, t>> \notin StrictSubsetOrdering(0..top)
  <2> HIDE DEF T
  <2> QED BY <1>1, FS_StrictSubsetOrderingWellFounded, WFMin
<1>3. PICK n \in low : t = 0..n
  BY <1>2
<1>4. ASSUME NEW k \in low PROVE n =< k
  <2>1. <<0..k, 0..n>> \notin StrictSubsetOrdering(0..top)
    BY <1>2, <1>3
  <2>2. 0..k \subseteq 0..top /\ 0..n \subseteq 0..top
    OBVIOUS
  <2>3. ~(0..k \subseteq 0..n /\ 0..k # 0..n)
    BY <2>1, <2>2 DEF StrictSubsetOrdering
  <2>4. ASSUME k < n PROVE FALSE
    <3>1. n \in 0..n /\ n \notin 0..k /\ 0..k \subseteq 0..n
      BY <2>4
    <3> QED BY <2>3, <3>1
  <2> QED BY <2>4
<1> QED BY <1>4

-----------------------------------------------------------------------------
(* Loops over the tasks.                                                     *)

\* g is a loop's state after each of its first n turns.
LoopUpTo(g, ts, loop, s, n) ==
  g = [i \in 0..n |->
        IF i = 0 THEN s
        ELSE IF Order[i] \in ts THEN Turn(loop, g[i - 1], Order[i]) ELSE g[i - 1]]

\* A loop's turns follow one another.
LEMMA LoopGoesOn ==
  ASSUME NEW ts, NEW loop, NEW s, NEW n \in Nat
  PROVE  \E g : LoopUpTo(g, ts, loop, s, n)
<1> DEFINE Bad == {m \in Nat : ~\E g : LoopUpTo(g, ts, loop, s, m)}
<1>1. ASSUME Bad # {} PROVE FALSE
  <2>1. PICK m \in Bad : \A k \in Bad : m =< k
    BY <1>1, LeastNumber
  <2>2. CASE m = 0
    <3> DEFINE g == [i \in 0..0 |-> s]
    <3>1. LoopUpTo(g, ts, loop, s, 0)
      BY DEF LoopUpTo
    <3> QED BY <2>1, <2>2, <3>1
  <2>3. CASE m # 0
    <3>1. m - 1 \in Nat /\ m - 1 \notin Bad
      BY <2>1, <2>3
    <3>2. PICK h : LoopUpTo(h, ts, loop, s, m - 1)
      BY <3>1
    <3> DEFINE Next1(i, before) ==
                 IF Order[i] \in ts THEN Turn(loop, before, Order[i]) ELSE before
               g == [i \in 0..m |-> IF i = m THEN Next1(m, h[m - 1]) ELSE h[i]]
    <3>3. \A i \in 0..(m - 1) : h[i] = IF i = 0 THEN s ELSE Next1(i, h[i - 1])
      BY <3>2 DEF LoopUpTo
    <3>4. \A i \in 0..m : g[i] = IF i = 0 THEN s ELSE Next1(i, g[i - 1])
      <4> HIDE DEF Next1
      <4> TAKE i \in 0..m
      <4>1. CASE i = m
        <5>1. m - 1 \in 0..m /\ m - 1 # m /\ m \in 0..m
          BY <3>1
        <5>2. g[m - 1] = h[m - 1] /\ g[m] = Next1(m, h[m - 1])
          BY <5>1
        <5> HIDE DEF g
        <5> QED BY <4>1, <2>3, <5>2
      <4>2. CASE i # m
        <5>1. i \in 0..(m - 1) /\ (i # 0 => i - 1 \in 0..m /\ i - 1 # m)
          BY <4>2
        <5>2. g[i] = h[i] /\ (i # 0 => g[i - 1] = h[i - 1])
          BY <5>1, <4>2
        <5> HIDE DEF g
        <5> QED BY <5>1, <5>2, <3>3
      <4> QED BY <4>1, <4>2
    <3>5. LoopUpTo(g, ts, loop, s, m)
      <4> HIDE DEF g
      <4>1. g = [i \in 0..m |-> g[i]]
        BY DEF g
      <4> QED BY <3>4, <4>1 DEF LoopUpTo
    <3> QED BY <2>1, <3>5
  <2> QED BY <2>2, <2>3
<1> QED BY <1>1

(* g leads a loop from its state to its result.                              *)
Leads(g, ts, loop, s) ==
  /\ g[0] = s /\ g[Len(Order)] = Over(ts, loop, s)
  /\ \A i \in 1..Len(Order) :
        g[i] = IF Order[i] \in ts THEN Turn(loop, g[i - 1], Order[i]) ELSE g[i - 1]

\* A loop has turns.
LEMMA LoopTurns ==
  ASSUME NEW ts, NEW loop, NEW s
  PROVE  \E g : Leads(g, ts, loop, s)
<1> DEFINE g == CHOOSE h : LoopUpTo(h, ts, loop, s, Len(Order))
<1>1. Len(Order) \in Nat
  BY TaskPlanAssumption
<1>2. Over(ts, loop, s) = g[Len(Order)]
  BY DEF Over, LoopUpTo
<1>3. LoopUpTo(g, ts, loop, s, Len(Order))
  BY <1>1, LoopGoesOn
<1> HIDE DEF g
<1>4. \A i \in 0..Len(Order) : g[i] =
        IF i = 0 THEN s ELSE IF Order[i] \in ts THEN Turn(loop, g[i - 1], Order[i]) ELSE g[i - 1]
  BY <1>3 DEF LoopUpTo
<1>5. 0 \in 0..Len(Order) /\ \A i \in 1..Len(Order) : i \in 0..Len(Order) /\ i # 0
  BY <1>1
<1> QED BY <1>2, <1>4, <1>5 DEF Leads

\* What no turn of a loop leaves, the loop does not leave.
LEMMA LoopStays ==
  ASSUME NEW ts, NEW loop, NEW s, NEW G, s \in G,
         \A r \in G : \A t \in ts \cap Tasks : Turn(loop, r, t) \in G
  PROVE  Over(ts, loop, s) \in G
<1>1. Len(Order) \in Nat /\ \A i \in 1..Len(Order) : Order[i] \in Tasks
  BY TaskPlanAssumption
<1>2. PICK g : Leads(g, ts, loop, s)
  BY LoopTurns
<1> USE DEF Leads
<1> DEFINE Bad == {i \in 0..Len(Order) : g[i] \notin G}
<1>3. ASSUME Bad # {} PROVE FALSE
  <2>1. PICK i \in Bad : \A k \in Bad : i =< k
    <3>1. Bad \in SUBSET Nat
      BY <1>1
    <3> HIDE DEF Bad
    <3> QED BY <3>1, <1>3, LeastNumber
  <2>2. i \in 1..Len(Order) /\ i - 1 \in 0..Len(Order) /\ i - 1 \notin Bad
    BY <2>1, <1>1, <1>2
  <2> QED BY <2>1, <2>2, <1>1, <1>2
<1> QED BY <1>1, <1>2, <1>3

\* What one turn of a loop reaches and none leaves, the loop reaches.
LEMMA LoopReaches ==
  ASSUME NEW ts, NEW loop, NEW s, NEW G, NEW H, NEW x \in ts \cap Tasks, s \in G,
         \A r \in G : \A t \in ts \cap Tasks : Turn(loop, r, t) \in G,
         \A r \in G : Turn(loop, r, x) \in H,
         \A r \in G \cap H : \A t \in ts \cap Tasks : Turn(loop, r, t) \in H
  PROVE  Over(ts, loop, s) \in G \cap H
<1>1. Len(Order) \in Nat /\ \A i \in 1..Len(Order) : Order[i] \in Tasks
  BY TaskPlanAssumption
<1>2. PICK k \in 1..Len(Order) : Order[k] = x
  BY TaskPlanAssumption DEF ToSet
<1>3. PICK g : Leads(g, ts, loop, s)
  BY LoopTurns
<1> USE DEF Leads
<1> DEFINE Bad == {i \in 0..Len(Order) : ~(g[i] \in G /\ (i >= k => g[i] \in H))}
<1>4. ASSUME Bad # {} PROVE FALSE
  <2>1. PICK i \in Bad : \A j \in Bad : i =< j
    <3>1. Bad \in SUBSET Nat
      BY <1>1
    <3> HIDE DEF Bad
    <3> QED BY <3>1, <1>4, LeastNumber
  <2>2. i \in 1..Len(Order) /\ i - 1 \in 0..Len(Order) /\ i - 1 \notin Bad
    BY <2>1, <1>1, <1>2, <1>3
  <2>3. g[i - 1] \in G /\ (i - 1 >= k => g[i - 1] \in H)
    BY <2>2
  <2>4. g[i] \in G
    BY <2>2, <2>3, <1>1, <1>3
  <2>5. CASE i = k
    BY <2>1, <2>2, <2>3, <2>4, <2>5, <1>2, <1>3
  <2>6. CASE i > k
    BY <2>1, <2>2, <2>3, <2>4, <2>6, <1>1, <1>3
  <2>7. CASE i < k
    BY <2>1, <2>4, <2>7
  <2> QED BY <2>2, <2>5, <2>6, <2>7, <1>2
<1>5. Len(Order) \notin Bad /\ Len(Order) \in 0..Len(Order) /\ Len(Order) >= k
  BY <1>1, <1>2, <1>4
<1> QED BY <1>3, <1>5

-----------------------------------------------------------------------------
(* What the invariant says of a directory.                                   *)

Generations == UNION {[asks -> Nat] : asks \in SUBSET Tasks}

Directories ==
  [registry : SUBSET Tasks, edges : [Tasks -> SUBSET Tasks],
   replays : [Tasks -> SUBSET Generations], dispatches : [Tasks -> Nat],
   rows : [Tasks -> SUBSET Int], doubled : SUBSET Tasks, failures : [Tasks -> Nat],
   completion : [Tasks -> Row], voided : [Tasks -> Int], requeued : [Tasks -> Nat],
   refused : SUBSET Tasks, results : [Tasks -> Nat], workStop : BOOLEAN]

Memories ==
  [phase : {"off", "survey", "dispatch", "collect", "done"}, known : SUBSET Tasks,
   edges : [Tasks -> SUBSET Tasks], replays : [Tasks -> SUBSET Generations],
   attempts : [Tasks -> Nat], failures : [Tasks -> Nat], refreshes : [Tasks -> Nat],
   completed : [Tasks -> Row], stop : BOOLEAN, workStop : BOOLEAN,
   inflight : SUBSET Tasks, pending : Seq(Tasks), active : Seq(Tasks), polling : Seq(Tasks)]

(* What a run can come to.                                                   *)
Outcomes == Verdicts \cup {"needs_dependencies", "deferred"}

States == [disk : Directories, mem : Memories, log : Seq(Directories)]

Failed(d, t) == d.completion[t].status \in {"software_error", "blocked", "budget_exceeded"}

(* Definitions and edges can be read, and a replay is one of edges.          *)
Shape(d) ==
  /\ WellFounded(Known(d), Edges(d))
  /\ \A t \in Tasks \ Known(d) : d.edges[t] = {}
  /\ \A t \in Tasks : \A g \in d.replays[t] : DOMAIN g \subseteq Edges(d)[t]

(* The rows, the verdict and the counts of a task agree.                     *)
TaskRight(d, t) ==
  /\ t \notin Known(d) => d.completion[t] = NoRow
  /\ \A run \in d.rows[t] : \/ run = TerminalRun \/ run = ExhaustedRun
                            \/ 1 =< run /\ run =< d.dispatches[t]
  /\ TerminalRun \in d.rows[t] \/ ExhaustedRun \in d.rows[t] =>
       d.completion[t].status \in {"blocked", "budget_exceeded"}
  /\ d.completion[t].status = "ok" =>
       1 =< d.completion[t].attempts /\ d.completion[t].attempts =< d.dispatches[t]
  /\ Stands(d, t) => d.completion[t].result \in {0, d.results[t]}
  /\ d.voided[t] = -1 \/ (1 =< d.voided[t] /\ d.voided[t] =< d.dispatches[t])
  /\ d.failures[t] =< MaxAttempts
  /\ ~Failed(d, t) => d.failures[t] < MaxAttempts
  /\ d.completion[t].status = "blocked" =>
       t \notin TerminalMode /\ \E x \in Edges(d)[t] : Failed(d, x)

Readable(d) == Shape(d) /\ d.doubled = {} /\ \A t \in Tasks : TaskRight(d, t)

(* What no write of a handler takes back.                                    *)
Follows(d) ==
  \A t \in Tasks :
    /\ Failed(disk, t) => d.completion[t] = disk.completion[t]
    /\ Stands(disk, t) /\ t \in healthy =>
         d.completion[t] = disk.completion[t] /\ Stands(d, t)
    /\ disk.completion[t] # NoRow => d.completion[t] # NoRow
    /\ disk.dispatches[t] =< d.dispatches[t]
    /\ disk.workStop /\ t \notin Finalizers => d.dispatches[t] = disk.dispatches[t]

Logs(s) ==
  /\ s.disk \in ToSet(s.log)
  /\ \A d \in ToSet(s.log) : Readable(d) /\ Follows(d)

\* A write leaves the memory alone and goes to the end of the log.
LEMMA WriteSays ==
  ASSUME NEW s \in States, NEW d \in Directories
  PROVE  /\ Write(s, d) \in States
         /\ Write(s, d).disk = d /\ Write(s, d).mem = s.mem
         /\ s.disk \in ToSet(s.log) =>
              ToSet(Write(s, d).log) = ToSet(s.log) \cup {d}
<1>1. s.log \in Seq(Directories) /\ s.disk \in Directories /\ s.mem \in Memories
  BY DEF States
<1>2. CASE d = s.disk
  BY <1>1, <1>2 DEF Write
<1>3. CASE d # s.disk
  <2> DEFINE r == [s EXCEPT !.disk = d, !.log = Append(s.log, d)]
  <2>1. Write(s, d) = r
    BY <1>3 DEF Write
  <2>2. r \in States /\ r.disk = d /\ r.mem = s.mem /\ r.log = Append(s.log, d)
    <3> DEFINE more == Append(s.log, d)
    <3>1. more \in Seq(Directories)
      BY <1>1
    <3> HIDE DEF more
    <3>2. /\ [s EXCEPT !.disk = d, !.log = more] \in States
          /\ [s EXCEPT !.disk = d, !.log = more].disk = d
          /\ [s EXCEPT !.disk = d, !.log = more].mem = s.mem
          /\ [s EXCEPT !.disk = d, !.log = more].log = more
      BY <1>1, <3>1 DEF States
    <3> QED BY <3>2 DEF more
  <2>3. ToSet(Append(s.log, d)) = ToSet(s.log) \cup {d}
    <3>1. DOMAIN Append(s.log, d) = DOMAIN s.log \cup {Len(s.log) + 1}
      BY <1>1
    <3>2. /\ \A i \in DOMAIN s.log : Append(s.log, d)[i] = s.log[i]
          /\ Append(s.log, d)[Len(s.log) + 1] = d
      BY <1>1
    <3> QED BY <3>1, <3>2 DEF ToSet
  <2> HIDE DEF r
  <2> QED BY <2>1, <2>2, <2>3
<1> QED BY <1>2, <1>3

\* A write of what can be read and follows can be read and follows.
LEMMA WriteLogs ==
  ASSUME NEW s \in States, Logs(s), NEW d \in Directories, Readable(d), Follows(d)
  PROVE  /\ Write(s, d) \in States /\ Logs(Write(s, d))
         /\ Write(s, d).disk = d /\ Write(s, d).mem = s.mem
<1>1. /\ Write(s, d) \in States /\ Write(s, d).disk = d /\ Write(s, d).mem = s.mem
      /\ ToSet(Write(s, d).log) = ToSet(s.log) \cup {d}
  BY WriteSays DEF Logs
<1>2. d \in ToSet(Write(s, d).log)
  BY <1>1
<1>3. \A e \in ToSet(Write(s, d).log) : e = d \/ e \in ToSet(s.log)
  BY <1>1
<1> QED BY <1>1, <1>2, <1>3 DEF Logs

\* Nothing is wrong with a task that a write did not touch.
LEMMA RightElsewhere ==
  ASSUME NEW d \in Directories, NEW e \in Directories, NEW t \in Tasks,
         e.registry = d.registry, e.edges = d.edges, e.rows[t] = d.rows[t],
         e.dispatches[t] = d.dispatches[t], e.failures[t] = d.failures[t],
         e.completion[t] = d.completion[t], e.voided[t] = d.voided[t],
         e.results[t] = d.results[t],
         \A x \in Tasks : Failed(d, x) => Failed(e, x),
         TaskRight(d, t)
  PROVE  TaskRight(e, t)
<1>1. Known(e) = Known(d) /\ Edges(e) = Edges(d)
  BY Zenon DEF Known, Edges
<1>2. Stands(e, t) <=> Stands(d, t)
  BY DEF Stands
<1>3. Failed(e, t) <=> Failed(d, t)
  BY DEF Failed
<1>4. d.edges[t] \in SUBSET Tasks /\ Edges(d)[t] \subseteq Tasks
  BY TaskPlanAssumption DEF Directories, Edges
<1> QED BY <1>1, <1>2, <1>3, <1>4 DEF TaskRight

\* Definitions, edges and replays are as they were.
LEMMA ShapeElsewhere ==
  ASSUME NEW d, NEW e, e.registry = d.registry, e.edges = d.edges, e.replays = d.replays
  PROVE  Known(e) = Known(d) /\ Edges(e) = Edges(d) /\ (Shape(d) => Shape(e))
<1>1. Known(e) = Known(d)
  BY Zenon DEF Known
<1>2. Edges(e) = Edges(d)
  BY Zenon, <1>1 DEF Edges
<1> QED BY <1>1, <1>2, Zenon DEF Shape

\* A write to one task is right if that task is right after it.
LEMMA ReadableOne ==
  ASSUME NEW d \in Directories, NEW e \in Directories, NEW t \in Tasks,
         e.registry = d.registry, e.edges = d.edges, e.replays = d.replays,
         e.doubled = d.doubled,
         \A u \in Tasks \ {t} :
            /\ e.rows[u] = d.rows[u] /\ e.dispatches[u] = d.dispatches[u]
            /\ e.failures[u] = d.failures[u] /\ e.completion[u] = d.completion[u]
            /\ e.voided[u] = d.voided[u] /\ e.results[u] = d.results[u],
         Failed(d, t) => Failed(e, t), TaskRight(e, t), Readable(d)
  PROVE  Readable(e)
<1>1. \A x \in Tasks : Failed(d, x) => Failed(e, x)
  BY DEF Failed
<1>2. ASSUME NEW u \in Tasks, u # t PROVE TaskRight(e, u)
  <2>1. TaskRight(d, u)
    BY DEF Readable
  <2> QED BY <1>1, <1>2, <2>1, RightElsewhere
<1>3. Shape(e)
  BY ShapeElsewhere DEF Readable
<1> QED BY <1>2, <1>3 DEF Readable

\* A write to one task takes nothing back if its verdict was open.
LEMMA FollowsOne ==
  ASSUME NEW d \in Directories, NEW e \in Directories, NEW t \in Tasks,
         e.dispatches = d.dispatches,
         \A u \in Tasks \ {t} : e.completion[u] = d.completion[u] /\ e.voided[u] = d.voided[u],
         e.completion[t] # NoRow \/ e.completion[t] = d.completion[t],
         \/ ~Failed(d, t) /\ (~Stands(d, t) \/ t \notin healthy)
         \/ e.completion[t] = d.completion[t] /\ e.voided[t] = d.voided[t],
         Follows(d)
  PROVE  Follows(e)
<1> SUFFICES ASSUME NEW u \in Tasks
             PROVE /\ Failed(disk, u) => e.completion[u] = disk.completion[u]
                   /\ Stands(disk, u) /\ u \in healthy =>
                        e.completion[u] = disk.completion[u] /\ Stands(e, u)
                   /\ disk.completion[u] # NoRow => e.completion[u] # NoRow
                   /\ disk.dispatches[u] =< e.dispatches[u]
                   /\ disk.workStop /\ u \notin Finalizers =>
                        e.dispatches[u] = disk.dispatches[u]
  BY DEF Follows
<1>1. /\ Failed(disk, u) => d.completion[u] = disk.completion[u]
      /\ Stands(disk, u) /\ u \in healthy =>
           d.completion[u] = disk.completion[u] /\ Stands(d, u)
      /\ disk.completion[u] # NoRow => d.completion[u] # NoRow
      /\ disk.dispatches[u] =< d.dispatches[u]
      /\ disk.workStop /\ u \notin Finalizers => d.dispatches[u] = disk.dispatches[u]
  BY DEF Follows
<1>2. CASE e.completion[u] = d.completion[u] /\ e.voided[u] = d.voided[u]
  <2>1. Stands(d, u) => Stands(e, u)
    BY <1>2 DEF Stands
  <2> QED BY <1>1, <1>2, <2>1
<1>3. CASE ~(e.completion[u] = d.completion[u] /\ e.voided[u] = d.voided[u])
  <2>1. u = t /\ ~Failed(d, t) /\ (~Stands(d, t) \/ t \notin healthy)
    BY <1>3
  <2>2. ~Failed(disk, u)
    BY <1>1, <2>1 DEF Failed
  <2> QED BY <1>1, <2>1, <2>2
<1> QED BY <1>2, <1>3

\* A result file of a task without a standing verdict.
LEMMA ResultsWrite ==
  ASSUME NEW d \in Directories, Readable(d), Follows(d), NEW t \in Tasks, ~Stands(d, t),
         NEW n \in Nat
  PROVE  LET e == [d EXCEPT !.results[t] = n] IN
         e \in Directories /\ Readable(e) /\ Follows(e)
<1> DEFINE e == [d EXCEPT !.results[t] = n]
<1>1. /\ e \in Directories
      /\ e.registry = d.registry /\ e.edges = d.edges /\ e.replays = d.replays
      /\ e.doubled = d.doubled /\ e.rows = d.rows /\ e.dispatches = d.dispatches
      /\ e.failures = d.failures /\ e.completion = d.completion /\ e.voided = d.voided
      /\ \A u \in Tasks \ {t} : e.results[u] = d.results[u]
  BY DEF Directories
<1> HIDE DEF e
<1>2. Known(e) = Known(d) /\ Edges(e) = Edges(d)
  BY <1>1, ShapeElsewhere
<1>3. (Stands(e, t) <=> Stands(d, t)) /\ \A u : Failed(e, u) <=> Failed(d, u)
  BY <1>1 DEF Stands, Failed
<1>4. TaskRight(d, t)
  BY DEF Readable
<1>5. TaskRight(e, t)
  BY <1>1, <1>2, <1>3, <1>4 DEF TaskRight
<1>6. Readable(e)
  BY <1>1, <1>3, <1>5, ReadableOne
<1>7. Follows(e)
  BY <1>1, FollowsOne
<1> QED BY <1>1, <1>6, <1>7 DEF e

\* A verdict on a task that has none.
LEMMA VerdictWrite ==
  ASSUME NEW d \in Directories, Readable(d), Follows(d), campaign \in Campaigns,
         NEW t \in Tasks, t \in Known(d), ~Stands(d, t),
         NEW row \in Row, row.status \in Verdicts,
         row.result \in {0, d.results[t]},
         row.status = "ok" => /\ 1 =< row.attempts /\ row.attempts =< d.dispatches[t],
         row.status = "blocked" => t \notin TerminalMode /\ \E x \in Edges(d)[t] : Failed(d, x)
  PROVE  LET e == [d EXCEPT !.completion[t] = row] IN
         e \in Directories /\ Readable(e) /\ Follows(e)
<1> DEFINE e == [d EXCEPT !.completion[t] = row]
<1>1. /\ e \in Directories
      /\ e.registry = d.registry /\ e.edges = d.edges /\ e.replays = d.replays
      /\ e.doubled = d.doubled /\ e.rows = d.rows /\ e.dispatches = d.dispatches
      /\ e.failures = d.failures /\ e.results = d.results /\ e.voided = d.voided
      /\ e.completion[t] = row
      /\ \A u \in Tasks \ {t} : e.completion[u] = d.completion[u]
  BY DEF Directories
<1> HIDE DEF e
<1>2. Known(e) = Known(d) /\ Edges(e) = Edges(d)
  BY <1>1, ShapeElsewhere
<1>3. ~Failed(d, t)
  BY DEF Stands, Failed, Verdicts
<1>4. TaskRight(d, t) /\ d.edges[t] \in SUBSET Tasks
  BY DEF Readable, Directories
<1>5. \A u \in Tasks : Failed(d, u) => Failed(e, u)
  BY <1>1, <1>3 DEF Failed
<1>6. Edges(d)[t] \subseteq Tasks
  BY <1>4, TaskPlanAssumption DEF Edges
<1>7. row # NoRow
  BY DEF NoRow, Verdicts
<1>8. TaskRight(e, t)
  <2>1. d.failures[t] =< MaxAttempts /\ d.failures[t] < MaxAttempts
    BY <1>3, <1>4 DEF TaskRight
  <2>2. TerminalRun \notin e.rows[t] /\ ExhaustedRun \notin e.rows[t]
    BY <1>1, <1>3, <1>4 DEF TaskRight, Failed
  <2>3. e.completion[t].status = "blocked" =>
          t \notin TerminalMode /\ \E x \in Edges(e)[t] : Failed(e, x)
    BY <1>1, <1>2, <1>5, <1>6
  <2> QED BY <1>1, <1>2, <1>4, <2>1, <2>2, <2>3 DEF TaskRight
<1>9. Readable(e)
  BY <1>1, <1>3, <1>8, ReadableOne
<1>10. Follows(e)
  BY <1>1, <1>3, <1>7, FollowsOne
<1> QED BY <1>1, <1>9, <1>10 DEF e

(* A directory with one more row, and one more failure if it is one.         *)
Rowed(d, t, run, status) ==
  [d EXCEPT !.rows[t] = d.rows[t] \cup {run},
            !.failures[t] = IF status = "software_error" THEN d.failures[t] + 1
                            ELSE d.failures[t]]

\* A row of a run that has none yet.
LEMMA RowWrite ==
  ASSUME NEW d \in Directories, Readable(d), Follows(d), campaign \in Campaigns,
         NEW t \in Tasks, NEW run \in Int, run \notin d.rows[t],
         NEW status \in Outcomes,
         \/ /\ run \in {TerminalRun, ExhaustedRun}
            /\ d.completion[t].status \in {"blocked", "budget_exceeded"}
         \/ 1 =< run /\ run =< d.dispatches[t],
         status = "software_error" => /\ d.failures[t] < MaxAttempts
                                      /\ ~Failed(d, t) => d.failures[t] + 1 < MaxAttempts
  PROVE  LET e == Logged(d, t, run, status) IN
         /\ e \in Directories /\ Readable(e) /\ Follows(e)
         /\ e = Rowed(d, t, run, status)
<1> DEFINE rows == d.rows[t] \cup {run}
           count == IF status = "software_error" THEN d.failures[t] + 1 ELSE d.failures[t]
           e == [d EXCEPT !.rows[t] = rows, !.failures[t] = count]
<1>1. rows \subseteq Int /\ count \in Nat /\ d.failures[t] \in Nat
  BY DEF Directories
<1>2. /\ e \in Directories
      /\ e.registry = d.registry /\ e.edges = d.edges /\ e.replays = d.replays
      /\ e.doubled = d.doubled /\ e.completion = d.completion /\ e.dispatches = d.dispatches
      /\ e.results = d.results /\ e.voided = d.voided
      /\ e.rows[t] = rows /\ e.failures[t] = count
      /\ \A u \in Tasks \ {t} : e.rows[u] = d.rows[u] /\ e.failures[u] = d.failures[u]
  <2> HIDE DEF rows, count
  <2> QED BY <1>1 DEF Directories
<1>3. Logged(d, t, run, status) = e
  <2>1. d = [d EXCEPT !.doubled = d.doubled]
    BY DEF Directories
  <2> QED BY <2>1 DEF Logged, Directories
<1>4. e = Rowed(d, t, run, status)
  BY DEF Rowed
<1> HIDE DEF e
<1>5. Known(e) = Known(d) /\ Edges(e) = Edges(d)
  BY <1>2, ShapeElsewhere
<1>6. (Stands(e, t) <=> Stands(d, t)) /\ \A u : Failed(e, u) <=> Failed(d, u)
  BY <1>2 DEF Stands, Failed
<1>7. TaskRight(d, t)
  BY DEF Readable
<1>8. TaskRight(e, t)
  <2>1. MaxAttempts \in Nat /\ d.failures[t] \in Nat
    BY <1>1, TaskPlanAssumption DEF MaxAttempts
  <2>2. e.failures[t] =< MaxAttempts /\ (~Failed(e, t) => e.failures[t] < MaxAttempts)
    BY <1>2, <1>6, <1>7, <2>1 DEF TaskRight
  <2>3. /\ \A k \in e.rows[t] : \/ k = TerminalRun \/ k = ExhaustedRun
                                \/ 1 =< k /\ k =< e.dispatches[t]
        /\ TerminalRun \in e.rows[t] \/ ExhaustedRun \in e.rows[t] =>
             e.completion[t].status \in {"blocked", "budget_exceeded"}
    BY <1>2, <1>7 DEF TaskRight, TerminalRun, ExhaustedRun
  <2> QED BY <1>2, <1>5, <1>6, <1>7, <2>2, <2>3 DEF TaskRight
<1>9. Readable(e)
  BY <1>2, <1>6, <1>8, ReadableOne
<1>10. Follows(e)
  BY <1>2, FollowsOne
<1> QED BY <1>2, <1>3, <1>4, <1>9, <1>10

\* The state of the campaign.
LEMMA StopWrite ==
  ASSUME NEW d \in Directories, Readable(d), Follows(d), NEW stop \in BOOLEAN
  PROVE  LET e == [d EXCEPT !.workStop = stop] IN
         e \in Directories /\ Readable(e) /\ Follows(e)
<1> DEFINE e == [d EXCEPT !.workStop = stop]
<1>1. /\ e \in Directories
      /\ e.registry = d.registry /\ e.edges = d.edges /\ e.replays = d.replays
      /\ e.doubled = d.doubled /\ e.rows = d.rows /\ e.dispatches = d.dispatches
      /\ e.failures = d.failures /\ e.completion = d.completion /\ e.voided = d.voided
      /\ e.results = d.results
  BY DEF Directories
<1> HIDE DEF e
<1>2. \A x \in Tasks : Failed(d, x) => Failed(e, x)
  BY <1>1 DEF Failed
<1>3. ASSUME NEW t \in Tasks PROVE TaskRight(e, t)
  BY <1>1, <1>2, RightElsewhere DEF Readable
<1>4. Readable(e)
  BY <1>1, <1>3, ShapeElsewhere DEF Readable
<1>5. \A t \in Tasks : Stands(d, t) => Stands(e, t)
  BY <1>1 DEF Stands
<1>6. Follows(e)
  BY <1>1, <1>5 DEF Follows
<1> QED BY <1>1, <1>4, <1>6 DEF e

\* The audit row of a success whose artifacts are damaged.
LEMMA AuditWrite ==
  ASSUME NEW d \in Directories, Readable(d), Follows(d), NEW t \in Tasks,
         d.completion[t].status = "ok", t \notin healthy,
         NEW count \in Nat, NEW refused \in SUBSET Tasks
  PROVE  LET e == [d EXCEPT !.voided[t] = d.completion[t].attempts,
                            !.requeued[t] = count, !.refused = refused]
         IN  e \in Directories /\ Readable(e) /\ Follows(e) /\ ~Stands(e, t)
<1> DEFINE n == d.completion[t].attempts
           e == [d EXCEPT !.voided[t] = n, !.requeued[t] = count, !.refused = refused]
<1>1. n \in Nat
  BY DEF Directories, Row
<1>2. /\ e \in Directories
      /\ e.registry = d.registry /\ e.edges = d.edges /\ e.replays = d.replays
      /\ e.doubled = d.doubled /\ e.rows = d.rows /\ e.dispatches = d.dispatches
      /\ e.failures = d.failures /\ e.completion = d.completion /\ e.results = d.results
      /\ e.voided[t] = n
      /\ \A u \in Tasks \ {t} : e.voided[u] = d.voided[u]
  <2> DEFINE voided == [d.voided EXCEPT ![t] = n]
             requeued == [d.requeued EXCEPT ![t] = count]
             f == [d EXCEPT !.voided = voided, !.requeued = requeued, !.refused = refused]
  <2>1. /\ voided \in [Tasks -> Int] /\ voided[t] = n
        /\ \A u \in Tasks \ {t} : voided[u] = d.voided[u]
    <3> HIDE DEF n
    <3> QED BY <1>1 DEF Directories
  <2>2. requeued \in [Tasks -> Nat]
    BY DEF Directories
  <2>3. e = f
    <3> HIDE DEF n
    <3> QED BY DEF Directories
  <2> HIDE DEF voided, requeued, e
  <2>4. /\ f \in Directories
        /\ f.registry = d.registry /\ f.edges = d.edges /\ f.replays = d.replays
        /\ f.doubled = d.doubled /\ f.rows = d.rows /\ f.dispatches = d.dispatches
        /\ f.failures = d.failures /\ f.completion = d.completion /\ f.results = d.results
        /\ f.voided = voided
    BY <2>1, <2>2 DEF Directories
  <2> HIDE DEF f
  <2> QED BY <2>1, <2>3, <2>4
<1> HIDE DEF e
<1>3. Known(e) = Known(d) /\ Edges(e) = Edges(d)
  BY <1>2, ShapeElsewhere
<1>4. ~Stands(e, t) /\ \A u : Failed(e, u) <=> Failed(d, u)
  BY <1>1, <1>2 DEF Stands, Failed
<1>5. TaskRight(d, t)
  BY DEF Readable
<1>6. TaskRight(e, t)
  BY <1>2, <1>3, <1>4, <1>5 DEF TaskRight
<1>7. Readable(e)
  BY <1>2, <1>4, <1>6, ReadableOne
<1>8. ~Failed(d, t)
  BY DEF Failed
<1>9. Follows(e)
  BY <1>2, <1>8, FollowsOne
<1> QED BY <1>2, <1>4, <1>7, <1>9 DEF e

\* A completion without a verdict, where none stood.
LEMMA WithdrawnWrite ==
  ASSUME NEW d \in Directories, Readable(d), Follows(d), NEW t \in Tasks,
         d.completion[t].status = "ok", ~Stands(d, t),
         NEW row \in Row, row.status = "invalidated"
  PROVE  LET e == [d EXCEPT !.completion[t] = row] IN
         e \in Directories /\ Readable(e) /\ Follows(e) /\ ~Stands(e, t)
<1> DEFINE e == [d EXCEPT !.completion[t] = row]
<1>1. /\ e \in Directories
      /\ e.registry = d.registry /\ e.edges = d.edges /\ e.replays = d.replays
      /\ e.doubled = d.doubled /\ e.rows = d.rows /\ e.dispatches = d.dispatches
      /\ e.failures = d.failures /\ e.results = d.results /\ e.voided = d.voided
      /\ e.completion[t] = row
      /\ \A u \in Tasks \ {t} : e.completion[u] = d.completion[u]
  BY DEF Directories
<1> HIDE DEF e
<1>2. Known(e) = Known(d) /\ Edges(e) = Edges(d)
  BY <1>1, ShapeElsewhere
<1>3. ~Failed(d, t) /\ ~Failed(e, t) /\ ~Stands(e, t) /\ row # NoRow
      /\ d.completion[t] # NoRow
  BY <1>1 DEF Stands, Failed, Verdicts, NoRow
<1>4. TaskRight(d, t)
  BY DEF Readable
<1>5. TaskRight(e, t)
  BY <1>1, <1>2, <1>3, <1>4 DEF TaskRight
<1>6. Readable(e)
  BY <1>1, <1>3, <1>5, ReadableOne
<1>7. Follows(e)
  BY <1>1, <1>3, FollowsOne
<1> QED BY <1>1, <1>3, <1>6, <1>7 DEF e

\* One more attempt.
LEMMA DispatchWrite ==
  ASSUME NEW d \in Directories, Readable(d), Follows(d), NEW t \in Tasks,
         disk \in Directories, disk.workStop => t \in Finalizers
  PROVE  LET e == [d EXCEPT !.dispatches[t] = d.dispatches[t] + 1] IN
         e \in Directories /\ Readable(e) /\ Follows(e)
<1> DEFINE e == [d EXCEPT !.dispatches[t] = d.dispatches[t] + 1]
<1>1. /\ e \in Directories
      /\ e.registry = d.registry /\ e.edges = d.edges /\ e.replays = d.replays
      /\ e.doubled = d.doubled /\ e.rows = d.rows /\ e.completion = d.completion
      /\ e.failures = d.failures /\ e.results = d.results /\ e.voided = d.voided
      /\ e.dispatches[t] = d.dispatches[t] + 1 /\ d.dispatches[t] \in Nat
      /\ \A u \in Tasks \ {t} : e.dispatches[u] = d.dispatches[u]
  <2> DEFINE n == d.dispatches[t] + 1
  <2>1. n \in Nat /\ d.dispatches[t] \in Nat
    BY DEF Directories
  <2> HIDE DEF n
  <2>2. /\ [d EXCEPT !.dispatches[t] = n] \in Directories
        /\ [d EXCEPT !.dispatches[t] = n].dispatches = [d.dispatches EXCEPT ![t] = n]
        /\ \A f \in {"registry", "edges", "replays", "doubled", "rows", "completion",
                     "failures", "results", "voided"} :
              [d EXCEPT !.dispatches[t] = n][f] = d[f]
    BY <2>1 DEF Directories
  <2>3. [d.dispatches EXCEPT ![t] = n][t] = n
        /\ \A u \in Tasks \ {t} : [d.dispatches EXCEPT ![t] = n][u] = d.dispatches[u]
    BY DEF Directories
  <2> QED BY <2>1, <2>2, <2>3 DEF n
<1> HIDE DEF e
<1>2. Known(e) = Known(d) /\ Edges(e) = Edges(d)
  BY <1>1, ShapeElsewhere
<1>3. \A u : (Stands(e, u) <=> Stands(d, u)) /\ (Failed(e, u) <=> Failed(d, u))
  BY <1>1 DEF Stands, Failed
<1>4. TaskRight(d, t) /\ d.completion[t].attempts \in Nat /\ d.voided[t] \in Int
      /\ \A run \in d.rows[t] : run \in Int
  BY DEF Readable, Directories, Row
<1>5. TaskRight(e, t)
  <2>1. \A run \in e.rows[t] : \/ run = TerminalRun \/ run = ExhaustedRun
                               \/ 1 =< run /\ run =< e.dispatches[t]
    BY <1>1, <1>4 DEF TaskRight
  <2>2. e.completion[t].status = "ok" =>
          1 =< e.completion[t].attempts /\ e.completion[t].attempts =< e.dispatches[t]
    BY <1>1, <1>4 DEF TaskRight
  <2>3. e.voided[t] = -1 \/ (1 =< e.voided[t] /\ e.voided[t] =< e.dispatches[t])
    BY <1>1, <1>4 DEF TaskRight
  <2> QED BY <1>1, <1>2, <1>3, <1>4, <2>1, <2>2, <2>3 DEF TaskRight
<1>6. Readable(e)
  BY <1>1, <1>3, <1>5, ReadableOne
<1>7. Follows(e)
  <2>1. ASSUME NEW u \in Tasks PROVE disk.dispatches[u] =< e.dispatches[u]
    <3>1. /\ disk.dispatches[u] =< d.dispatches[u]
          /\ d.dispatches[u] \in Nat /\ disk.dispatches[u] \in Nat
      BY DEF Follows, Directories
    <3> QED BY <1>1, <3>1
  <2> QED BY <1>1, <1>3, <2>1 DEF Follows
<1> QED BY <1>1, <1>6, <1>7 DEF e

-----------------------------------------------------------------------------
(* Recording an outcome.                                                     *)

\* A handler's own memory.
LEMMA MemoryChange ==
  ASSUME NEW s \in States, NEW m \in Memories
  PROVE  /\ [s EXCEPT !.mem = m] \in States
         /\ [s EXCEPT !.mem = m].disk = s.disk /\ [s EXCEPT !.mem = m].log = s.log
         /\ [s EXCEPT !.mem = m].mem = m
         /\ Logs(s) => Logs([s EXCEPT !.mem = m])
BY DEF States, Logs

(* What no record of an outcome, and no turn of a loop but "register" and    *)
(* "mark", touches.                                                          *)
Kept(s, r) ==
  /\ r.mem.phase = s.mem.phase /\ r.mem.known = s.mem.known /\ r.mem.edges = s.mem.edges
  /\ r.mem.replays = s.mem.replays /\ r.mem.attempts = s.mem.attempts
  /\ r.mem.workStop = s.mem.workStop /\ r.mem.active = s.mem.active
  /\ r.mem.polling = s.mem.polling
  /\ r.disk.registry = s.disk.registry /\ r.disk.edges = s.disk.edges
  /\ r.disk.replays = s.disk.replays /\ r.disk.dispatches = s.disk.dispatches
  /\ s.mem.stop => r.mem.stop
  /\ r.disk.workStop = s.disk.workStop \/ r.disk.workStop = s.mem.workStop

(* Nor the queue.                                                            *)
QueueKept(s, r) == r.mem.inflight = s.mem.inflight /\ r.mem.pending = s.mem.pending

\* A result file is written, and goes again if it brims the storage.
LEMMA PublishSays ==
  ASSUME NEW s \in States, Logs(s), NEW t \in Tasks, ~Stands(s.disk, t),
         NEW ok \in BOOLEAN, NEW brims \in BOOLEAN
  PROVE  LET p == Publish(s, t, ok, brims) IN
         /\ p \in States /\ Logs(p) /\ Kept(s, p) /\ QueueKept(s, p)
         /\ p.mem.failures = s.mem.failures /\ p.mem.refreshes = s.mem.refreshes
         /\ p.mem.completed = s.mem.completed /\ (p.mem.stop <=> s.mem.stop \/ brims)
         /\ p.disk.completion = s.disk.completion /\ p.disk.rows = s.disk.rows
         /\ p.disk.failures = s.disk.failures /\ p.disk.voided = s.disk.voided
         /\ p.disk.requeued = s.disk.requeued
         /\ ok /\ ~brims => p.disk.results[t] = s.mem.attempts[t]
<1> DEFINE wrote == [s.disk EXCEPT !.results[t] = s.mem.attempts[t]]
           put == IF ok THEN Write(s, wrote) ELSE s
           gone == [put.disk EXCEPT !.results[t] = 0]
           cut == IF ok THEN Write(put, gone) ELSE put
<1>1. /\ s.disk \in Directories /\ s.mem \in Memories /\ s.mem.attempts[t] \in Nat
      /\ s.disk.results[t] \in Nat /\ s.disk = [s.disk EXCEPT !.results[t] = s.disk.results[t]]
  <2>1. s.disk \in Directories /\ s.mem \in Memories
    BY DEF States
  <2>2. s.mem.attempts[t] \in Nat /\ s.disk.results \in [Tasks -> Nat]
    BY <2>1 DEF Directories, Memories
  <2>3. s.disk.results = [s.disk.results EXCEPT ![t] = s.disk.results[t]]
    BY <2>2
  <2>4. s.disk = [s.disk EXCEPT !.results = s.disk.results]
    BY <2>1 DEF Directories
  <2>5. s.disk = [s.disk EXCEPT !.results[t] = s.disk.results[t]]
    BY <2>3, <2>4, Zenon
  <2> QED BY <2>1, <2>2, <2>5
<1>2. Readable(s.disk) /\ Follows(s.disk)
  BY DEF Logs
<1>3. wrote \in Directories /\ Readable(wrote) /\ Follows(wrote)
  BY <1>1, <1>2, ResultsWrite
<1>4. /\ put \in States /\ Logs(put) /\ put.mem = s.mem
      /\ put.disk = IF ok THEN wrote ELSE s.disk
  <2> HIDE DEF wrote
  <2> QED BY <1>3, WriteLogs
<1>5. ~Stands(put.disk, t)
  <2>1. wrote.completion = s.disk.completion /\ wrote.voided = s.disk.voided
    BY <1>1 DEF Directories
  <2> HIDE DEF wrote, put
  <2> QED BY <1>4, <2>1 DEF Stands
<1>6. put.disk \in Directories /\ Readable(put.disk) /\ Follows(put.disk)
  <2> HIDE DEF put
  <2> QED BY <1>4 DEF Logs, States
<1>7. gone \in Directories /\ Readable(gone) /\ Follows(gone)
  <2> HIDE DEF put
  <2> QED BY <1>5, <1>6, ResultsWrite
<1>8. /\ cut \in States /\ Logs(cut) /\ cut.mem = s.mem
      /\ cut.disk = IF ok THEN gone ELSE put.disk
  <2> HIDE DEF put, gone
  <2> QED BY <1>4, <1>7, WriteLogs
<1>9. gone = [s.disk EXCEPT !.results[t] = 0]
  <2>1. put.disk = s.disk \/ put.disk = wrote
    <3> HIDE DEF put, wrote
    <3> QED BY <1>4
  <2>2. put.disk = s.disk => gone = [s.disk EXCEPT !.results[t] = 0]
    <3> HIDE DEF put
    <3> QED OBVIOUS
  <2> DEFINE none == [s.disk.results EXCEPT ![t] = 0]
  <2>3. put.disk = wrote => [put.disk.results EXCEPT ![t] = 0] = none
    <3> HIDE DEF put
    <3> QED BY <1>1 DEF Directories
  <2>4. put.disk = wrote => [put.disk EXCEPT !.results = none] = [s.disk EXCEPT !.results = none]
    <3> HIDE DEF put, none
    <3> QED BY <1>1 DEF Directories
  <2>5. put.disk = wrote => gone = [s.disk EXCEPT !.results[t] = 0]
    <3> HIDE DEF put, wrote
    <3> QED BY <2>3, <2>4
  <2> QED BY <2>1, <2>2, <2>5
<1>10. ASSUME NEW n \in Nat
       PROVE  LET e == [s.disk EXCEPT !.results[t] = n] IN
              /\ e.registry = s.disk.registry /\ e.edges = s.disk.edges
              /\ e.replays = s.disk.replays /\ e.dispatches = s.disk.dispatches
              /\ e.completion = s.disk.completion /\ e.rows = s.disk.rows
              /\ e.failures = s.disk.failures /\ e.voided = s.disk.voided
              /\ e.requeued = s.disk.requeued /\ e.workStop = s.disk.workStop
              /\ e.results[t] = n
  <2>1. s.disk \in Directories
    BY <1>1
  <2> QED BY <2>1 DEF Directories
<1>11. CASE brims
  <2> DEFINE m == [s.mem EXCEPT !.stop = TRUE]
             p == [cut EXCEPT !.mem = m]
  <2>1. /\ m \in Memories /\ m.stop
        /\ m.phase = s.mem.phase /\ m.known = s.mem.known /\ m.edges = s.mem.edges
        /\ m.replays = s.mem.replays /\ m.attempts = s.mem.attempts
        /\ m.workStop = s.mem.workStop /\ m.active = s.mem.active
        /\ m.polling = s.mem.polling /\ m.inflight = s.mem.inflight
        /\ m.pending = s.mem.pending /\ m.failures = s.mem.failures
        /\ m.refreshes = s.mem.refreshes /\ m.completed = s.mem.completed
    BY <1>1 DEF Memories
  <2>2. Publish(s, t, ok, brims) = p
    <3>1. Publish(s, t, ok, brims) = [cut EXCEPT !.mem.stop = TRUE]
      BY <1>11 DEF Publish
    <3> HIDE DEF cut
    <3> QED BY <1>8, <3>1
  <2>3. p \in States /\ Logs(p) /\ p.mem = m /\ p.disk = cut.disk
    <3> HIDE DEF cut, m
    <3> QED BY <1>8, <2>1, MemoryChange
  <2>4. p.disk = [s.disk EXCEPT !.results[t] = 0]
        \/ p.disk = [s.disk EXCEPT !.results[t] = s.disk.results[t]]
    <3> HIDE DEF cut, put, gone, wrote, p
    <3> QED BY <1>1, <1>4, <1>8, <1>9, <2>3
  <2>5. /\ p.disk.registry = s.disk.registry /\ p.disk.edges = s.disk.edges
        /\ p.disk.replays = s.disk.replays /\ p.disk.dispatches = s.disk.dispatches
        /\ p.disk.completion = s.disk.completion /\ p.disk.rows = s.disk.rows
        /\ p.disk.failures = s.disk.failures /\ p.disk.voided = s.disk.voided
        /\ p.disk.requeued = s.disk.requeued /\ p.disk.workStop = s.disk.workStop
    <3> HIDE DEF p
    <3>1. PICK n \in Nat : p.disk = [s.disk EXCEPT !.results[t] = n]
      BY <1>1, <2>4
    <3> DEFINE e == [s.disk EXCEPT !.results[t] = n]
    <3>2. /\ e.registry = s.disk.registry /\ e.edges = s.disk.edges
          /\ e.replays = s.disk.replays /\ e.dispatches = s.disk.dispatches
          /\ e.completion = s.disk.completion /\ e.rows = s.disk.rows
          /\ e.failures = s.disk.failures /\ e.voided = s.disk.voided
          /\ e.requeued = s.disk.requeued /\ e.workStop = s.disk.workStop
      BY <1>10
    <3>3. p.disk = e
      BY <3>1
    <3> HIDE DEF e
    <3> QED BY <3>2, <3>3
  <2> HIDE DEF p, m
  <2>6. Kept(s, p) /\ QueueKept(s, p)
    BY <2>1, <2>3, <2>5 DEF Kept, QueueKept
  <2> HIDE DEF wrote, put, gone, cut
  <2> QED BY <1>11, <2>1, <2>2, <2>3, <2>5, <2>6
<1>12. CASE ~brims
  <2>1. Publish(s, t, ok, brims) = put
    BY <1>12 DEF Publish
  <2>2. /\ put.disk.registry = s.disk.registry /\ put.disk.edges = s.disk.edges
        /\ put.disk.replays = s.disk.replays /\ put.disk.dispatches = s.disk.dispatches
        /\ put.disk.completion = s.disk.completion /\ put.disk.rows = s.disk.rows
        /\ put.disk.failures = s.disk.failures /\ put.disk.voided = s.disk.voided
        /\ put.disk.requeued = s.disk.requeued /\ put.disk.workStop = s.disk.workStop
        /\ ok => put.disk.results[t] = s.mem.attempts[t]
    <3> HIDE DEF put
    <3> QED BY <1>1, <1>4, <1>10
  <2> HIDE DEF put
  <2> QED BY <1>4, <1>12, <2>1, <2>2 DEF Kept, QueueKept
<1> QED BY <1>11, <1>12

(* An outcome that may be recorded as row: under a name no earlier run has,  *)
(* on a task without a verdict.                                              *)
Recordable(s, t, row, run, terminal) ==
  /\ t \in Known(s.disk) /\ ~Stands(s.disk, t) /\ run \notin s.disk.rows[t]
  /\ \/ run \in {TerminalRun, ExhaustedRun} /\ terminal
        /\ row.status \in {"blocked", "budget_exceeded"}
     \/ 1 =< run /\ run =< s.disk.dispatches[t]
  /\ terminal => /\ row.status \in Verdicts
                 /\ row.result \in {0, s.disk.results[t]}
                 /\ row.status = "ok" =>
                      1 =< row.attempts /\ row.attempts =< s.disk.dispatches[t]
                 /\ row.status = "blocked" =>
                      t \notin TerminalMode /\ \E x \in Edges(s.disk)[t] : Failed(s.disk, x)
  /\ ~terminal /\ row.status = "software_error" => s.disk.failures[t] + 1 < MaxAttempts

(* r is s with the outcome recorded.                                         *)
Recorded(s, r, t, row, run, terminal) ==
  /\ r \in States /\ Logs(r) /\ Kept(s, r) /\ QueueKept(s, r)
  /\ r.mem.failures = s.mem.failures /\ r.mem.refreshes = s.mem.refreshes
  /\ r.mem.completed = IF terminal THEN [s.mem.completed EXCEPT ![t] = row]
                       ELSE s.mem.completed
  /\ r.disk.voided = s.disk.voided /\ r.disk.requeued = s.disk.requeued
  /\ r.disk.completion = IF terminal THEN [s.disk.completion EXCEPT ![t] = row]
                         ELSE s.disk.completion
  /\ r.disk.rows = [s.disk.rows EXCEPT ![t] = s.disk.rows[t] \cup {run}]
  /\ r.disk.failures =
       [s.disk.failures EXCEPT ![t] = IF row.status = "software_error"
                                      THEN s.disk.failures[t] + 1
                                      ELSE s.disk.failures[t]]
  /\ r.disk.workStop = s.mem.workStop

Rows == [status : Outcomes, attempts : Nat, result : Nat]

\* A verdict goes to its file, then to the rows, and the campaign's state last.
LEMMA SettleSays ==
  ASSUME NEW s \in States, Logs(s), campaign \in Campaigns, NEW t \in Tasks,
         NEW row \in Rows, NEW run \in Int, NEW terminal \in BOOLEAN,
         Recordable(s, t, row, run, terminal)
  PROVE  LET r == Settle(s, t, row, run, terminal) IN
         Recorded(s, r, t, row, run, terminal) /\ r.mem.stop = s.mem.stop
<1> DEFINE d == s.disk
           m == IF terminal THEN [s.mem EXCEPT !.completed[t] = row] ELSE s.mem
           c == IF terminal THEN [d EXCEPT !.completion[t] = row] ELSE d
           kept == IF terminal
                   THEN [Write(s, [s.disk EXCEPT !.completion[t] = row])
                           EXCEPT !.mem.completed[t] = row]
                   ELSE s
           e == Logged(c, t, run, row.status)
           told == Write(kept, e)
           last == [e EXCEPT !.workStop = s.mem.workStop]
<1>1. /\ d \in Directories /\ s.mem \in Memories /\ s.mem.workStop \in BOOLEAN
      /\ Readable(d) /\ Follows(d) /\ TaskRight(d, t)
  BY DEF States, Memories, Logs, Readable
<1> USE DEF Recordable
<1>0. row.status \in Outcomes /\ (terminal => row \in Row)
  BY DEF Row, Rows
<1>2. m \in Memories
  BY <1>0, <1>1 DEF Memories
<1>3. ~Failed(d, t) /\ d.failures[t] < MaxAttempts
  BY <1>1 DEF Stands, Failed, Verdicts, TaskRight
<1>4. c \in Directories /\ Readable(c) /\ Follows(c)
  BY <1>0, <1>1, VerdictWrite
<1>5. kept \in States /\ Logs(kept) /\ kept.disk = c /\ kept.mem = m
  <2>1. CASE terminal
    <3> DEFINE w == Write(s, c)
    <3>1. w \in States /\ Logs(w) /\ w.disk = c /\ w.mem = s.mem
      <4> HIDE DEF c
      <4> QED BY <1>4, WriteLogs
    <3>2. kept = [w EXCEPT !.mem.completed[t] = row]
      BY <2>1
    <3>3. m = [w.mem EXCEPT !.completed[t] = row]
      <4> HIDE DEF w
      <4> QED BY <2>1, <3>1
    <3>4. kept = [w EXCEPT !.mem = m]
      <4> HIDE DEF w, m, kept
      <4> QED BY <3>2, <3>3
    <3> HIDE DEF w, m, kept, c
    <3> QED BY <1>2, <3>1, <3>4, MemoryChange
  <2>2. CASE ~terminal
    BY <2>2
  <2> QED BY <2>1, <2>2
<1>6. /\ c.rows = d.rows /\ c.dispatches = d.dispatches /\ c.failures = d.failures
      /\ c.completion[t] = IF terminal THEN row ELSE d.completion[t]
  BY <1>1 DEF Directories
<1>7. /\ e \in Directories /\ Readable(e) /\ Follows(e)
      /\ e = Rowed(c, t, run, row.status)
  <2>1. run \notin c.rows[t]
    BY <1>6
  <2>2. \/ /\ run \in {TerminalRun, ExhaustedRun}
           /\ c.completion[t].status \in {"blocked", "budget_exceeded"}
        \/ 1 =< run /\ run =< c.dispatches[t]
    BY <1>6
  <2>3. row.status = "software_error" => /\ c.failures[t] < MaxAttempts
                                         /\ ~Failed(c, t) => c.failures[t] + 1 < MaxAttempts
    BY <1>3, <1>6 DEF Failed
  <2> DEFINE status == row.status
  <2>4. /\ status \in Outcomes
        /\ status = "software_error" => /\ c.failures[t] < MaxAttempts
                                        /\ ~Failed(c, t) => c.failures[t] + 1 < MaxAttempts
    <3> HIDE DEF c
    <3> QED BY <1>0, <2>3
  <2>5. /\ Logged(c, t, run, status) \in Directories
        /\ Readable(Logged(c, t, run, status)) /\ Follows(Logged(c, t, run, status))
        /\ Logged(c, t, run, status) = Rowed(c, t, run, status)
    <3> HIDE DEF c, status
    <3> QED BY <1>4, <2>1, <2>2, <2>4, RowWrite
  <2> QED BY <2>5
<1>8. told \in States /\ Logs(told) /\ told.disk = e /\ told.mem = m
  <2> HIDE DEF kept, e, m
  <2> QED BY <1>5, <1>7, WriteLogs
<1>9. m.workStop = s.mem.workStop
  BY <1>1 DEF Memories
<1>10. last \in Directories /\ Readable(last) /\ Follows(last)
  <2> HIDE DEF e
  <2> QED BY <1>1, <1>7, StopWrite
<1>11. Settle(s, t, row, run, terminal) = Write(told, last)
  <2>1. Settle(s, t, row, run, terminal)
          = Campaign(Write(kept, Logged(kept.disk, t, run, row.status)))
    BY DEF Settle
  <2>2. Settle(s, t, row, run, terminal) = Campaign(told)
    <3> HIDE DEF kept, c
    <3> QED BY <1>5, <2>1
  <2>3. Campaign(told) = Write(told, [told.disk EXCEPT !.workStop = told.mem.workStop])
    BY DEF Campaign
  <2> HIDE DEF told, e, m
  <2> QED BY <1>8, <1>9, <2>2, <2>3
<1>12. /\ Write(told, last) \in States /\ Logs(Write(told, last))
       /\ Write(told, last).disk = last /\ Write(told, last).mem = m
  <2> HIDE DEF told, last, m
  <2> QED BY <1>8, <1>10, WriteLogs
<1>13. /\ m.phase = s.mem.phase /\ m.known = s.mem.known /\ m.edges = s.mem.edges
       /\ m.replays = s.mem.replays /\ m.attempts = s.mem.attempts
       /\ m.workStop = s.mem.workStop /\ m.active = s.mem.active
       /\ m.polling = s.mem.polling /\ m.inflight = s.mem.inflight
       /\ m.pending = s.mem.pending /\ m.failures = s.mem.failures
       /\ m.refreshes = s.mem.refreshes /\ m.stop = s.mem.stop
       /\ m.completed = IF terminal THEN [s.mem.completed EXCEPT ![t] = row]
                        ELSE s.mem.completed
  BY <1>1 DEF Memories
<1>14. /\ c.registry = d.registry /\ c.edges = d.edges /\ c.replays = d.replays
       /\ c.dispatches = d.dispatches /\ c.rows = d.rows /\ c.failures = d.failures
       /\ c.voided = d.voided /\ c.requeued = d.requeued
       /\ c.completion = IF terminal THEN [d.completion EXCEPT ![t] = row] ELSE d.completion
  BY <1>1 DEF Directories
<1>15. /\ e.registry = c.registry /\ e.edges = c.edges /\ e.replays = c.replays
       /\ e.dispatches = c.dispatches /\ e.voided = c.voided /\ e.requeued = c.requeued
       /\ e.completion = c.completion
       /\ e.rows = [c.rows EXCEPT ![t] = c.rows[t] \cup {run}]
       /\ e.failures = [c.failures EXCEPT ![t] = IF row.status = "software_error"
                                                 THEN c.failures[t] + 1 ELSE c.failures[t]]
  <2> HIDE DEF c, e
  <2> QED BY <1>4, <1>7 DEF Rowed, Directories
<1>16. /\ last.registry = e.registry /\ last.edges = e.edges /\ last.replays = e.replays
       /\ last.dispatches = e.dispatches /\ last.voided = e.voided
       /\ last.requeued = e.requeued /\ last.completion = e.completion
       /\ last.rows = e.rows /\ last.failures = e.failures /\ last.workStop = s.mem.workStop
  <2> HIDE DEF e
  <2> QED BY <1>7 DEF Directories
<1> DEFINE r == Write(told, last)
<1>17. r \in States /\ Logs(r) /\ r.disk = last /\ r.mem = m
  BY <1>12
<1> HIDE DEF r, last, m, told, e, c
<1>18. Kept(s, r)
  BY <1>13, <1>14, <1>15, <1>16, <1>17 DEF Kept
<1>19. QueueKept(s, r)
  BY <1>13, <1>17 DEF QueueKept
<1>20. Settle(s, t, row, run, terminal) = r
  BY <1>11 DEF r
<1>21. Recorded(s, r, t, row, run, terminal)
  BY <1>13, <1>14, <1>15, <1>16, <1>17, <1>18, <1>19 DEF Recorded
<1> QED BY <1>13, <1>17, <1>20, <1>21

(* The row of an outcome.                                                    *)
RowOf(s, t, status, brims) ==
  [status |-> IF brims THEN "budget_exceeded" ELSE status,
   attempts |-> s.mem.attempts[t],
   result |-> IF status = "ok" /\ ~brims THEN s.mem.attempts[t] ELSE 0]

\* What a record of an outcome changes.
LEMMA RecordWrites ==
  ASSUME NEW s \in States, Logs(s), campaign \in Campaigns, NEW t \in Tasks,
         NEW status \in Outcomes, NEW run \in Int,
         NEW terminal \in BOOLEAN, NEW brims \in BOOLEAN,
         terminal => status \in Verdicts,
         t \in Known(s.disk), ~Stands(s.disk, t), run \notin s.disk.rows[t],
         \/ run \in {TerminalRun, ExhaustedRun} /\ terminal
            /\ status \in {"blocked", "budget_exceeded"}
         \/ 1 =< run /\ run =< s.disk.dispatches[t],
         status = "ok" => 1 =< s.mem.attempts[t] /\ s.mem.attempts[t] =< s.disk.dispatches[t],
         status = "blocked" =>
           t \notin TerminalMode /\ \E x \in Edges(s.disk)[t] : Failed(s.disk, x),
         ~terminal /\ status = "software_error" => s.disk.failures[t] + 1 < MaxAttempts
  PROVE  LET r == Record(s, t, status, run, terminal, brims) IN
         /\ Recorded(s, r, t, RowOf(s, t, status, brims), run, terminal \/ brims)
         /\ r.mem.stop <=> s.mem.stop \/ brims
<1> DEFINE p == Publish(s, t, status = "ok", brims)
           row == RowOf(s, t, status, brims)
           last == terminal \/ brims
           r == Settle(p, t, row, run, last)
<1>1. /\ s.disk \in Directories /\ s.mem \in Memories /\ s.mem.attempts[t] \in Nat
      /\ s.mem.stop \in BOOLEAN
  BY DEF States, Memories
<1>2. /\ p \in States /\ Logs(p) /\ Kept(s, p) /\ QueueKept(s, p)
      /\ p.mem.failures = s.mem.failures /\ p.mem.refreshes = s.mem.refreshes
      /\ p.mem.completed = s.mem.completed /\ (p.mem.stop <=> s.mem.stop \/ brims)
      /\ p.disk.completion = s.disk.completion /\ p.disk.rows = s.disk.rows
      /\ p.disk.failures = s.disk.failures /\ p.disk.voided = s.disk.voided
      /\ p.disk.requeued = s.disk.requeued
      /\ status = "ok" /\ ~brims => p.disk.results[t] = s.mem.attempts[t]
  <2> DEFINE ok == status = "ok"
  <2>1. ok \in BOOLEAN
    OBVIOUS
  <2>2. LET q == Publish(s, t, ok, brims) IN
        /\ q \in States /\ Logs(q) /\ Kept(s, q) /\ QueueKept(s, q)
        /\ q.mem.failures = s.mem.failures /\ q.mem.refreshes = s.mem.refreshes
        /\ q.mem.completed = s.mem.completed /\ (q.mem.stop <=> s.mem.stop \/ brims)
        /\ q.disk.completion = s.disk.completion /\ q.disk.rows = s.disk.rows
        /\ q.disk.failures = s.disk.failures /\ q.disk.voided = s.disk.voided
        /\ q.disk.requeued = s.disk.requeued
        /\ ok /\ ~brims => q.disk.results[t] = s.mem.attempts[t]
    <3> HIDE DEF ok
    <3> QED BY <2>1, PublishSays
  <2> QED BY <2>2
<1> HIDE DEF p
<1>4. /\ p.disk.registry = s.disk.registry /\ p.disk.edges = s.disk.edges
      /\ p.disk.replays = s.disk.replays /\ p.disk.dispatches = s.disk.dispatches
      /\ p.mem.workStop = s.mem.workStop
  BY <1>2 DEF Kept
<1>6. /\ row \in Rows
      /\ last \in BOOLEAN
      /\ row.status = IF brims THEN "budget_exceeded" ELSE status
      /\ row.attempts = s.mem.attempts[t]
      /\ row.result = IF status = "ok" /\ ~brims THEN s.mem.attempts[t] ELSE 0
  BY <1>1 DEF RowOf, Rows, Outcomes, Verdicts
<1>7. Record(s, t, status, run, terminal, brims) = r
  BY DEF Record, RowOf, p
<1> HIDE DEF row, last
<1>8. Known(p.disk) = Known(s.disk) /\ Edges(p.disk) = Edges(s.disk)
  BY <1>4, ShapeElsewhere
<1>9. /\ ~Stands(p.disk, t)
      /\ \A x : Failed(p.disk, x) <=> Failed(s.disk, x)
  BY <1>2 DEF Stands, Failed
<1>10. \/ run \in {TerminalRun, ExhaustedRun} /\ last
          /\ row.status \in {"blocked", "budget_exceeded"}
       \/ 1 =< run /\ run =< p.disk.dispatches[t]
  BY <1>4, <1>6 DEF last
<1>11. last => /\ row.status \in Verdicts
               /\ row.result \in {0, p.disk.results[t]}
               /\ row.status = "ok" =>
                    1 =< row.attempts /\ row.attempts =< p.disk.dispatches[t]
               /\ row.status = "blocked" =>
                    t \notin TerminalMode /\ \E x \in Edges(p.disk)[t] : Failed(p.disk, x)
  <2>1. last => row.status \in Verdicts
    BY <1>6 DEF last, Verdicts
  <2>2. row.result \in {0, p.disk.results[t]}
    BY <1>2, <1>6
  <2>3. row.status = "ok" => 1 =< row.attempts /\ row.attempts =< p.disk.dispatches[t]
    BY <1>4, <1>6
  <2>4. row.status = "blocked" =>
          t \notin TerminalMode /\ \E x \in Edges(p.disk)[t] : Failed(p.disk, x)
    BY <1>6, <1>8, <1>9
  <2> QED BY <2>1, <2>2, <2>3, <2>4
<1>12. ~last /\ row.status = "software_error" => p.disk.failures[t] + 1 < MaxAttempts
  BY <1>2, <1>6 DEF last
<1>13. Recordable(p, t, row, run, last)
  BY <1>2, <1>8, <1>9, <1>10, <1>11, <1>12 DEF Recordable
<1>14. Recorded(p, r, t, row, run, last) /\ r.mem.stop = p.mem.stop
  BY <1>2, <1>6, <1>13, SettleSays
<1> HIDE DEF r
<1>15. Kept(s, r)
  BY <1>2, <1>14 DEF Kept, Recorded
<1>16. QueueKept(s, r)
  BY <1>2, <1>14 DEF QueueKept, Recorded
<1>17. Recorded(s, r, t, row, run, last)
  BY <1>2, <1>4, <1>14, <1>15, <1>16 DEF Recorded
<1> QED BY <1>2, <1>7, <1>14, <1>17 DEF last, row

-----------------------------------------------------------------------------
(* What holds of a handler's state after each of its steps.                  *)

(* The memory is what a runner that reads the directory would load, but for  *)
(* the failures of some tasks.                                               *)
AgreesBesides(s, some) ==
  /\ s.mem.attempts = s.disk.dispatches /\ s.mem.refreshes = s.disk.requeued
  /\ s.mem.completed =
       [t \in Tasks |-> IF Stands(s.disk, t) THEN s.disk.completion[t] ELSE NoRow]
  /\ \A t \in Tasks \ some : ~Failed(s.disk, t) => s.mem.failures[t] = s.disk.failures[t]

(* The attempts that run have no row yet.                                    *)
Owed(s, running) ==
  \A t \in running : /\ s.mem.completed[t] = NoRow
                     /\ s.mem.attempts[t] \notin s.disk.rows[t]
                     /\ 1 =< s.mem.attempts[t] /\ s.disk.voided[t] < s.mem.attempts[t]

(* What is reserved has waited for its dependencies.                         *)
Waits(s) ==
  \A t \in s.mem.inflight : \A x \in s.mem.edges[t] :
     s.mem.completed[x] # NoRow \/ s.disk.voided[x] > 0

(* A finalizer is given up for lack of time or storage only.                 *)
GivenUp(s) ==
  \A t \in Finalizers :
     disk.completion[t] = NoRow /\ s.disk.completion[t].status = "budget_exceeded" =>
       s.mem.stop \/ worker[t].kind = "budget_exceeded"

Good(s, running) ==
  /\ s \in States /\ Logs(s) /\ AgreesBesides(s, {}) /\ Owed(s, running)
  /\ Waits(s) /\ GivenUp(s)

\* What is not ended has no standing verdict.
LEMMA NotEnded ==
  ASSUME NEW s \in States, AgreesBesides(s, Tasks), NEW t \in Tasks
  PROVE  /\ Ended(s, t) <=> Stands(s.disk, t)
         /\ Ended(s, t) => s.mem.completed[t] = s.disk.completion[t]
<1>1. s.mem.completed[t] = IF Stands(s.disk, t) THEN s.disk.completion[t] ELSE NoRow
  BY DEF AgreesBesides
<1>2. Stands(s.disk, t) => s.disk.completion[t] # NoRow
  BY DEF Stands, NoRow, Verdicts
<1> QED BY <1>1, <1>2 DEF Ended

(* What a task's outcome must be to be recorded while others run.           *)
MayRecord(s, running, t, status, run, terminal, brims) ==
  /\ s \in States /\ Logs(s) /\ t \in Known(s.disk) /\ ~Ended(s, t)
  /\ AgreesBesides(s, {t}) /\ Owed(s, running) /\ Waits(s) /\ GivenUp(s)
  /\ terminal => status \in Verdicts
  /\ \/ /\ run \in {TerminalRun, ExhaustedRun} /\ terminal
        /\ status \in {"blocked", "budget_exceeded"}
     \/ run = s.mem.attempts[t] /\ Owed(s, {t})
  /\ status = "ok" => run = s.mem.attempts[t]
  /\ status = "blocked" =>
       t \notin TerminalMode /\ \E x \in Edges(s.disk)[t] : Failed(s.disk, x)
  /\ ~terminal /\ status = "software_error" => s.disk.failures[t] + 1 < MaxAttempts
  /\ \/ (terminal \/ brims) /\ ~(status = "ok" /\ ~brims)
     \/ s.mem.failures[t] = s.disk.failures[t] + IF status = "software_error" THEN 1 ELSE 0
  /\ t \in Finalizers /\ disk.completion[t] = NoRow /\ status = "budget_exceeded" =>
       s.mem.stop \/ worker[t].kind = "budget_exceeded"

\* What is recorded of a task leaves all well.
LEMMA RecordSays ==
  ASSUME campaign \in Campaigns, NEW s, NEW R \in SUBSET Tasks, NEW t \in Tasks,
         NEW status \in Outcomes, NEW run \in Int,
         NEW terminal \in BOOLEAN, NEW brims \in BOOLEAN,
         MayRecord(s, R, t, status, run, terminal, brims)
  PROVE  LET r == Record(s, t, status, run, terminal, brims) IN
         /\ Recorded(s, r, t, RowOf(s, t, status, brims), run, terminal \/ brims)
         /\ Good(r, R \ {t})
         /\ r.mem.stop <=> s.mem.stop \/ brims
<1> USE DEF MayRecord
<1> DEFINE r == Record(s, t, status, run, terminal, brims)
           row == RowOf(s, t, status, brims)
           last == terminal \/ brims
<1>1. /\ s.disk \in Directories /\ s.mem \in Memories
      /\ s.disk.completion \in [Tasks -> Row] /\ s.mem.completed \in [Tasks -> Row]
      /\ s.disk.rows \in [Tasks -> SUBSET Int] /\ s.disk.failures \in [Tasks -> Nat]
      /\ s.mem.attempts \in [Tasks -> Nat] /\ s.mem.attempts = s.disk.dispatches
      /\ Readable(s.disk) /\ TaskRight(s.disk, t)
  BY DEF States, Directories, Memories, AgreesBesides, Logs, Readable
<1>2. AgreesBesides(s, Tasks)
  BY DEF AgreesBesides
<1>3. ~Stands(s.disk, t)
  BY <1>2, NotEnded
<1>4. ~Failed(s.disk, t)
  BY <1>3 DEF Stands, Failed, Verdicts
<1>5. run \notin s.disk.rows[t]
  BY <1>1, <1>4 DEF TaskRight, Failed, Owed
<1>6. \/ run \in {TerminalRun, ExhaustedRun} /\ terminal
         /\ status \in {"blocked", "budget_exceeded"}
      \/ 1 =< run /\ run =< s.disk.dispatches[t]
  BY <1>1 DEF Owed
<1>7. status = "ok" => /\ 1 =< s.mem.attempts[t] /\ s.mem.attempts[t] =< s.disk.dispatches[t]
                       /\ s.disk.voided[t] < s.mem.attempts[t]
  BY <1>1 DEF Owed
<1>8. Recorded(s, r, t, row, run, last) /\ (r.mem.stop <=> s.mem.stop \/ brims)
  BY <1>3, <1>5, <1>6, <1>7, RecordWrites
<1>9. /\ row.status = IF brims THEN "budget_exceeded" ELSE status
      /\ row.attempts = s.mem.attempts[t] /\ row # NoRow
      /\ last => row.status \in Verdicts
  BY DEF RowOf, NoRow, Outcomes, Verdicts
<1> HIDE DEF r, row, last
<1>10. Kept(s, r) /\ QueueKept(s, r) /\ r \in States /\ Logs(r)
  BY <1>8 DEF Recorded
<1>11. /\ \A u \in Tasks \ {t} : /\ r.disk.completion[u] = s.disk.completion[u]
                                 /\ r.mem.completed[u] = s.mem.completed[u]
                                 /\ r.disk.rows[u] = s.disk.rows[u]
                                 /\ r.disk.failures[u] = s.disk.failures[u]
       /\ last => r.disk.completion[t] = row /\ r.mem.completed[t] = row
       /\ ~last => /\ r.disk.completion[t] = s.disk.completion[t]
                   /\ r.mem.completed[t] = s.mem.completed[t]
       /\ r.disk.failures[t] = IF row.status = "software_error" THEN s.disk.failures[t] + 1
                               ELSE s.disk.failures[t]
       /\ r.disk.voided = s.disk.voided /\ r.disk.requeued = s.disk.requeued
       /\ r.mem.failures = s.mem.failures /\ r.mem.refreshes = s.mem.refreshes
  BY <1>1, <1>8 DEF Recorded
<1>12. /\ \A u \in Tasks \ {t} : /\ Stands(r.disk, u) <=> Stands(s.disk, u)
                                 /\ Failed(r.disk, u) <=> Failed(s.disk, u)
       /\ Stands(r.disk, t) <=> last
  <2>1. row.status = "ok" => row.attempts > s.disk.voided[t]
    BY <1>7, <1>9
  <2> QED BY <1>3, <1>9, <1>11, <2>1 DEF Stands, Failed
<1>13. AgreesBesides(r, {})
  <2>1. r.mem.attempts = r.disk.dispatches /\ r.mem.refreshes = r.disk.requeued
    BY <1>10, <1>11 DEF Kept, AgreesBesides
  <2>2. r.mem.completed =
          [u \in Tasks |-> IF Stands(r.disk, u) THEN r.disk.completion[u] ELSE NoRow]
    <3>1. r.mem.completed \in [Tasks -> Row]
      BY <1>10 DEF States, Memories
    <3>2. \A u \in Tasks : s.mem.completed[u] =
            IF Stands(s.disk, u) THEN s.disk.completion[u] ELSE NoRow
      BY DEF AgreesBesides
    <3>3. \A u \in Tasks : r.mem.completed[u] =
            IF Stands(r.disk, u) THEN r.disk.completion[u] ELSE NoRow
      BY <1>3, <1>11, <1>12, <3>2
    <3> QED BY <3>1, <3>3
  <2>3. ASSUME NEW u \in Tasks, ~Failed(r.disk, u)
        PROVE  r.mem.failures[u] = r.disk.failures[u]
    <3>1. CASE u # t
      BY <1>11, <1>12, <2>3, <3>1 DEF AgreesBesides
    <3>2. CASE u = t
      <4>1. last => row.status = "ok"
        BY <1>9, <1>11, <2>3, <3>2 DEF Failed, Verdicts
      <4>2. s.mem.failures[t] = s.disk.failures[t] + IF status = "software_error" THEN 1 ELSE 0
        BY <1>9, <4>1 DEF last
      <4>3. row.status = status
        BY <1>9, <4>1 DEF last
      <4> QED BY <1>1, <1>11, <3>2, <4>2, <4>3
    <3> QED BY <3>1, <3>2
  <2> QED BY <2>1, <2>2, <2>3 DEF AgreesBesides
<1>14. Owed(r, R \ {t})
  BY <1>10, <1>11 DEF Owed, Kept
<1>15. Waits(r)
  <2> SUFFICES ASSUME NEW u \in r.mem.inflight, NEW x \in r.mem.edges[u]
               PROVE  r.mem.completed[x] # NoRow \/ r.disk.voided[x] > 0
    BY DEF Waits
  <2>1. u \in s.mem.inflight /\ x \in s.mem.edges[u] /\ x \in Tasks
    BY <1>1, <1>10 DEF Kept, QueueKept, Memories
  <2>2. s.mem.completed[x] # NoRow \/ s.disk.voided[x] > 0
    BY <2>1 DEF Waits
  <2> QED BY <1>9, <1>11, <2>1, <2>2
<1>16. GivenUp(r)
  <2> SUFFICES ASSUME NEW u \in Finalizers, disk.completion[u] = NoRow,
                      r.disk.completion[u].status = "budget_exceeded"
               PROVE  r.mem.stop \/ worker[u].kind = "budget_exceeded"
    BY DEF GivenUp
  <2>1. u \in Tasks
    BY TaskPlanAssumption DEF Finalizers
  <2>2. CASE u = t /\ last
    BY <1>8, <1>9, <1>11, <2>2 DEF last
  <2>3. CASE ~(u = t /\ last)
    BY <1>8, <1>11, <2>1, <2>3 DEF GivenUp
  <2> QED BY <2>2, <2>3
<1> QED BY <1>8, <1>10, <1>13, <1>14, <1>15, <1>16 DEF Good, r, row, last

(* r is s with a verdict on t.                                               *)
Ruled(s, r, running, t) ==
  /\ Good(r, running) /\ Kept(s, r) /\ QueueKept(s, r) /\ Ended(r, t)
  /\ \A u \in Tasks : Ended(s, u) => Ended(r, u)
  /\ \A u \in Tasks \ {t} : r.disk.completion[u] = s.disk.completion[u]

\* A verdict for a task that does not run.
LEMMA VerdictSays ==
  ASSUME campaign \in Campaigns, NEW R \in SUBSET Tasks, NEW s, Good(s, R),
         NEW t \in Tasks, t \in Known(s.disk), ~Ended(s, t), t \notin R,
         NEW status \in {"blocked", "budget_exceeded"},
         NEW run \in {TerminalRun, ExhaustedRun},
         status = "blocked" =>
           t \notin TerminalMode /\ \E x \in Edges(s.disk)[t] : Failed(s.disk, x),
         t \in Finalizers /\ disk.completion[t] = NoRow /\ status = "budget_exceeded" =>
           s.mem.stop
  PROVE  LET r == Record(s, t, status, run, TRUE, FALSE) IN
         Ruled(s, r, R, t)
<1> DEFINE r == Record(s, t, status, run, TRUE, FALSE)
           row == RowOf(s, t, status, FALSE)
<1>1. /\ status \in Outcomes /\ run \in Int /\ status \in Verdicts
      /\ status # "ok" /\ status # "software_error" /\ row # NoRow
  BY DEF Outcomes, Verdicts, TerminalRun, ExhaustedRun, RowOf, NoRow
<1>2. AgreesBesides(s, {t})
  BY DEF Good, AgreesBesides
<1>3. MayRecord(s, R, t, status, run, TRUE, FALSE)
  BY <1>1, <1>2 DEF MayRecord, Good
<1>4. Recorded(s, r, t, row, run, TRUE) /\ Good(r, R \ {t})
  <2>1. TRUE \in BOOLEAN /\ FALSE \in BOOLEAN /\ (TRUE \/ FALSE) = TRUE
    OBVIOUS
  <2> QED BY <1>1, <1>3, <2>1, RecordSays
<1>5. R \ {t} = R
  OBVIOUS
<1> HIDE DEF r, row
<1>6. /\ Kept(s, r) /\ QueueKept(s, r)
      /\ r.mem.completed = [s.mem.completed EXCEPT ![t] = row]
      /\ r.disk.completion = [s.disk.completion EXCEPT ![t] = row]
  BY <1>4 DEF Recorded
<1>7. s.mem.completed \in [Tasks -> Row] /\ s.disk.completion \in [Tasks -> Row]
  BY DEF Good, States, Memories, Directories
<1>8. /\ Ended(r, t) /\ \A u \in Tasks : Ended(s, u) => Ended(r, u)
      /\ \A u \in Tasks \ {t} : r.disk.completion[u] = s.disk.completion[u]
  BY <1>1, <1>6, <1>7 DEF Ended
<1> QED BY <1>4, <1>5, <1>6, <1>8 DEF r, Ruled

(* No verdict is younger than the handler.                                   *)
Fresh(s) == \A t \in Tasks : disk.completion[t] = NoRow => s.disk.completion[t] = NoRow

\* A budget ends an open task, and leaves the others as they are.
LEMMA ExpireSays ==
  ASSUME campaign \in Campaigns, NEW R \in SUBSET Tasks, NEW s, Good(s, R),
         R \subseteq ToSet(s.mem.active), s.mem.known \subseteq Known(s.disk),
         NEW ts, ts \cap Finalizers = {} \/ s.mem.stop, NEW t \in Tasks
  PROVE  LET r == Expire(s, t, ts) IN
         /\ Good(r, R) /\ Kept(s, r) /\ QueueKept(s, r)
         /\ t \in ts \cap s.mem.known /\ t \notin ToSet(s.mem.active) => Ended(r, t)
         /\ \A u \in Tasks : Ended(s, u) => Ended(r, u)
<1> DEFINE r == Expire(s, t, ts)
<1>1. CASE t \notin Open(s, ts)
  <2>1. r = s
    BY <1>1 DEF Expire
  <2>2. Kept(s, s) /\ QueueKept(s, s)
    BY DEF Kept, QueueKept
  <2> QED BY <1>1, <2>1, <2>2 DEF Open
<1>2. CASE t \in Open(s, ts)
  <2>1. /\ r = Record(s, t, "budget_exceeded", TerminalRun, TRUE, FALSE)
        /\ t \in Known(s.disk) /\ ~Ended(s, t) /\ t \notin R /\ t \in ts
    BY <1>2 DEF Expire, Open
  <2>2. t \in Finalizers => s.mem.stop
    BY <2>1
  <2> DEFINE status == "budget_exceeded"
             run == TerminalRun
  <2>3. status \in {"blocked", "budget_exceeded"} /\ run \in {TerminalRun, ExhaustedRun}
        /\ status # "blocked"
    OBVIOUS
  <2>4. LET q == Record(s, t, status, run, TRUE, FALSE) IN
        Ruled(s, q, R, t)
    <3> HIDE DEF status, run
    <3> QED BY <2>1, <2>2, <2>3, VerdictSays
  <2> QED BY <2>1, <2>4 DEF Ruled
<1> QED BY <1>1, <1>2

(* What is queued was reserved, and nothing is queued twice.                 *)
Queues(m) ==
  /\ IsInjective(m.pending) /\ IsInjective(m.active)
  /\ ToSet(m.pending) \cap ToSet(m.active) = {}
  /\ ToSet(m.pending) \cup ToSet(m.active) \subseteq m.inflight
  /\ m.inflight \subseteq m.known

\* One more in a queue.
LEMMA AppendSays ==
  ASSUME NEW q \in Seq(Tasks), NEW t \in Tasks
  PROVE  /\ Append(q, t) \in Seq(Tasks)
         /\ ToSet(Append(q, t)) = ToSet(q) \cup {t}
         /\ Len(Append(q, t)) = Len(q) + 1
         /\ IsInjective(q) /\ t \notin ToSet(q) => IsInjective(Append(q, t))
<1>1. /\ DOMAIN Append(q, t) = DOMAIN q \cup {Len(q) + 1}
      /\ \A i \in DOMAIN q : Append(q, t)[i] = q[i]
      /\ Append(q, t)[Len(q) + 1] = t
  OBVIOUS
<1>2. ToSet(Append(q, t)) = ToSet(q) \cup {t}
  BY <1>1 DEF ToSet
<1>3. ASSUME IsInjective(q), t \notin ToSet(q) PROVE IsInjective(Append(q, t))
  BY <1>1, <1>3 DEF IsInjective, ToSet
<1> QED BY <1>2, <1>3

\* A task is reserved when its dependencies have ended, blocked when one has failed.
LEMMA ReadySays ==
  ASSUME campaign \in Campaigns, NEW s, Good(s, ToSet(s.mem.active)), Queues(s.mem),
         s.mem.known \subseteq Known(s.disk), s.mem.edges = Edges(s.disk), NEW t \in Tasks
  PROVE  LET r == Ready(s, t) IN
         Good(r, ToSet(s.mem.active)) /\ Kept(s, r) /\ Queues(r.mem)
<1> DEFINE r == Ready(s, t)
           R == ToSet(s.mem.active)
<1>1. /\ s \in States /\ Logs(s) /\ AgreesBesides(s, {}) /\ Owed(s, R)
      /\ Waits(s) /\ GivenUp(s) /\ s.mem \in Memories /\ s.disk \in Directories
  BY DEF Good, States
<1>2. R \in SUBSET Tasks /\ s.mem.edges[t] \subseteq Tasks /\ Good(s, R)
  BY <1>1 DEF Memories, ToSet
<1>3. Kept(s, s)
  BY DEF Kept
<1>4. CASE r = s
  BY <1>3, <1>4
<1>5. CASE /\ t \in s.mem.known /\ ~Ended(s, t) /\ t \notin s.mem.inflight
           /\ FailedNeeds(s, t) # {} /\ t \notin TerminalMode
           /\ r = Record(s, t, "blocked", TerminalRun, TRUE, FALSE)
  <2>1. AgreesBesides(s, {t}) /\ AgreesBesides(s, Tasks)
    BY <1>1 DEF AgreesBesides
  <2>2. PICK x \in s.mem.edges[t] : Ended(s, x) /\ s.mem.completed[x].status # "ok"
    BY <1>5 DEF FailedNeeds
  <2>3. Failed(s.disk, x) /\ x \in Edges(s.disk)[t]
    <3>1. Stands(s.disk, x) /\ s.disk.completion[x].status # "ok"
      BY <1>1, <1>2, <2>1, <2>2, NotEnded
    <3> QED BY <2>2, <3>1 DEF Stands, Failed, Verdicts
  <2>4. t \notin R /\ t \in Known(s.disk)
    BY <1>5 DEF Queues
  <2> DEFINE status == "blocked"
             run == TerminalRun
  <2>5. status \in {"blocked", "budget_exceeded"} /\ run \in {TerminalRun, ExhaustedRun}
        /\ status # "budget_exceeded"
    OBVIOUS
  <2>6. LET q == Record(s, t, status, run, TRUE, FALSE) IN
        Ruled(s, q, R, t)
    <3> HIDE DEF R, status, run
    <3> QED BY <1>2, <1>5, <2>3, <2>4, <2>5, VerdictSays
  <2>7. Good(r, R) /\ Kept(s, r) /\ QueueKept(s, r)
    <3> HIDE DEF R
    <3> QED BY <1>5, <2>6 DEF Ruled
  <2>8. Queues(r.mem)
    <3> HIDE DEF r
    <3> QED BY <2>7 DEF Queues, Kept, QueueKept
  <2> QED BY <2>7, <2>8
<1>6. CASE /\ t \in s.mem.known /\ t \notin s.mem.inflight /\ MayRun(s, t)
           /\ r = [s EXCEPT !.mem.inflight = @ \cup {t}, !.mem.pending = Append(@, t)]
  <2> DEFINE pending == Append(s.mem.pending, t)
             inflight == s.mem.inflight \cup {t}
             m == [s.mem EXCEPT !.inflight = inflight, !.pending = pending]
  <2>1. /\ pending \in Seq(Tasks) /\ ToSet(pending) = ToSet(s.mem.pending) \cup {t}
        /\ IsInjective(pending) /\ inflight \subseteq Tasks
    <3>1. s.mem.pending \in Seq(Tasks) /\ s.mem.inflight \subseteq Tasks
      BY <1>1 DEF Memories
    <3>2. IsInjective(s.mem.pending) /\ t \notin ToSet(s.mem.pending)
      BY <1>6 DEF Queues
    <3> QED BY <3>1, <3>2, AppendSays
  <2> HIDE DEF pending
  <2>2. /\ m \in Memories /\ m.inflight = inflight /\ m.pending = pending
        /\ m.phase = s.mem.phase /\ m.known = s.mem.known /\ m.edges = s.mem.edges
        /\ m.replays = s.mem.replays /\ m.attempts = s.mem.attempts
        /\ m.workStop = s.mem.workStop /\ m.active = s.mem.active
        /\ m.polling = s.mem.polling /\ m.failures = s.mem.failures
        /\ m.refreshes = s.mem.refreshes /\ m.completed = s.mem.completed
        /\ m.stop = s.mem.stop
    <3> HIDE DEF inflight
    <3> QED BY <1>1, <2>1 DEF Memories
  <2>3. r = [s EXCEPT !.mem = m]
    BY <1>1, <1>6 DEF States, Memories, pending
  <2> HIDE DEF m, r
  <2>4. r \in States /\ Logs(r) /\ r.disk = s.disk /\ r.mem = m
    BY <1>1, <2>2, <2>3, MemoryChange
  <2>5. AgreesBesides(r, {}) /\ Owed(r, R) /\ GivenUp(r)
    BY <1>1, <2>2, <2>4 DEF AgreesBesides, Owed, GivenUp
  <2>6. Waits(r)
    BY <1>1, <1>6, <2>2, <2>4 DEF Waits, MayRun, Ended
  <2>7. Queues(r.mem)
    BY <1>6, <2>1, <2>2, <2>4 DEF Queues
  <2>8. Kept(s, r)
    BY <2>2, <2>4 DEF Kept
  <2>9. Good(r, R)
    <3> HIDE DEF R
    <3> QED BY <2>4, <2>5, <2>6 DEF Good
  <2> QED BY <2>7, <2>8, <2>9 DEF r
<1> QED BY <1>4, <1>5, <1>6 DEF Ready

\* A damaged success is withdrawn, and made again or given up.
LEMMA WithdrawSays ==
  ASSUME campaign \in Campaigns, NEW R \in SUBSET Tasks, NEW s, Good(s, R), Fresh(s),
         NEW t \in Tasks
  PROVE  LET r == InvalidateDamaged(s, t) IN
         Good(r, R) /\ Fresh(r) /\ Kept(s, r) /\ QueueKept(s, r)
<1> DEFINE r == InvalidateDamaged(s, t)
           d == s.disk
           row == d.completion[t]
           again == s.mem.refreshes[t] < MaxRefreshes
           count == IF again THEN d.requeued[t] + 1 ELSE d.requeued[t]
           refused == IF again THEN d.refused \ {t} ELSE d.refused \cup {t}
           e == [d EXCEPT !.voided[t] = row.attempts, !.requeued[t] = count,
                          !.refused = refused]
           w == Write(s, e)
           m == [s.mem EXCEPT !.completed[t] = NoRow]
           open == [w EXCEPT !.mem = m]
<1>1. /\ s \in States /\ Logs(s) /\ AgreesBesides(s, {}) /\ Owed(s, R)
      /\ Waits(s) /\ GivenUp(s) /\ s.mem \in Memories /\ d \in Directories
      /\ Readable(d) /\ Follows(d) /\ TaskRight(d, t)
  BY DEF Good, States, Logs, Readable
<1>2. AgreesBesides(s, Tasks)
  BY <1>1 DEF AgreesBesides
<1>3. CASE ~(s.mem.completed[t].status = "ok" /\ t \notin healthy)
  <2>1. r = s
    BY <1>3 DEF InvalidateDamaged
  <2>2. Kept(s, s) /\ QueueKept(s, s)
    BY DEF Kept, QueueKept
  <2> HIDE DEF r
  <2> QED BY <2>1, <2>2 DEF r
<1>4. CASE s.mem.completed[t].status = "ok" /\ t \notin healthy
  <2>1. Ended(s, t)
    BY <1>4 DEF Ended, NoRow
  <2>2. /\ s.mem.completed[t] = row /\ row.status = "ok" /\ Stands(d, t)
        /\ row \in Row /\ row.attempts \in Nat /\ 1 =< row.attempts
        /\ t \in Known(d) /\ row # NoRow /\ t \notin R
    <3>1. s.mem.completed[t] = row /\ Stands(d, t)
      BY <1>1, <1>2, <2>1, NotEnded
    <3>2. row \in Row
      BY <1>1 DEF Directories
    <3>3. row # NoRow /\ row.status = "ok"
      BY <1>4, <3>1 DEF NoRow
    <3>4. t \in Known(d) /\ 1 =< row.attempts
      BY <1>1, <3>3 DEF TaskRight
    <3>5. t \notin R
      BY <1>1, <2>1 DEF Owed, Ended
    <3> QED BY <3>1, <3>2, <3>3, <3>4, <3>5 DEF Row
  <2> HIDE DEF row
  <2>3. r = Invalidate(s, t)
    BY <1>4 DEF InvalidateDamaged
  <2>4. /\ count \in Nat /\ refused \in SUBSET Tasks /\ d.requeued \in [Tasks -> Nat]
        /\ d.voided \in [Tasks -> Int] /\ s.mem.refreshes = d.requeued
        /\ d.completion \in [Tasks -> Row] /\ d.rows \in [Tasks -> SUBSET Int]
    BY <1>1 DEF Directories, AgreesBesides
  <2>5. e \in Directories /\ Readable(e) /\ Follows(e) /\ ~Stands(e, t)
    <3> HIDE DEF count, refused
    <3> QED BY <1>1, <1>4, <2>2, <2>4, AuditWrite DEF row
  <2>6. /\ e.registry = d.registry /\ e.edges = d.edges /\ e.replays = d.replays
        /\ e.dispatches = d.dispatches /\ e.rows = d.rows /\ e.failures = d.failures
        /\ e.completion = d.completion /\ e.workStop = d.workStop
        /\ e.voided = [d.voided EXCEPT ![t] = row.attempts]
        /\ e.requeued = [d.requeued EXCEPT ![t] = count]
    <3> HIDE DEF count, refused
    <3> QED BY <1>1 DEF Directories
  <2> HIDE DEF e
  <2>7. w \in States /\ Logs(w) /\ w.disk = e /\ w.mem = s.mem
    BY <1>1, <2>5, WriteLogs
  <2>8. /\ m \in Memories /\ m.completed = [s.mem.completed EXCEPT ![t] = NoRow]
        /\ m.phase = s.mem.phase /\ m.known = s.mem.known /\ m.edges = s.mem.edges
        /\ m.replays = s.mem.replays /\ m.attempts = s.mem.attempts
        /\ m.workStop = s.mem.workStop /\ m.active = s.mem.active
        /\ m.polling = s.mem.polling /\ m.failures = s.mem.failures
        /\ m.refreshes = s.mem.refreshes /\ m.stop = s.mem.stop
        /\ m.inflight = s.mem.inflight /\ m.pending = s.mem.pending
    <3>1. NoRow \in Row
      BY DEF NoRow, Row
    <3> QED BY <1>1, <3>1 DEF Memories
  <2> HIDE DEF w, m
  <2>9. open \in States /\ Logs(open) /\ open.disk = e /\ open.mem = m
    BY <2>7, <2>8, MemoryChange
  <2>10. Invalidate(s, t) =
           IF again
           THEN [Write(open, [open.disk EXCEPT !.completion[t].status = "invalidated",
                                               !.completion[t].result = 0])
                   EXCEPT !.mem.refreshes[t] = @ + 1]
           ELSE Record(open, t, "budget_exceeded", ExhaustedRun, TRUE, FALSE)
    <3> DEFINE audited == [s.disk EXCEPT !.voided[t] = s.mem.completed[t].attempts,
                                         !.requeued[t] = IF again THEN @ + 1 ELSE @,
                                         !.refused = IF again THEN @ \ {t} ELSE @ \cup {t}]
               opened == [Write(s, audited) EXCEPT !.mem.completed[t] = NoRow]
    <3>1. Invalidate(s, t) =
            IF again
            THEN [Write(opened, [opened.disk EXCEPT !.completion[t].status = "invalidated",
                                                    !.completion[t].result = 0])
                    EXCEPT !.mem.refreshes[t] = @ + 1]
            ELSE Record(opened, t, "budget_exceeded", ExhaustedRun, TRUE, FALSE)
      BY DEF Invalidate
    <3>2. audited = e
      BY <1>1, <2>2 DEF e, Directories
    <3>3. opened = open
      <4>1. m = [w.mem EXCEPT !.completed[t] = NoRow]
        BY <2>7 DEF m
      <4>2. open = [w EXCEPT !.mem.completed[t] = NoRow]
        BY <4>1
      <4>3. opened = [Write(s, e) EXCEPT !.mem.completed[t] = NoRow]
        <5> HIDE DEF audited
        <5> QED BY <3>2
      <4> HIDE DEF opened, open
      <4> QED BY <4>2, <4>3 DEF w
    <3> HIDE DEF open, opened, again
    <3> QED BY <3>1, <3>3
  <2> HIDE DEF open
  <2>11. \A u \in Tasks \ {t} : Stands(e, u) <=> Stands(d, u)
    BY <2>4, <2>6 DEF Stands
  <2>12. \A u : Failed(e, u) <=> Failed(d, u)
    BY <2>6 DEF Failed
  <2>13. s.mem.completed \in [Tasks -> Row]
    BY <1>1 DEF Memories
  <2>14. \A u \in Tasks : m.completed[u] = IF Stands(e, u) THEN e.completion[u] ELSE NoRow
    <3>1. \A u \in Tasks : s.mem.completed[u] =
            IF Stands(d, u) THEN d.completion[u] ELSE NoRow
      BY <1>1 DEF AgreesBesides
    <3> QED BY <2>5, <2>6, <2>8, <2>11, <2>13, <3>1
  <2>15. \A u \in Tasks : ~Failed(e, u) => m.failures[u] = e.failures[u]
    BY <1>1, <2>6, <2>8, <2>12 DEF AgreesBesides
  <2>16. Owed(open, R)
    BY <1>1, <2>2, <2>4, <2>6, <2>8, <2>9, <2>13 DEF Owed
  <2>17. Waits(open)
    <3> SUFFICES ASSUME NEW u \in m.inflight, NEW x \in m.edges[u]
                 PROVE  m.completed[x] # NoRow \/ e.voided[x] > 0
      BY <2>9 DEF Waits
    <3>1. u \in s.mem.inflight /\ x \in s.mem.edges[u] /\ x \in Tasks
      BY <1>1, <2>8 DEF Memories
    <3>2. s.mem.completed[x] # NoRow \/ d.voided[x] > 0
      BY <1>1, <3>1 DEF Waits
    <3> QED BY <2>2, <2>4, <2>6, <2>8, <2>13, <3>1, <3>2
  <2>18. Fresh(open) /\ GivenUp(open) /\ disk.completion[t] # NoRow
    <3>1. \A u \in Finalizers : u \in Tasks
      BY TaskPlanAssumption DEF Finalizers
    <3> QED BY <2>2, <2>6, <2>9, <3>1 DEF Fresh, GivenUp, row, NoRow
  <2>19. Kept(s, open) /\ QueueKept(s, open)
    BY <2>6, <2>8, <2>9 DEF Kept, QueueKept
  <2>20. CASE again
    <3> DEFINE back == [row EXCEPT !.status = "invalidated", !.result = 0]
               f == [e EXCEPT !.completion[t] = back]
               v == Write(open, f)
               n == [m EXCEPT !.refreshes[t] = m.refreshes[t] + 1]
               q == [v EXCEPT !.mem = n]
    <3>1. back \in Row /\ back.status = "invalidated" /\ back # NoRow
      BY <2>2 DEF Row, NoRow
    <3>2. e.completion[t].status = "ok"
      BY <2>2, <2>6 DEF row
    <3> HIDE DEF back
    <3>3. f \in Directories /\ Readable(f) /\ Follows(f) /\ ~Stands(f, t)
      BY <2>5, <3>1, <3>2, WithdrawnWrite
    <3>4. /\ f.registry = e.registry /\ f.edges = e.edges /\ f.replays = e.replays
          /\ f.dispatches = e.dispatches /\ f.rows = e.rows /\ f.failures = e.failures
          /\ f.workStop = e.workStop /\ f.voided = e.voided /\ f.requeued = e.requeued
          /\ f.completion = [e.completion EXCEPT ![t] = back]
      BY <2>5 DEF Directories
    <3> HIDE DEF f
    <3>5. v \in States /\ Logs(v) /\ v.disk = f /\ v.mem = m
      BY <2>9, <3>3, WriteLogs
    <3>6. /\ n \in Memories /\ n.refreshes = [m.refreshes EXCEPT ![t] = m.refreshes[t] + 1]
          /\ n.phase = m.phase /\ n.known = m.known /\ n.edges = m.edges
          /\ n.replays = m.replays /\ n.attempts = m.attempts
          /\ n.workStop = m.workStop /\ n.active = m.active
          /\ n.polling = m.polling /\ n.failures = m.failures
          /\ n.completed = m.completed /\ n.stop = m.stop
          /\ n.inflight = m.inflight /\ n.pending = m.pending
      <4> DEFINE more == [m.refreshes EXCEPT ![t] = m.refreshes[t] + 1]
      <4>1. m.refreshes \in [Tasks -> Nat]
        BY <2>8 DEF Memories
      <4>2. more \in [Tasks -> Nat]
        BY <4>1
      <4> HIDE DEF more
      <4>3. n = [m EXCEPT !.refreshes = more]
        BY DEF more
      <4> HIDE DEF n
      <4>4. /\ n \in Memories /\ n.refreshes = more
            /\ n.phase = m.phase /\ n.known = m.known /\ n.edges = m.edges
            /\ n.replays = m.replays /\ n.attempts = m.attempts
            /\ n.workStop = m.workStop /\ n.active = m.active
            /\ n.polling = m.polling /\ n.failures = m.failures
            /\ n.completed = m.completed /\ n.stop = m.stop
            /\ n.inflight = m.inflight /\ n.pending = m.pending
        BY <2>8, <4>2, <4>3 DEF Memories
      <4> QED BY <4>4 DEF more
    <3> HIDE DEF v, n
    <3>7. q \in States /\ Logs(q) /\ q.disk = f /\ q.mem = n
      BY <3>5, <3>6, MemoryChange
    <3>8. r = q
      <4>1. f = [open.disk EXCEPT !.completion[t].status = "invalidated",
                                  !.completion[t].result = 0]
        <5>1. e.completion[t] = row
          BY <2>6 DEF row
        <5>2. e.completion \in [Tasks -> Row]
          BY <2>5 DEF Directories
        <5> QED BY <2>5, <2>9, <5>1, <5>2 DEF f, back, Directories
      <4>2. q = [v EXCEPT !.mem.refreshes[t] = @ + 1]
        BY <3>5 DEF n
      <4> HIDE DEF q, r
      <4> QED BY <2>3, <2>10, <2>20, <4>1, <4>2 DEF v
    <3> HIDE DEF q
    <3>9. \A u \in Tasks \ {t} : Stands(f, u) <=> Stands(e, u)
      BY <3>4 DEF Stands
    <3>10. \A u \in Tasks : (Failed(f, u) <=> Failed(e, u))
      BY <2>6, <3>1, <3>2, <3>4, <2>4 DEF Failed
    <3>11. AgreesBesides(q, {})
      <4>1. n.attempts = f.dispatches
        BY <1>1, <2>6, <2>8, <3>4, <3>6 DEF AgreesBesides
      <4>2. n.refreshes = f.requeued
        BY <2>4, <2>6, <2>8, <2>20, <3>4, <3>6
      <4>3. n.completed = [u \in Tasks |-> IF Stands(f, u) THEN f.completion[u] ELSE NoRow]
        <5>1. n.completed \in [Tasks -> Row]
          BY <3>6 DEF Memories
        <5>2. \A u \in Tasks : n.completed[u] = IF Stands(f, u) THEN f.completion[u] ELSE NoRow
          BY <2>4, <2>5, <2>6, <2>14, <3>3, <3>4, <3>6, <3>9
        <5> QED BY <5>1, <5>2
      <4>4. \A u \in Tasks : ~Failed(f, u) => n.failures[u] = f.failures[u]
        BY <2>15, <3>4, <3>6, <3>10
      <4> QED BY <3>7, <4>1, <4>2, <4>3, <4>4 DEF AgreesBesides
    <3>12. Owed(q, R) /\ Waits(q)
      BY <2>9, <2>16, <2>17, <3>4, <3>6, <3>7 DEF Owed, Waits
    <3>13. Fresh(q) /\ GivenUp(q)
      <4>1. \A u \in Finalizers : u \in Tasks
        BY TaskPlanAssumption DEF Finalizers
      <4> QED BY <2>4, <2>6, <2>9, <2>18, <3>1, <3>4, <3>6, <3>7, <4>1 DEF Fresh, GivenUp, NoRow
    <3>14. Kept(s, q) /\ QueueKept(s, q)
      BY <2>9, <2>19, <3>4, <3>6, <3>7 DEF Kept, QueueKept
    <3> QED BY <3>7, <3>8, <3>11, <3>12, <3>13, <3>14 DEF Good
  <2>21. CASE ~again
    <3>1. AgreesBesides(open, {})
      <4>1. m.attempts = e.dispatches
        BY <1>1, <2>6, <2>8 DEF AgreesBesides
      <4>2. m.refreshes = e.requeued
        BY <2>4, <2>6, <2>8, <2>21
      <4>3. m.completed = [u \in Tasks |-> IF Stands(e, u) THEN e.completion[u] ELSE NoRow]
        <5>1. m.completed \in [Tasks -> Row]
          BY <2>8 DEF Memories
        <5> QED BY <2>14, <5>1
      <4> QED BY <2>9, <2>15, <4>1, <4>2, <4>3 DEF AgreesBesides
    <3>2. Good(open, R)
      BY <2>9, <2>16, <2>17, <2>18, <3>1 DEF Good
    <3>3. t \in Known(open.disk) /\ ~Ended(open, t)
      BY <2>2, <2>6, <2>8, <2>9, <2>13 DEF Known, Ended
    <3> DEFINE status == "budget_exceeded"
               run == ExhaustedRun
    <3>4. status \in {"blocked", "budget_exceeded"} /\ run \in {TerminalRun, ExhaustedRun}
          /\ status # "blocked"
      OBVIOUS
    <3>5. LET q == Record(open, t, status, run, TRUE, FALSE) IN
          Ruled(open, q, R, t)
      <4>1. /\ t \notin R
            /\ status = "blocked" => t \notin TerminalMode
                                    /\ \E x \in Edges(open.disk)[t] : Failed(open.disk, x)
            /\ t \in Finalizers /\ disk.completion[t] = NoRow /\ status = "budget_exceeded" =>
                 open.mem.stop
        BY <2>2, <2>18, <3>4
      <4> HIDE DEF status, run
      <4> QED BY <3>2, <3>3, <3>4, <4>1, VerdictSays
    <3>6. r = Record(open, t, status, run, TRUE, FALSE)
      BY <2>3, <2>10, <2>21
    <3> HIDE DEF r, status, run
    <3>7. Kept(s, r)
      BY <2>19, <3>5, <3>6 DEF Kept, Ruled
    <3>8. QueueKept(s, r)
      BY <2>19, <3>5, <3>6 DEF QueueKept, Ruled
    <3>9. Fresh(r)
      BY <2>18, <3>5, <3>6 DEF Fresh, Ruled
    <3> QED BY <3>5, <3>6, <3>7, <3>8, <3>9 DEF r, Ruled
  <2> QED BY <2>20, <2>21
<1> QED BY <1>3, <1>4

\* A verdict whose artifacts were found damaged is marked so.
LEMMA MarkSays ==
  ASSUME campaign \in Campaigns, NEW R \in SUBSET Tasks, NEW s, Good(s, R), Fresh(s), NEW t \in Tasks
  PROVE  LET r == MarkInvalidated(s, t) IN
         Good(r, R) /\ Fresh(r) /\ Kept(s, r) /\ QueueKept(s, r)
<1> DEFINE r == MarkInvalidated(s, t)
           d == s.disk
           back == [d.completion[t] EXCEPT !.status = "invalidated"]
           f == [d EXCEPT !.completion[t] = back]
           q == Write(s, f)
<1>1. /\ s \in States /\ Logs(s) /\ AgreesBesides(s, {}) /\ Owed(s, R)
      /\ Waits(s) /\ GivenUp(s) /\ d \in Directories /\ Readable(d) /\ Follows(d)
      /\ d.completion \in [Tasks -> Row] /\ d.completion[t] \in Row
  BY DEF Good, States, Logs, Directories
<1>2. CASE ~(d.completion[t].status = "ok" /\ ~Stands(d, t))
  <2>1. r = s
    BY <1>2 DEF MarkInvalidated
  <2>2. Kept(s, s) /\ QueueKept(s, s)
    BY DEF Kept, QueueKept
  <2> HIDE DEF r
  <2> QED BY <2>1, <2>2 DEF r
<1>3. CASE d.completion[t].status = "ok" /\ ~Stands(d, t)
  <2>1. back \in Row /\ back.status = "invalidated" /\ back # NoRow
        /\ d.completion[t] # NoRow
    BY <1>1, <1>3 DEF Row, NoRow
  <2>2. r = q
    BY <1>1, <1>3 DEF MarkInvalidated, Directories
  <2> HIDE DEF back, r
  <2>3. f \in Directories /\ Readable(f) /\ Follows(f) /\ ~Stands(f, t)
    BY <1>1, <1>3, <2>1, WithdrawnWrite
  <2>4. /\ f.registry = d.registry /\ f.edges = d.edges /\ f.replays = d.replays
        /\ f.dispatches = d.dispatches /\ f.rows = d.rows /\ f.failures = d.failures
        /\ f.workStop = d.workStop /\ f.voided = d.voided /\ f.requeued = d.requeued
        /\ f.completion = [d.completion EXCEPT ![t] = back]
    BY <1>1 DEF Directories
  <2> HIDE DEF f
  <2>5. q \in States /\ Logs(q) /\ q.disk = f /\ q.mem = s.mem
    BY <1>1, <2>3, WriteLogs
  <2> HIDE DEF q
  <2>6. \A u \in Tasks \ {t} : Stands(f, u) <=> Stands(d, u)
    BY <2>4 DEF Stands
  <2>7. \A u \in Tasks : Failed(f, u) <=> Failed(d, u)
    BY <1>1, <1>3, <2>1, <2>4 DEF Failed
  <2>8. AgreesBesides(q, {})
    <3>1. s.mem.completed \in [Tasks -> Row]
      BY <1>1 DEF States, Memories
    <3>2. \A u \in Tasks : s.mem.completed[u] =
            IF Stands(d, u) THEN d.completion[u] ELSE NoRow
      BY <1>1 DEF AgreesBesides
    <3>3. \A u \in Tasks : s.mem.completed[u] =
            IF Stands(f, u) THEN f.completion[u] ELSE NoRow
      BY <1>1, <1>3, <2>3, <2>4, <2>6, <3>2
    <3>4. s.mem.completed = [u \in Tasks |-> IF Stands(f, u) THEN f.completion[u] ELSE NoRow]
      BY <3>1, <3>3
    <3> QED BY <1>1, <2>4, <2>5, <2>7, <3>4 DEF AgreesBesides
  <2>9. Owed(q, R) /\ Waits(q)
    BY <1>1, <2>4, <2>5 DEF Owed, Waits
  <2>10. Fresh(q) /\ GivenUp(q)
    <3>1. \A u \in Finalizers : u \in Tasks
      BY TaskPlanAssumption DEF Finalizers
    <3> QED BY <1>1, <2>1, <2>4, <2>5, <3>1 DEF Fresh, GivenUp, NoRow
  <2>11. Kept(s, q) /\ QueueKept(s, q)
    BY <2>4, <2>5 DEF Kept, QueueKept
  <2> QED BY <2>2, <2>5, <2>8, <2>9, <2>10, <2>11 DEF Good, r
<1> QED BY <1>2, <1>3

\* What two steps keep, both keep.
LEMMA KeptOn ==
  ASSUME NEW s, NEW r, NEW q, Kept(s, r), Kept(r, q)
  PROVE  Kept(s, q) /\ (QueueKept(s, r) /\ QueueKept(r, q) => QueueKept(s, q))
BY DEF Kept, QueueKept

\* Withdrawing what is damaged among some tasks, and marking what was.
LEMMA WithdrawLoop ==
  ASSUME campaign \in Campaigns, NEW R \in SUBSET Tasks, NEW s, Good(s, R), Fresh(s),
         NEW ts, NEW loop \in {"withdraw", "mark"}
  PROVE  LET r == Over(ts, loop, s) IN
         Good(r, R) /\ Fresh(r) /\ Kept(s, r) /\ QueueKept(s, r)
<1> DEFINE G == {q \in States : Good(q, R) /\ Fresh(q) /\ Kept(s, q) /\ QueueKept(s, q)}
<1>1. s \in G
  BY DEF Good, Kept, QueueKept
<1>2. ASSUME NEW q \in G, NEW t \in Tasks PROVE Turn(loop, q, t) \in G
  <2>1. Good(q, R) /\ Fresh(q) /\ Kept(s, q) /\ QueueKept(s, q)
    OBVIOUS
  <2> DEFINE r == Turn(loop, q, t)
  <2>2. Good(r, R) /\ Fresh(r) /\ Kept(q, r) /\ QueueKept(q, r)
    <3>1. CASE loop = "withdraw"
      BY <2>1, <3>1, WithdrawSays DEF Turn
    <3>2. CASE loop = "mark"
      BY <2>1, <3>2, MarkSays DEF Turn
    <3> QED BY <3>1, <3>2
  <2> HIDE DEF r
  <2>3. Kept(s, r) /\ QueueKept(s, r)
    BY <2>1, <2>2, KeptOn
  <2>4. r \in States
    BY <2>2 DEF Good
  <2> QED BY <2>2, <2>3, <2>4 DEF r
<1> HIDE DEF G
<1>3. Over(ts, loop, s) \in G
  BY <1>1, <1>2, LoopStays
<1> QED BY <1>3 DEF G

\* A budget ends all that is open and may be ended.
LEMMA ExpireLoop ==
  ASSUME campaign \in Campaigns, NEW s, Good(s, ToSet(s.mem.active)),
         s.mem.known \subseteq Known(s.disk),
         NEW loop \in {"expire", "stop"}, loop = "expire" => s.mem.stop
  PROVE  LET r == Over(Tasks, loop, s) IN
         /\ Good(r, ToSet(s.mem.active)) /\ Kept(s, r) /\ QueueKept(s, r)
         /\ \A x \in s.mem.known \ Finalizers : x \notin ToSet(s.mem.active) => Ended(r, x)
<1> DEFINE R == ToSet(s.mem.active)
           ts == IF loop = "expire" THEN Tasks ELSE Tasks \ Finalizers
           G == {q \in States : Good(q, R) /\ Kept(s, q) /\ QueueKept(s, q)}
           r == Over(Tasks, loop, s)
<1>1. /\ s \in G /\ R \in SUBSET Tasks /\ Good(s, R) /\ s.mem.known \subseteq Tasks
  <2>1. s \in States /\ s.mem \in Memories
    BY DEF Good, States
  <2> QED BY <2>1 DEF Kept, QueueKept, Memories, ToSet
<1>2. ASSUME NEW q \in G, NEW t \in Tasks
      PROVE  LET p == Turn(loop, q, t) IN
             /\ p \in G
             /\ t \in ts \cap s.mem.known /\ t \notin R => Ended(p, t)
             /\ \A u \in Tasks : Ended(q, u) => Ended(p, u)
  <2> DEFINE p == Turn(loop, q, t)
  <2>1. Good(q, R) /\ Kept(s, q) /\ QueueKept(s, q)
    OBVIOUS
  <2>2. /\ q.mem.known = s.mem.known /\ q.mem.active = s.mem.active
        /\ q.mem.known \subseteq Known(q.disk) /\ (s.mem.stop => q.mem.stop)
    BY <2>1 DEF Kept, Known
  <2>3. p = Expire(q, t, ts)
    BY DEF Turn
  <2>4. ts \cap Finalizers = {} \/ q.mem.stop
    BY <2>2
  <2>5. R \subseteq ToSet(q.mem.active)
    BY <2>2
  <2> HIDE DEF ts, R, p
  <2>6. /\ Good(p, R) /\ Kept(q, p) /\ QueueKept(q, p)
        /\ t \in ts \cap q.mem.known /\ t \notin ToSet(q.mem.active) => Ended(p, t)
        /\ \A u \in Tasks : Ended(q, u) => Ended(p, u)
    BY <1>1, <2>1, <2>2, <2>3, <2>4, <2>5, ExpireSays
  <2>7. Kept(s, p) /\ QueueKept(s, p)
    BY <2>1, <2>6, KeptOn
  <2>8. p \in States
    BY <2>6 DEF Good
  <2> QED BY <2>2, <2>6, <2>7, <2>8 DEF p, R
<1> HIDE DEF G, R, ts
<1>3. r \in G
  BY <1>1, <1>2, LoopStays
<1>4. ASSUME NEW x \in s.mem.known \ Finalizers, x \notin R PROVE Ended(r, x)
  <2> DEFINE H == {q \in G : Ended(q, x)}
  <2>1. x \in Tasks \cap Tasks /\ x \in ts
    BY <1>1 DEF ts
  <2>2. \A q \in G : \A t \in Tasks \cap Tasks : Turn(loop, q, t) \in G
    BY <1>2
  <2>3. \A q \in G : Turn(loop, q, x) \in H
    BY <1>2, <1>4, <2>1
  <2>4. \A q \in G \cap H : \A t \in Tasks \cap Tasks : Turn(loop, q, t) \in H
    BY <1>2, <2>1
  <2> HIDE DEF H
  <2>5. r \in G \cap H
    BY <1>1, <2>1, <2>2, <2>3, <2>4, LoopReaches
  <2> QED BY <2>5 DEF H
<1> QED BY <1>3, <1>4 DEF G, R

\* Every known task is reserved, blocked or left.
LEMMA ReadyLoop ==
  ASSUME campaign \in Campaigns, NEW s, Good(s, ToSet(s.mem.active)), Queues(s.mem),
         s.mem.known \subseteq Known(s.disk), s.mem.edges = Edges(s.disk)
  PROVE  LET r == Over(Tasks, "ready", s) IN
         Good(r, ToSet(s.mem.active)) /\ Kept(s, r) /\ Queues(r.mem)
<1> DEFINE R == ToSet(s.mem.active)
           G == {q \in States : Good(q, R) /\ Kept(s, q) /\ Queues(q.mem)}
<1>1. s \in G
  BY DEF Good, Kept
<1>2. ASSUME NEW q \in G, NEW t \in Tasks PROVE Turn("ready", q, t) \in G
  <2> DEFINE p == Ready(q, t)
  <2>1. Good(q, R) /\ Kept(s, q) /\ Queues(q.mem)
    OBVIOUS
  <2>2. /\ ToSet(q.mem.active) = R /\ q.mem.known \subseteq Known(q.disk)
    BY <2>1 DEF Kept, Known
  <2>3. q.mem.edges = Edges(q.disk)
    <3>1. Edges(q.disk) = Edges(s.disk)
      BY <2>1, ShapeElsewhere DEF Kept
    <3> QED BY <2>1, <3>1 DEF Kept
  <2> HIDE DEF R, G
  <2>4. Good(p, R) /\ Kept(q, p) /\ Queues(p.mem)
    BY <2>1, <2>2, <2>3, ReadySays
  <2> HIDE DEF p
  <2>5. Kept(s, p)
    BY <2>1, <2>4, KeptOn
  <2>6. p \in States
    BY <2>4 DEF Good
  <2>7. Turn("ready", q, t) = p
    BY DEF Turn, p
  <2> QED BY <2>4, <2>5, <2>6, <2>7 DEF G
<1> HIDE DEF G
<1>3. Over(Tasks, "ready", s) \in G
  BY <1>1, <1>2, LoopStays
<1> QED BY <1>3 DEF G

-----------------------------------------------------------------------------
(* Definitions, edges and replays.                                           *)

(* e differs from d in its definitions, edges, replays and flag at most.     *)
SameRuns(d, e) ==
  /\ e.dispatches = d.dispatches /\ e.rows = d.rows /\ e.doubled = d.doubled
  /\ e.failures = d.failures /\ e.completion = d.completion /\ e.voided = d.voided
  /\ e.requeued = d.requeued /\ e.results = d.results

\* New definitions and edges contradict nothing if they have the right shape.
LEMMA DefinitionsRight ==
  ASSUME NEW d \in Directories, Readable(d), Follows(d), NEW e \in Directories,
         SameRuns(d, e), Known(d) \subseteq Known(e), Shape(e),
         \A u \in Tasks : Edges(d)[u] \subseteq Edges(e)[u]
  PROVE  Readable(e) /\ Follows(e)
<1>1. \A u : (Stands(e, u) <=> Stands(d, u)) /\ (Failed(e, u) <=> Failed(d, u))
  BY DEF SameRuns, Stands, Failed
<1>2. ASSUME NEW u \in Tasks PROVE TaskRight(e, u)
  <2>1. TaskRight(d, u)
    BY DEF Readable
  <2> QED BY <1>1, <2>1 DEF TaskRight, SameRuns
<1>3. Follows(e)
  BY <1>1 DEF Follows, SameRuns
<1> QED BY <1>2, <1>3 DEF Readable, SameRuns

\* A write of definitions, edges or replays leaves all well.
LEMMA DefinitionsGood ==
  ASSUME NEW R, NEW s, Good(s, R), NEW e \in Directories, Readable(e), Follows(e),
         SameRuns(s.disk, e)
  PROVE  /\ Good(Write(s, e), R) /\ Write(s, e).mem = s.mem /\ Write(s, e).disk = e
         /\ Fresh(s) => Fresh(Write(s, e))
<1> DEFINE w == Write(s, e)
<1>1. s \in States /\ Logs(s)
  BY DEF Good
<1>2. w \in States /\ Logs(w) /\ w.mem = s.mem /\ w.disk = e
  BY <1>1, WriteLogs
<1> HIDE DEF w
<1>3. \A u : (Stands(e, u) <=> Stands(s.disk, u)) /\ (Failed(e, u) <=> Failed(s.disk, u))
  BY DEF SameRuns, Stands, Failed
<1>4. [t \in Tasks |-> IF Stands(e, t) THEN e.completion[t] ELSE NoRow]
        = [t \in Tasks |-> IF Stands(s.disk, t) THEN s.disk.completion[t] ELSE NoRow]
  BY <1>3 DEF SameRuns
<1>5. AgreesBesides(w, {})
  BY <1>2, <1>3, <1>4 DEF Good, AgreesBesides, SameRuns
<1>6. Owed(w, R) /\ Waits(w) /\ GivenUp(w)
  BY <1>2 DEF Good, Owed, Waits, GivenUp, SameRuns
<1>7. Fresh(s) => Fresh(w)
  BY <1>2 DEF Fresh, SameRuns
<1> QED BY <1>2, <1>5, <1>6, <1>7 DEF Good, w

\* A task that waits only for known ones may be known, too.
LEMMA GrowsFounded ==
  ASSUME NEW known \in SUBSET Tasks, NEW edges \in [Tasks -> SUBSET Tasks],
         NEW t \in Tasks, NEW more \in [Tasks -> SUBSET Tasks], WellFounded(known, edges),
         \A u \in known : more[u] = edges[u], t \in known \/ more[t] \subseteq known
  PROVE  WellFounded(known \cup {t}, more)
<1>1. \A u \in known \cup {t} : more[u] \subseteq known
  BY DEF WellFounded
<1>2. ASSUME NEW some \in SUBSET (known \cup {t}), some # {}
      PROVE  \E u \in some : more[u] \cap some = {}
  <2>1. CASE some \cap known = {}
    BY <1>1, <1>2, <2>1
  <2>2. CASE some \cap known # {}
    <3>1. PICK u \in some \cap known : edges[u] \cap (some \cap known) = {}
      BY <2>2 DEF WellFounded
    <3>2. more[u] = edges[u] /\ more[u] \subseteq known
      BY <1>1, <3>1
    <3> QED BY <3>1, <3>2
  <2> QED BY <2>1, <2>2
<1> QED BY <1>1, <1>2 DEF WellFounded

\* The known tasks and the edges of a directory.
LEMMA KnownEdges ==
  ASSUME campaign \in Campaigns, NEW d \in Directories
  PROVE  Known(d) \in SUBSET Tasks /\ Edges(d) \in [Tasks -> SUBSET Tasks]
<1>1. Plan \subseteq Tasks /\ d.registry \subseteq Tasks /\ d.edges \in [Tasks -> SUBSET Tasks]
      /\ Needs \in [Tasks -> SUBSET Tasks]
  BY TaskPlanAssumption DEF Plan, Directories
<1> QED BY <1>1 DEF Known, Edges

\* The definition of a task that is known or waits only for known ones.
LEMMA RegistryWrite ==
  ASSUME NEW d \in Directories, Readable(d), Follows(d), campaign \in Campaigns,
         NEW t \in Tasks, t \in Known(d) \/ Needs[t] \subseteq Known(d)
  PROVE  LET e == [d EXCEPT !.registry = @ \cup {t}] IN
         /\ e \in Directories /\ Readable(e) /\ Follows(e) /\ SameRuns(d, e)
         /\ e.registry = d.registry \cup {t} /\ e.edges = d.edges /\ e.replays = d.replays
         /\ e.workStop = d.workStop
<1> DEFINE e == [d EXCEPT !.registry = d.registry \cup {t}]
<1>1. /\ e \in Directories /\ SameRuns(d, e)
      /\ e.registry = d.registry \cup {t} /\ e.edges = d.edges /\ e.replays = d.replays
      /\ e.workStop = d.workStop
  BY DEF Directories, SameRuns
<1> HIDE DEF e
<1>2. Known(e) = Known(d) \cup {t} /\ Known(e) \subseteq Tasks
  <2>1. Plan \subseteq Tasks /\ e.registry \subseteq Tasks
    BY <1>1, TaskPlanAssumption DEF Plan, Directories
  <2> QED BY <1>1, <2>1 DEF Known
<1>3. Shape(d)
  BY DEF Readable
<1>4. \A u \in Known(d) : u \in Tasks /\ Edges(e)[u] = Edges(d)[u]
  BY <1>1, <1>2 DEF Edges
<1>5. t \notin Known(d) => Edges(e)[t] = Needs[t]
  BY <1>1, <1>2, <1>3 DEF Edges, Shape
<1>6. WellFounded(Known(e), Edges(e))
  <2>1. WellFounded(Known(d), Edges(d))
    BY <1>3 DEF Shape
  <2>2. t \in Known(d) \/ Edges(e)[t] \subseteq Known(d)
    BY <1>5
  <2>3. /\ Known(d) \in SUBSET Tasks /\ Edges(d) \in [Tasks -> SUBSET Tasks]
        /\ Edges(e) \in [Tasks -> SUBSET Tasks]
    BY <1>1, KnownEdges
  <2> QED BY <1>2, <1>4, <2>1, <2>2, <2>3, GrowsFounded
<1>7. \A u \in Tasks : Edges(d)[u] \subseteq Edges(e)[u]
  <2>1. \A u \in Tasks \ Known(d) : Edges(d)[u] = {}
    BY DEF Edges
  <2> QED BY <1>4, <2>1
<1>8. Shape(e)
  <2>1. \A u \in Tasks \ Known(e) : e.edges[u] = {}
    BY <1>1, <1>2, <1>3 DEF Shape
  <2>2. \A u \in Tasks : \A g \in e.replays[u] : DOMAIN g \subseteq Edges(e)[u]
    BY <1>1, <1>3, <1>7 DEF Shape
  <2> QED BY <1>6, <2>1, <2>2 DEF Shape
<1>9. Readable(e) /\ Follows(e)
  <2>1. Known(d) \subseteq Known(e)
    BY <1>2
  <2> QED BY <1>1, <1>7, <1>8, <2>1, DefinitionsRight
<1> QED BY <1>1, <1>9 DEF e

(* ts are tasks whose definitions can be added.                              *)
Definable(d, ts) == \A x \in ts : x \in Known(d) \/ Needs[x] \subseteq Known(d)

(* r is s with the definitions of ts.                                        *)
Registered(s, r, ts, running) ==
  /\ Good(r, running) /\ r.mem = s.mem /\ SameRuns(s.disk, r.disk) /\ (Fresh(s) => Fresh(r))
  /\ r.disk.registry = s.disk.registry \cup ts /\ r.disk.edges = s.disk.edges
  /\ r.disk.replays = s.disk.replays /\ r.disk.workStop = s.disk.workStop

\* The registry's loop adds its tasks to the registry.
LEMMA RegisterLoop ==
  ASSUME campaign \in Campaigns, NEW R \in SUBSET Tasks, NEW s, Good(s, R),
         NEW ts \in SUBSET Tasks, Definable(s.disk, ts)
  PROVE  Registered(s, Over(ts, "register", s), ts, R)
<1> DEFINE G == {q \in States :
                   /\ Good(q, R) /\ q.mem = s.mem /\ SameRuns(s.disk, q.disk)
                   /\ Fresh(s) => Fresh(q)
                   /\ s.disk.registry \subseteq q.disk.registry
                   /\ q.disk.registry \subseteq s.disk.registry \cup ts
                   /\ q.disk.edges = s.disk.edges /\ q.disk.replays = s.disk.replays
                   /\ q.disk.workStop = s.disk.workStop}
           r == Over(ts, "register", s)
<1>1. s \in G
  BY DEF Good, SameRuns
<1>2. ASSUME NEW q \in G, NEW t \in ts \cap Tasks
      PROVE  LET p == Turn("register", q, t) IN
             /\ p \in G /\ t \in p.disk.registry /\ q.disk.registry \subseteq p.disk.registry
  <2> DEFINE e == [q.disk EXCEPT !.registry = @ \cup {t}]
             p == Write(q, e)
  <2>1. /\ q \in States /\ Good(q, R) /\ q.mem = s.mem /\ SameRuns(s.disk, q.disk)
        /\ Fresh(s) => Fresh(q)
        /\ s.disk.registry \subseteq q.disk.registry
        /\ q.disk.registry \subseteq s.disk.registry \cup ts
        /\ q.disk.edges = s.disk.edges /\ q.disk.replays = s.disk.replays
        /\ q.disk.workStop = s.disk.workStop
    OBVIOUS
  <2>2. q.disk \in Directories /\ Readable(q.disk) /\ Follows(q.disk)
    BY <2>1 DEF Good, Logs, States
  <2>3. t \in Known(q.disk) \/ Needs[t] \subseteq Known(q.disk)
    BY <2>1 DEF Known, Definable
  <2>4. /\ e \in Directories /\ Readable(e) /\ Follows(e) /\ SameRuns(q.disk, e)
        /\ e.registry = q.disk.registry \cup {t} /\ e.edges = q.disk.edges
        /\ e.replays = q.disk.replays /\ e.workStop = q.disk.workStop
    BY <2>2, <2>3, RegistryWrite
  <2>5. Turn("register", q, t) = p
    BY DEF Turn, Register
  <2> HIDE DEF e
  <2>6. Good(p, R) /\ p.mem = q.mem /\ p.disk = e /\ (Fresh(q) => Fresh(p))
    BY <2>1, <2>4, DefinitionsGood
  <2>7. p \in States
    BY <2>6 DEF Good
  <2>8. SameRuns(s.disk, p.disk)
    BY <2>1, <2>4, <2>6 DEF SameRuns
  <2>9. p \in G
    <3> HIDE DEF p
    <3> QED BY <2>1, <2>4, <2>6, <2>7, <2>8
  <2> HIDE DEF p, G
  <2> QED BY <2>4, <2>5, <2>6, <2>9
<1>3. r \in G
  <2> HIDE DEF G
  <2> QED BY <1>1, <1>2, LoopStays
<1>4. ASSUME NEW x \in ts PROVE x \in r.disk.registry
  <2> DEFINE H == {q \in G : x \in q.disk.registry}
  <2> HIDE DEF G
  <2>1. x \in ts \cap Tasks
    OBVIOUS
  <2>2. \A q \in G : \A t \in ts \cap Tasks : Turn("register", q, t) \in G
    BY <1>2
  <2>3. \A q \in G : Turn("register", q, x) \in H
    BY <1>2, <2>1
  <2>4. \A q \in G \cap H : \A t \in ts \cap Tasks : Turn("register", q, t) \in H
    BY <1>2
  <2> HIDE DEF H
  <2>5. r \in G \cap H
    BY <1>1, <2>1, <2>2, <2>3, <2>4, LoopReaches
  <2> QED BY <2>5 DEF H
<1> HIDE DEF r
<1>5. r.disk.registry = s.disk.registry \cup ts
  BY <1>3, <1>4
<1> QED BY <1>3, <1>5 DEF r, Registered

-----------------------------------------------------------------------------
(* Budgets.                                                                  *)

(* What checking the budgets, too, leaves alone.                             *)
Carried(s, r) ==
  /\ r.mem.phase = s.mem.phase /\ r.mem.known = s.mem.known /\ r.mem.edges = s.mem.edges
  /\ r.mem.replays = s.mem.replays /\ r.mem.attempts = s.mem.attempts
  /\ r.mem.active = s.mem.active /\ r.mem.polling = s.mem.polling
  /\ r.disk.registry = s.disk.registry /\ r.disk.edges = s.disk.edges
  /\ r.disk.replays = s.disk.replays /\ r.disk.dispatches = s.disk.dispatches
  /\ s.mem.workStop => r.mem.workStop

\* The state of the campaign is written as the memory has it.
LEMMA CampaignSays ==
  ASSUME NEW R \in SUBSET Tasks, NEW s, Good(s, R)
  PROVE  LET r == Campaign(s) IN
         /\ Good(r, R) /\ Kept(s, r) /\ r.mem = s.mem
         /\ r.disk.workStop = s.mem.workStop /\ (Fresh(s) => Fresh(r))
         /\ SameRuns(s.disk, r.disk)
<1> DEFINE stop == s.mem.workStop
           e == [s.disk EXCEPT !.workStop = stop]
           r == Write(s, e)
<1>1. /\ s \in States /\ Logs(s) /\ s.disk \in Directories /\ stop \in BOOLEAN
      /\ Readable(s.disk) /\ Follows(s.disk)
  BY DEF Good, Logs, States, Memories
<1>2. Campaign(s) = r
  BY DEF Campaign
<1> HIDE DEF stop
<1>3. e \in Directories /\ Readable(e) /\ Follows(e)
  BY <1>1, StopWrite
<1>4. /\ e.registry = s.disk.registry /\ e.edges = s.disk.edges
      /\ e.replays = s.disk.replays /\ e.dispatches = s.disk.dispatches
      /\ e.workStop = stop /\ SameRuns(s.disk, e)
  BY <1>1 DEF Directories, SameRuns
<1> HIDE DEF e
<1>5. Good(r, R) /\ r.mem = s.mem /\ r.disk = e /\ (Fresh(s) => Fresh(r))
  BY <1>3, <1>4, DefinitionsGood
<1> HIDE DEF r
<1>6. Kept(s, r)
  BY <1>4, <1>5 DEF Kept, stop
<1> QED BY <1>2, <1>4, <1>5, <1>6 DEF stop

\* One of the flags is raised.
LEMMA FlagSays ==
  ASSUME NEW R \in SUBSET Tasks, NEW s, Good(s, R),
         NEW m \in {[s.mem EXCEPT !.stop = TRUE], [s.mem EXCEPT !.workStop = TRUE]}
  PROVE  LET r == [s EXCEPT !.mem = m] IN
         /\ Good(r, R) /\ Carried(s, r) /\ QueueKept(s, r) /\ r.mem = m /\ r.disk = s.disk
         /\ s.mem.stop => m.stop
         /\ m = [s.mem EXCEPT !.stop = TRUE] => m.stop /\ m.workStop = s.mem.workStop
         /\ m = [s.mem EXCEPT !.workStop = TRUE] => m.workStop
<1> DEFINE r == [s EXCEPT !.mem = m]
<1>1. s \in States /\ Logs(s) /\ s.mem \in Memories
  BY DEF Good, States
<1>2. /\ m \in Memories /\ m.completed = s.mem.completed
      /\ m.phase = s.mem.phase /\ m.known = s.mem.known /\ m.edges = s.mem.edges
      /\ m.replays = s.mem.replays /\ m.attempts = s.mem.attempts
      /\ m.active = s.mem.active /\ m.polling = s.mem.polling
      /\ m.failures = s.mem.failures /\ m.refreshes = s.mem.refreshes
      /\ m.inflight = s.mem.inflight /\ m.pending = s.mem.pending
      /\ s.mem.stop => m.stop
      /\ s.mem.workStop => m.workStop
      /\ m = [s.mem EXCEPT !.stop = TRUE] => m.stop /\ m.workStop = s.mem.workStop
      /\ m = [s.mem EXCEPT !.workStop = TRUE] => m.workStop
  <2>1. CASE m = [s.mem EXCEPT !.stop = TRUE]
    BY <1>1, <2>1 DEF Memories
  <2>2. CASE m = [s.mem EXCEPT !.workStop = TRUE]
    BY <1>1, <2>2 DEF Memories
  <2> QED BY <2>1, <2>2
<1>3. r \in States /\ Logs(r) /\ r.mem = m /\ r.disk = s.disk
  BY <1>1, <1>2, MemoryChange
<1> HIDE DEF r
<1>4. AgreesBesides(r, {})
  BY <1>2, <1>3 DEF Good, AgreesBesides
<1>5. Owed(r, R) /\ Waits(r) /\ GivenUp(r)
  BY <1>2, <1>3 DEF Good, Owed, Waits, GivenUp
<1>6. Good(r, R)
  BY <1>3, <1>4, <1>5 DEF Good
<1>7. Carried(s, r) /\ QueueKept(s, r)
  BY <1>2, <1>3 DEF Carried, QueueKept
<1> QED BY <1>2, <1>3, <1>6, <1>7 DEF r

\* After the budgets are checked, ordinary work that is stopped is not open.
LEMMA BudgetsSay ==
  ASSUME campaign \in Campaigns, NEW s, Good(s, ToSet(s.mem.active)),
         s.mem.known \subseteq Known(s.disk), s.disk.workStop = s.mem.workStop, NEW sample
  PROVE  LET b == CheckBudgets(s, sample) IN
         /\ Good(b, ToSet(s.mem.active)) /\ Carried(s, b) /\ QueueKept(s, b)
         /\ b.disk.workStop = b.mem.workStop
         /\ ~HardStop(s, sample) /\ b.mem.workStop =>
              \A x \in s.mem.known \ Finalizers : x \notin ToSet(s.mem.active) => Ended(b, x)
<1> DEFINE b == CheckBudgets(s, sample)
           R == ToSet(s.mem.active)
<1>1. R \in SUBSET Tasks /\ Good(s, R) /\ s \in States
  BY DEF Good, States, Memories, ToSet
<1>2. CASE HardStop(s, sample)
  <2> DEFINE m == [s.mem EXCEPT !.stop = TRUE]
             q == [s EXCEPT !.mem = m]
             r == Over(Tasks, "expire", q)
  <2>1. b = r
    BY <1>1, <1>2 DEF CheckBudgets, ExpirePending
  <2>2. m \in {[s.mem EXCEPT !.stop = TRUE], [s.mem EXCEPT !.workStop = TRUE]}
    OBVIOUS
  <2>3. /\ Good(q, R) /\ Carried(s, q) /\ QueueKept(s, q) /\ q.disk = s.disk
        /\ q.mem.stop /\ q.mem.workStop = s.mem.workStop
    <3>1. /\ Good(q, R) /\ Carried(s, q) /\ QueueKept(s, q) /\ q.disk = s.disk
          /\ q.mem = m
          /\ m = [s.mem EXCEPT !.stop = TRUE] => m.stop /\ m.workStop = s.mem.workStop
      <4> HIDE DEF R
      <4> QED BY <1>1, <2>2, FlagSays
    <3> QED BY <3>1
  <2> HIDE DEF q, m
  <2>4. ToSet(q.mem.active) = R /\ q.mem.known \subseteq Known(q.disk)
    BY <2>3 DEF Carried
  <2>5. Good(r, R) /\ Kept(q, r) /\ QueueKept(q, r)
    <3> DEFINE loop == "expire"
    <3>1. loop \in {"expire", "stop"}
      OBVIOUS
    <3>2. /\ Good(Over(Tasks, loop, q), ToSet(q.mem.active))
          /\ Kept(q, Over(Tasks, loop, q)) /\ QueueKept(q, Over(Tasks, loop, q))
      <4> HIDE DEF loop, R
      <4> QED BY <2>3, <2>4, <3>1, ExpireLoop
    <3> QED BY <2>4, <3>2
  <2> HIDE DEF r, b
  <2>6. Carried(s, r) /\ QueueKept(s, r) /\ r.disk.workStop = r.mem.workStop
    BY <2>3, <2>5 DEF Carried, Kept, QueueKept
  <2> QED BY <1>2, <2>1, <2>5, <2>6 DEF b
<1>3. CASE ~HardStop(s, sample) /\ (s.mem.workStop \/ Pressed(s, sample))
  <2> DEFINE m == [s.mem EXCEPT !.workStop = TRUE]
             q == [s EXCEPT !.mem = m]
             r == Over(Tasks, "stop", q)
             c == Campaign(r)
  <2>1. b = c
    BY <1>1, <1>3 DEF CheckBudgets, StopWork
  <2>2. m \in {[s.mem EXCEPT !.stop = TRUE], [s.mem EXCEPT !.workStop = TRUE]}
    OBVIOUS
  <2>3. /\ Good(q, R) /\ Carried(s, q) /\ QueueKept(s, q) /\ q.disk = s.disk
        /\ q.mem.workStop
    <3>1. /\ Good(q, R) /\ Carried(s, q) /\ QueueKept(s, q) /\ q.disk = s.disk
          /\ q.mem = m /\ (m = [s.mem EXCEPT !.workStop = TRUE] => m.workStop)
      <4> HIDE DEF R
      <4> QED BY <1>1, <2>2, FlagSays
    <3> QED BY <3>1
  <2> HIDE DEF q, m
  <2>4. ToSet(q.mem.active) = R /\ q.mem.known \subseteq Known(q.disk)
    BY <2>3 DEF Carried
  <2>5. /\ Good(r, R) /\ Kept(q, r) /\ QueueKept(q, r)
        /\ \A x \in q.mem.known \ Finalizers : x \notin R => Ended(r, x)
    <3> DEFINE loop == "stop"
    <3>1. loop \in {"expire", "stop"} /\ loop # "expire"
      OBVIOUS
    <3>2. LET p == Over(Tasks, loop, q) IN
          /\ Good(p, ToSet(q.mem.active)) /\ Kept(q, p) /\ QueueKept(q, p)
          /\ \A x \in q.mem.known \ Finalizers : x \notin ToSet(q.mem.active) => Ended(p, x)
      <4> HIDE DEF loop, R
      <4> QED BY <2>3, <2>4, <3>1, ExpireLoop
    <3> QED BY <2>4, <3>2
  <2> HIDE DEF r, b
  <2>6. Good(c, R) /\ Kept(r, c) /\ c.mem = r.mem /\ c.disk.workStop = r.mem.workStop
    <3> HIDE DEF R, c
    <3> QED BY <1>1, <2>5, CampaignSays DEF c
  <2> HIDE DEF c
  <2>7. Carried(s, c) /\ QueueKept(s, c)
    BY <2>3, <2>5, <2>6 DEF Carried, Kept, QueueKept
  <2>8. \A x \in s.mem.known \ Finalizers : x \notin R => Ended(c, x)
    BY <2>3, <2>5, <2>6 DEF Ended, Carried
  <2> QED BY <2>1, <2>6, <2>7, <2>8 DEF b
<1>4. CASE ~HardStop(s, sample) /\ ~(s.mem.workStop \/ Pressed(s, sample))
  <2>1. b = s
    BY <1>4 DEF CheckBudgets
  <2>2. Carried(s, s) /\ QueueKept(s, s)
    BY DEF Carried, QueueKept
  <2> HIDE DEF b
  <2> QED BY <1>1, <1>4, <2>1, <2>2 DEF b
<1> QED BY <1>2, <1>3, <1>4

-----------------------------------------------------------------------------
(* Requests for dependencies.                                                *)

(* No task waits for itself if the edges of t are new.                       *)
Linkable(d, t, new) ==
  /\ t \in Known(d) /\ Edges(d)[t] \subseteq new
  /\ WellFounded(Known(d), [Edges(d) EXCEPT ![t] = new])

(* e is d with the edges new of t.                                           *)
Linked(d, e, t, new) ==
  /\ e \in Directories /\ Readable(e) /\ Follows(e) /\ SameRuns(d, e)
  /\ Known(e) = Known(d) /\ Edges(e) = [Edges(d) EXCEPT ![t] = new]
  /\ e.registry = d.registry /\ e.replays = d.replays /\ e.workStop = d.workStop

\* More edges of a known task, if no task then waits for itself.
LEMMA EdgesWrite ==
  ASSUME NEW d \in Directories, Readable(d), Follows(d), campaign \in Campaigns,
         NEW t \in Tasks, NEW new \in SUBSET Tasks, Linkable(d, t, new)
  PROVE  Linked(d, [d EXCEPT !.edges[t] = new \ Needs[t]], t, new)
<1> USE DEF Linkable
<1> DEFINE extra == new \ Needs[t]
           e == [d EXCEPT !.edges[t] = extra]
<1>1. extra \subseteq Tasks
  OBVIOUS
<1> HIDE DEF extra
<1>2. /\ e \in Directories /\ SameRuns(d, e) /\ e.edges = [d.edges EXCEPT ![t] = extra]
      /\ e.registry = d.registry /\ e.replays = d.replays /\ e.workStop = d.workStop
  BY <1>1 DEF Directories, SameRuns
<1> HIDE DEF e
<1>3. Known(e) = Known(d)
  BY <1>2 DEF Known
<1>4. /\ Edges(d) \in [Tasks -> SUBSET Tasks] /\ Edges(e) \in [Tasks -> SUBSET Tasks]
      /\ d.edges \in [Tasks -> SUBSET Tasks]
  BY <1>2, KnownEdges DEF Directories
<1>5. Edges(e)[t] = new
  <2>1. Edges(e)[t] = Needs[t] \cup extra /\ Needs[t] \subseteq Edges(d)[t]
    BY <1>2, <1>3, <1>4 DEF Edges
  <2> QED BY <2>1 DEF extra
<1>6. \A u \in Tasks \ {t} : Edges(e)[u] = Edges(d)[u]
  BY <1>2, <1>3, <1>4 DEF Edges
<1>7. Edges(e) = [Edges(d) EXCEPT ![t] = new]
  <2> DEFINE f == Edges(d)
             g == Edges(e)
  <2>1. f \in [Tasks -> SUBSET Tasks] /\ g \in [Tasks -> SUBSET Tasks] /\ g[t] = new
        /\ \A u \in Tasks \ {t} : g[u] = f[u]
    BY <1>4, <1>5, <1>6
  <2> HIDE DEF f, g
  <2>2. g = [f EXCEPT ![t] = new]
    BY <2>1
  <2> QED BY <2>2 DEF f, g
<1>8. \A u \in Tasks : Edges(d)[u] \subseteq Edges(e)[u]
  BY <1>5, <1>6
<1>9. Shape(e)
  <2>1. Shape(d)
    BY DEF Readable
  <2>2. WellFounded(Known(e), Edges(e))
    BY <1>3, <1>7
  <2>3. \A u \in Tasks \ Known(e) : e.edges[u] = {}
    BY <1>2, <1>3, <1>4, <2>1 DEF Shape
  <2>4. \A u \in Tasks : \A g \in e.replays[u] : DOMAIN g \subseteq Edges(e)[u]
    BY <1>2, <1>8, <2>1 DEF Shape
  <2> QED BY <2>2, <2>3, <2>4 DEF Shape
<1>10. Readable(e) /\ Follows(e)
  BY <1>2, <1>3, <1>8, <1>9, DefinitionsRight
<1> QED BY <1>2, <1>3, <1>7, <1>10 DEF e, extra, Linked

(* The replays some are of edges of t.                                       *)
Justified(d, t, some) == \A g \in some : DOMAIN g \subseteq Edges(d)[t]

(* e is d with the replays some of t.                                        *)
WithReplays(d, e, t, some) ==
  /\ e \in Directories /\ Readable(e) /\ Follows(e) /\ SameRuns(d, e)
  /\ Known(e) = Known(d) /\ Edges(e) = Edges(d)
  /\ e.registry = d.registry /\ e.workStop = d.workStop
  /\ e.replays = [d.replays EXCEPT ![t] = some]

\* Replays of a task's edges.
LEMMA ReplaysWrite ==
  ASSUME NEW d \in Directories, Readable(d), Follows(d), NEW t \in Tasks,
         NEW some \in SUBSET Generations, Justified(d, t, some)
  PROVE  WithReplays(d, [d EXCEPT !.replays[t] = some], t, some)
<1> USE DEF Justified
<1> DEFINE e == [d EXCEPT !.replays[t] = some]
<1>1. /\ e \in Directories /\ SameRuns(d, e) /\ e.edges = d.edges
      /\ e.registry = d.registry /\ e.workStop = d.workStop
      /\ e.replays = [d.replays EXCEPT ![t] = some]
      /\ d.replays \in [Tasks -> SUBSET Generations]
  BY DEF Directories, SameRuns
<1> HIDE DEF e
<1>2. Known(e) = Known(d)
  BY <1>1, Zenon DEF Known
<1>3. Edges(e) = Edges(d)
  BY <1>1, <1>2, Zenon DEF Edges
<1>4. Shape(e)
  <2>1. Shape(d)
    BY DEF Readable
  <2>2. \A u \in Tasks : \A g \in e.replays[u] : DOMAIN g \subseteq Edges(e)[u]
    BY <1>1, <1>3, <2>1 DEF Shape
  <2> QED BY <1>1, <1>2, <1>3, <2>1, <2>2 DEF Shape
<1>5. Readable(e) /\ Follows(e)
  BY <1>1, <1>2, <1>3, <1>4, DefinitionsRight
<1> QED BY <1>1, <1>2, <1>3, <1>5 DEF e, WithReplays

(* The memory has the definitions, edges and replays of the directory.       *)
Defined(s) ==
  /\ s.mem.known = Known(s.disk) /\ s.mem.edges = Edges(s.disk)
  /\ s.mem.replays = s.disk.replays

(* What a request, too, leaves alone.                                        *)
Moved(s, r) ==
  /\ r.mem.phase = s.mem.phase /\ r.mem.attempts = s.mem.attempts
  /\ r.mem.workStop = s.mem.workStop /\ r.mem.active = s.mem.active
  /\ r.mem.polling = s.mem.polling
  /\ r.disk.dispatches = s.disk.dispatches /\ Known(s.disk) \subseteq Known(r.disk)
  /\ s.mem.stop => r.mem.stop
  /\ r.disk.workStop = s.disk.workStop \/ r.disk.workStop = s.mem.workStop

\* A memory with other definitions, edges or replays.
LEMMA RedefinedSays ==
  ASSUME NEW R \in SUBSET Tasks, NEW s, Good(s, R), Fresh(s), NEW m \in Memories,
         m.phase = s.mem.phase, m.attempts = s.mem.attempts, m.failures = s.mem.failures,
         m.refreshes = s.mem.refreshes, m.completed = s.mem.completed, m.stop = s.mem.stop,
         m.workStop = s.mem.workStop, m.inflight = s.mem.inflight,
         m.pending = s.mem.pending, m.active = s.mem.active, m.polling = s.mem.polling,
         \A u \in s.mem.inflight : m.edges[u] = s.mem.edges[u]
  PROVE  LET r == [s EXCEPT !.mem = m] IN
         /\ Good(r, R) /\ Fresh(r) /\ Moved(s, r) /\ QueueKept(s, r)
         /\ r.mem = m /\ r.disk = s.disk
<1> DEFINE r == [s EXCEPT !.mem = m]
<1>1. s \in States /\ Logs(s)
  BY DEF Good
<1>2. r \in States /\ Logs(r) /\ r.mem = m /\ r.disk = s.disk
  BY <1>1, MemoryChange
<1> HIDE DEF r
<1>3. AgreesBesides(r, {})
  BY <1>2 DEF Good, AgreesBesides
<1>4. Owed(r, R) /\ Waits(r) /\ GivenUp(r) /\ Fresh(r)
  BY <1>2 DEF Good, Owed, Waits, GivenUp, Fresh
<1>5. Moved(s, r) /\ QueueKept(s, r)
  BY <1>2 DEF Moved, QueueKept
<1> QED BY <1>2, <1>3, <1>4, <1>5 DEF Good, r

(* The edges of a directory with what t asks for.                            *)
EdgesAsked(d, t, asks, edges) ==
  /\ edges \in [Tasks -> SUBSET Tasks] /\ edges[t] = Edges(d)[t] \cup asks
  /\ \A u \in Tasks \ {t} :
        edges[u] = IF u \in asks \ Known(d) THEN Needs[u] ELSE Edges(d)[u]

\* A request is put in the memory first.
LEMMA AskedSays ==
  ASSUME campaign \in Campaigns, NEW R \in SUBSET Tasks, NEW s, Good(s, R), Fresh(s), Defined(s),
         NEW t \in Tasks, t \in Known(s.disk), t \notin s.mem.inflight,
         s.mem.inflight \subseteq s.mem.known, NEW asks \in SUBSET Tasks
  PROVE  LET a == Asked(s, t, asks) IN
         /\ Good(a, R) /\ Fresh(a) /\ Moved(s, a) /\ QueueKept(s, a) /\ a.disk = s.disk
         /\ a.mem.known = Known(s.disk) \cup asks /\ a.mem.replays = s.disk.replays
         /\ EdgesAsked(s.disk, t, asks, a.mem.edges)
<1> DEFINE known == s.mem.known \cup asks
           edges == [x \in Tasks |->
                      (IF x \in asks \ s.mem.known THEN Needs[x] ELSE s.mem.edges[x])
                      \cup (IF x = t THEN asks ELSE {})]
           m == [s.mem EXCEPT !.known = known, !.edges = edges]
           a == [s EXCEPT !.mem = m]
<1>1. /\ s \in States /\ s.mem \in Memories /\ s.mem.known = Known(s.disk)
      /\ s.mem.edges = Edges(s.disk) /\ s.mem.replays = s.disk.replays
  BY DEF Good, States, Defined
<1>2. known \in SUBSET Tasks /\ edges \in [Tasks -> SUBSET Tasks]
  BY <1>1, TaskPlanAssumption DEF Memories
<1>3. EdgesAsked(s.disk, t, asks, edges)
  BY <1>1, <1>2 DEF EdgesAsked
<1>4. \A u \in s.mem.inflight : edges[u] = s.mem.edges[u]
  BY <1>1 DEF Memories
<1>5. Asked(s, t, asks) = a
  BY <1>1 DEF Asked, States, Memories
<1> HIDE DEF known, edges
<1>6. /\ m \in Memories /\ m.known = known /\ m.edges = edges
      /\ m.phase = s.mem.phase /\ m.attempts = s.mem.attempts /\ m.failures = s.mem.failures
      /\ m.refreshes = s.mem.refreshes /\ m.completed = s.mem.completed /\ m.stop = s.mem.stop
      /\ m.workStop = s.mem.workStop /\ m.inflight = s.mem.inflight
      /\ m.pending = s.mem.pending /\ m.active = s.mem.active /\ m.polling = s.mem.polling
      /\ m.replays = s.mem.replays
  BY <1>1, <1>2 DEF Memories
<1> HIDE DEF m
<1>7. /\ Good(a, R) /\ Fresh(a) /\ Moved(s, a) /\ QueueKept(s, a)
      /\ a.mem = m /\ a.disk = s.disk
  BY <1>4, <1>6, RedefinedSays
<1> HIDE DEF a
<1> QED BY <1>1, <1>3, <1>5, <1>6, <1>7 DEF known

\* New definitions, the edges to them and the replay reach the disk.
LEMMA DependSays ==
  ASSUME campaign \in Campaigns, NEW R \in SUBSET Tasks, NEW c, Good(c, R), Fresh(c),
         NEW t \in Tasks, t \in Known(c.disk), t \notin c.mem.inflight,
         NEW asks \in SUBSET Tasks,
         Definable(c.disk, asks),
         c.mem.known = Known(c.disk) \cup asks, c.mem.replays = c.disk.replays,
         EdgesAsked(c.disk, t, asks, c.mem.edges), WellFounded(c.mem.known, c.mem.edges)
  PROVE  LET q == Depend(c, t, asks) IN
         /\ Good(q, R) /\ Fresh(q) /\ Defined(q) /\ Moved(c, q) /\ QueueKept(c, q)
<1> DEFINE more == IF AllOk(c, asks) THEN {Generation(c, asks)} ELSE {}
           some == c.mem.replays[t] \cup more
           m == [c.mem EXCEPT !.replays[t] = some]
           p == [c EXCEPT !.mem = m]
           named == Over(asks, "register", p)
           new == m.edges[t]
           e == [named.disk EXCEPT !.edges[t] = new \ Needs[t]]
           linked == Write(named, e)
           f == [linked.disk EXCEPT !.replays[t] = some]
           q == Write(linked, f)
<1>1. /\ c \in States /\ c.mem \in Memories /\ c.disk \in Directories /\ Readable(c.disk)
      /\ c.mem.replays \in [Tasks -> SUBSET Generations]
      /\ c.mem.completed \in [Tasks -> Row]
  BY DEF Good, States, Logs, Memories
<1>2. some \in SUBSET Generations /\ \A g \in some : g \in c.mem.replays[t] \/ DOMAIN g = asks
  <2>1. Generation(c, asks) \in [asks -> Nat] /\ DOMAIN Generation(c, asks) = asks
    BY <1>1 DEF Generation, Row
  <2>2. Generation(c, asks) \in Generations
    BY <2>1 DEF Generations
  <2> QED BY <1>1, <2>1, <2>2
<1> HIDE DEF some
<1>3. /\ m \in Memories /\ m.known = c.mem.known /\ m.edges = c.mem.edges
      /\ m.phase = c.mem.phase /\ m.attempts = c.mem.attempts /\ m.failures = c.mem.failures
      /\ m.refreshes = c.mem.refreshes /\ m.completed = c.mem.completed /\ m.stop = c.mem.stop
      /\ m.workStop = c.mem.workStop /\ m.inflight = c.mem.inflight
      /\ m.pending = c.mem.pending /\ m.active = c.mem.active /\ m.polling = c.mem.polling
      /\ m.replays = [c.mem.replays EXCEPT ![t] = some]
  <2> DEFINE replays == [c.mem.replays EXCEPT ![t] = some]
  <2>1. replays \in [Tasks -> SUBSET Generations]
    BY <1>1, <1>2
  <2>2. m = [c.mem EXCEPT !.replays = replays]
    OBVIOUS
  <2> HIDE DEF replays
  <2> QED BY <1>1, <2>1, <2>2 DEF Memories, replays
<1>4. Depend(c, t, asks) = SaveDefinitions(p, asks, t)
  <2>1. Depend(c, t, asks)
          = SaveDefinitions([c EXCEPT !.mem.replays[t] = @ \cup more], asks, t)
    BY DEF Depend
  <2>2. [c EXCEPT !.mem.replays[t] = @ \cup more] = p
    BY <1>1 DEF some, States, Memories
  <2> HIDE DEF more, p
  <2> QED BY <2>1, <2>2
<1> HIDE DEF m
<1>5. /\ Good(p, R) /\ Fresh(p) /\ Moved(c, p) /\ QueueKept(c, p)
      /\ p.mem = m /\ p.disk = c.disk
  BY <1>3, RedefinedSays
<1> HIDE DEF p
<1>6. /\ Good(named, R) /\ named.mem = m /\ Fresh(named)
      /\ named.disk.registry = c.disk.registry \cup asks
      /\ named.disk.edges = c.disk.edges /\ named.disk.replays = c.disk.replays
      /\ named.disk.workStop = c.disk.workStop /\ SameRuns(c.disk, named.disk)
  <2>1. Definable(p.disk, asks)
    BY <1>5
  <2>2. Registered(p, named, asks, R)
    BY <1>5, <2>1, RegisterLoop
  <2> HIDE DEF named
  <2> QED BY <1>5, <2>2 DEF Registered
<1> HIDE DEF named
<1>7. /\ Known(named.disk) = Known(c.disk) \cup asks
      /\ named.disk \in Directories /\ Readable(named.disk) /\ Follows(named.disk)
      /\ m.edges \in [Tasks -> SUBSET Tasks] /\ new \in SUBSET Tasks
      /\ Shape(c.disk)
  BY <1>1, <1>3, <1>6 DEF Known, Good, States, Logs, Memories, Readable
<1>8. \A u \in Tasks \ {t} : Edges(named.disk)[u] = m.edges[u]
  <2> SUFFICES ASSUME NEW u \in Tasks \ {t} PROVE Edges(named.disk)[u] = m.edges[u]
    OBVIOUS
  <2>1. m.edges[u] = IF u \in asks \ Known(c.disk) THEN Needs[u] ELSE Edges(c.disk)[u]
    BY <1>3 DEF EdgesAsked
  <2>2. Edges(named.disk)[u] =
          IF u \in Known(c.disk) \cup asks THEN Needs[u] \cup c.disk.edges[u] ELSE {}
    BY <1>6, <1>7 DEF Edges
  <2>3. Edges(c.disk)[u] = IF u \in Known(c.disk) THEN Needs[u] \cup c.disk.edges[u] ELSE {}
    BY DEF Edges
  <2>4. u \notin Known(c.disk) => c.disk.edges[u] = {}
    BY <1>7 DEF Shape
  <2> QED BY <2>1, <2>2, <2>3, <2>4
<1>9. Edges(named.disk)[t] \subseteq new /\ Edges(c.disk)[t] \subseteq new /\ asks \subseteq new
  <2>1. new = Edges(c.disk)[t] \cup asks
    BY <1>3 DEF EdgesAsked
  <2>2. Edges(named.disk)[t] = Edges(c.disk)[t]
    BY <1>6, <1>7 DEF Edges
  <2> QED BY <2>1, <2>2
<1>10. [Edges(named.disk) EXCEPT ![t] = new] = m.edges
  <2> DEFINE h == Edges(named.disk)
  <2>1. h \in [Tasks -> SUBSET Tasks] /\ \A u \in Tasks \ {t} : h[u] = m.edges[u]
    BY <1>7, <1>8, KnownEdges
  <2> HIDE DEF h
  <2>2. [h EXCEPT ![t] = new] = m.edges
    BY <1>7, <2>1
  <2> QED BY <2>2 DEF h
<1>11. Linkable(named.disk, t, new)
  <2>1. Known(named.disk) = m.known /\ WellFounded(m.known, m.edges)
    BY <1>3, <1>7
  <2> QED BY <1>7, <1>9, <1>10, <2>1 DEF Linkable
<1>12. /\ e \in Directories /\ Readable(e) /\ Follows(e) /\ SameRuns(named.disk, e)
       /\ Known(e) = m.known /\ Edges(e) = m.edges
       /\ e.replays = c.disk.replays /\ e.workStop = c.disk.workStop
  <2> HIDE DEF new
  <2>1. Linked(named.disk, e, t, new)
    BY <1>7, <1>11, EdgesWrite
  <2> HIDE DEF e
  <2> QED BY <1>3, <1>6, <1>7, <1>10, <2>1 DEF Linked
<1> HIDE DEF e
<1>13. Good(linked, R) /\ linked.mem = m /\ linked.disk = e /\ Fresh(linked)
  BY <1>6, <1>12, DefinitionsGood
<1> HIDE DEF linked
<1>14. Justified(linked.disk, t, some)
  <2>1. \A g \in c.disk.replays[t] : DOMAIN g \subseteq Edges(c.disk)[t]
    BY <1>7 DEF Shape
  <2> QED BY <1>2, <1>9, <1>12, <1>13, <2>1, <1>1 DEF Justified
<1>15. /\ f \in Directories /\ Readable(f) /\ Follows(f) /\ SameRuns(linked.disk, f)
       /\ Known(f) = m.known /\ Edges(f) = m.edges
       /\ f.workStop = c.disk.workStop /\ f.replays = m.replays
  <2>1. WithReplays(linked.disk, f, t, some)
    BY <1>2, <1>12, <1>13, <1>14, ReplaysWrite
  <2> HIDE DEF f
  <2> QED BY <1>1, <1>3, <1>12, <1>13, <2>1 DEF WithReplays
<1> HIDE DEF f
<1>16. Good(q, R) /\ q.mem = m /\ q.disk = f /\ Fresh(q)
  BY <1>13, <1>15, DefinitionsGood
<1>17. Depend(c, t, asks) = q
  <2>1. SaveDefinitions(p, asks, t) = SaveReplays(SaveEdges(named, t), t)
    BY DEF SaveDefinitions, named
  <2>2. [named.disk EXCEPT !.edges[t] = named.mem.edges[t] \ Needs[t]] = e
    BY <1>6 DEF e
  <2>3. SaveEdges(named, t) = linked
    BY <2>2 DEF SaveEdges, linked
  <2>4. linked.mem.replays[t] = some
    BY <1>1, <1>3, <1>13
  <2>5. SaveReplays(linked, t) = Write(linked, f)
    BY <2>4 DEF SaveReplays, f
  <2> QED BY <1>4, <2>1, <2>3, <2>5
<1> HIDE DEF q
<1>18. Defined(q)
  BY <1>15, <1>16 DEF Defined
<1>19. Moved(c, q) /\ QueueKept(c, q)
  <2>1. q.disk.dispatches = c.disk.dispatches
    BY <1>6, <1>12, <1>13, <1>15, <1>16 DEF SameRuns
  <2>2. Known(c.disk) \subseteq Known(q.disk) /\ q.disk.workStop = c.disk.workStop
    BY <1>3, <1>15, <1>16
  <2> QED BY <1>3, <1>16, <2>1, <2>2 DEF Moved, QueueKept
<1> QED BY <1>16, <1>17, <1>18, <1>19

(* What a request for dependencies can be: one for tasks whose definitions   *)
(* can be read, of a task that is not queued.                                *)
MayRequest(s, running, t, asks) ==
  /\ Good(s, running) /\ Fresh(s) /\ Defined(s) /\ t \in Known(s.disk)
  /\ t \notin s.mem.inflight /\ s.mem.inflight \subseteq s.mem.known
  /\ Definable(s.disk, asks)

(* The request's answer leaves all well.                                     *)
Answered(s, q, running) ==
  /\ Good(q.s, running) /\ Fresh(q.s) /\ Defined(q.s)
  /\ Moved(s, q.s) /\ QueueKept(s, q.s)
  /\ q.status \in {"software_error", "needs_dependencies"}

\* A request is refused, found to be a replay, or written down.
LEMMA RequestedSays ==
  ASSUME campaign \in Campaigns, NEW R \in SUBSET Tasks, NEW s, NEW t \in Tasks,
         NEW asks \in SUBSET Tasks, MayRequest(s, R, t, asks)
  PROVE  Answered(s, Requested(s, t, asks), R)
<1> USE DEF MayRequest
<1> DEFINE a == Asked(s, t, asks)
           c == Over(asks, "withdraw", a)
           q == Requested(s, t, asks)
<1>1. CASE ~MayAsk(s, t, asks)
  <2>1. q = [s |-> s, status |-> "software_error"]
    BY <1>1 DEF Requested
  <2>2. q.s = s /\ q.status = "software_error"
    BY <2>1
  <2> HIDE DEF q
  <2>3. Moved(s, s) /\ QueueKept(s, s)
    BY DEF Moved, QueueKept
  <2> QED BY <2>2, <2>3 DEF Answered, q
<1>2. CASE MayAsk(s, t, asks)
  <2>1. /\ Good(a, R) /\ Fresh(a) /\ Moved(s, a) /\ QueueKept(s, a) /\ a.disk = s.disk
        /\ a.mem.known = Known(s.disk) \cup asks /\ a.mem.replays = s.disk.replays
        /\ EdgesAsked(s.disk, t, asks, a.mem.edges)
    BY AskedSays
  <2>2. WellFounded(a.mem.known, a.mem.edges)
    BY <1>2 DEF MayAsk
  <2>3. Requested(s, t, asks) =
          IF Replayed(c, t, asks) THEN [s |-> c, status |-> "software_error"]
          ELSE [s |-> Depend(c, t, asks), status |-> "needs_dependencies"]
    BY <1>2 DEF Requested, Looked, Checked
  <2> HIDE DEF a
  <2>4. Good(c, R) /\ Fresh(c) /\ Kept(a, c) /\ QueueKept(a, c)
    <3> DEFINE loop == "withdraw"
    <3>1. loop \in {"withdraw", "mark"}
      OBVIOUS
    <3>2. LET r == Over(asks, loop, a) IN
          Good(r, R) /\ Fresh(r) /\ Kept(a, r) /\ QueueKept(a, r)
      <4> HIDE DEF loop
      <4> QED BY <2>1, <3>1, WithdrawLoop
    <3> QED BY <3>2
  <2> HIDE DEF c
  <2>5. /\ c.disk.registry = s.disk.registry /\ c.disk.edges = s.disk.edges
        /\ c.disk.replays = s.disk.replays
        /\ c.mem.known = Known(s.disk) \cup asks /\ c.mem.replays = s.disk.replays
        /\ c.mem.edges = a.mem.edges
    BY <2>1, <2>4 DEF Kept
  <2>6. Known(c.disk) = Known(s.disk) /\ Edges(c.disk) = Edges(s.disk)
    BY <2>5, ShapeElsewhere
  <2>7. EdgesAsked(c.disk, t, asks, c.mem.edges)
    BY <2>1, <2>5, <2>6 DEF EdgesAsked
  <2>8. Moved(s, c) /\ QueueKept(s, c)
    <3>1. Moved(s, c)
      BY <2>1, <2>4, <2>6 DEF Kept, Moved
    <3>2. QueueKept(s, c)
      BY <2>1, <2>4 DEF QueueKept
    <3> QED BY <3>1, <3>2
  <2>9. CASE Replayed(c, t, asks)
    <3>1. Generation(c, asks) \in c.disk.replays[t]
      BY <2>5, <2>9 DEF Replayed
    <3>2. Shape(c.disk)
      BY <2>4 DEF Good, Logs, Readable
    <3>3. DOMAIN Generation(c, asks) = asks
      BY DEF Generation
    <3>4. asks \subseteq Edges(c.disk)[t]
      BY <3>1, <3>2, <3>3 DEF Shape
    <3>5. asks \subseteq Known(c.disk)
      <4>1. t \in Known(c.disk)
        BY <2>6
      <4> QED BY <3>2, <3>4, <4>1 DEF Shape, WellFounded
    <3>6. c.mem.edges = Edges(c.disk)
      <4> DEFINE f == Edges(c.disk)
                 g == c.mem.edges
      <4>1. f \in [Tasks -> SUBSET Tasks]
        <5>1. c.disk \in Directories
          BY <2>4 DEF Good, States
        <5> QED BY <5>1, KnownEdges
      <4>2. g \in [Tasks -> SUBSET Tasks] /\ \A u \in Tasks : g[u] = f[u]
        BY <2>7, <3>4, <3>5 DEF EdgesAsked
      <4> HIDE DEF f, g
      <4>3. f = g
        BY <4>1, <4>2
      <4> QED BY <4>3 DEF f, g
    <3>7. Defined(c)
      BY <2>5, <2>6, <3>5, <3>6 DEF Defined
    <3>8. q = [s |-> c, status |-> "software_error"]
      BY <2>3, <2>9
    <3>9. q.s = c /\ q.status = "software_error"
      BY <3>8
    <3> HIDE DEF q
    <3> QED BY <2>4, <2>8, <3>7, <3>9 DEF Answered, q
  <2>10. CASE ~Replayed(c, t, asks)
    <3> DEFINE n == Depend(c, t, asks)
    <3>1. /\ t \in Known(c.disk) /\ t \notin c.mem.inflight /\ Definable(c.disk, asks)
          /\ c.mem.known = Known(c.disk) \cup asks /\ c.mem.replays = c.disk.replays
          /\ WellFounded(c.mem.known, c.mem.edges)
      BY <2>2, <2>5, <2>6, <2>8, <2>1 DEF QueueKept, Definable
    <3>2. Good(n, R) /\ Fresh(n) /\ Defined(n) /\ Moved(c, n) /\ QueueKept(c, n)
      BY <2>4, <2>7, <3>1, DependSays
    <3>3. q.s = n /\ q.status = "needs_dependencies"
      <4> HIDE DEF n
      <4>1. q = [s |-> n, status |-> "needs_dependencies"]
        BY <2>3, <2>10 DEF n
      <4> HIDE DEF q
      <4> QED BY <4>1
    <3> HIDE DEF n, q
    <3>4. Moved(s, n) /\ QueueKept(s, n)
      <4>1. Moved(s, n)
        BY <2>8, <3>2 DEF Moved
      <4>2. QueueKept(s, n)
        BY <2>8, <3>2 DEF QueueKept
      <4> QED BY <4>1, <4>2
    <3> QED BY <3>2, <3>3, <3>4 DEF Answered, q
  <2> QED BY <2>9, <2>10
<1> QED BY <1>1, <1>2

-----------------------------------------------------------------------------
(* The end of a run.                                                         *)

Kinds == {"ok", "software_error", "budget_exceeded", "deferred", "needs_dependencies"}

(* A run that can end with an answer: one that is owed a row.                *)
MayFinish(s, running, t, answer) ==
  /\ Good(s, running) /\ Defined(s) /\ s.disk.workStop = s.mem.workStop
  /\ answer.kind = "needs_dependencies" => Fresh(s)
  /\ t \in running /\ t \in s.mem.known /\ s.mem.inflight \subseteq s.mem.known
  /\ answer.kind \in Kinds /\ answer.asks \in SUBSET Tasks /\ Definable(s.disk, answer.asks)
  /\ t \in Finalizers /\ answer.kind = "budget_exceeded" =>
       s.mem.stop \/ worker[t].kind = "budget_exceeded"

(* f is s with the run of t ended.                                           *)
RunEnded(s, f, running, t) ==
  /\ Good(f, running \ {t}) /\ Defined(f) /\ f.disk.workStop = f.mem.workStop
  /\ f.mem.phase = s.mem.phase /\ f.mem.active = s.mem.active
  /\ f.mem.polling = s.mem.polling /\ f.mem.pending = s.mem.pending
  /\ f.mem.attempts = s.mem.attempts /\ f.mem.inflight = s.mem.inflight \ {t}
  /\ Known(s.disk) \subseteq Known(f.disk)

(* The state without t in the queue, and the flag stop.                      *)
Without(s, t, stop) == [s EXCEPT !.mem = [s.mem EXCEPT !.inflight = @ \ {t}, !.stop = stop]]

(* A run leaves the queue, and the campaign stops if it is out of time.      *)
MayLeave(s, running, stop) ==
  Good(s, running) /\ Defined(s) /\ stop \in BOOLEAN /\ (s.mem.stop => stop)

Left(s, r, running, t, stop) ==
  /\ Good(r, running) /\ (Fresh(s) => Fresh(r)) /\ Defined(r) /\ Moved(s, r) /\ r.disk = s.disk
  /\ r.mem.inflight = s.mem.inflight \ {t} /\ r.mem.pending = s.mem.pending
  /\ r.mem.stop = stop /\ r.mem.known = s.mem.known

\* What leaves the queue leaves all well.
LEMMA LeftSays ==
  ASSUME NEW R \in SUBSET Tasks, NEW s, NEW t \in Tasks, NEW stop, MayLeave(s, R, stop)
  PROVE  Left(s, Without(s, t, stop), R, t, stop)
<1> USE DEF MayLeave
<1> DEFINE inflight == s.mem.inflight \ {t}
           m == [s.mem EXCEPT !.inflight = inflight, !.stop = stop]
           r == [s EXCEPT !.mem = m]
<1>1. s \in States /\ Logs(s) /\ s.mem \in Memories /\ inflight \in SUBSET Tasks
  BY DEF Good, States, Memories
<1> HIDE DEF inflight
<1>2. /\ m \in Memories /\ m.inflight = inflight /\ m.stop = stop
      /\ m.phase = s.mem.phase /\ m.known = s.mem.known /\ m.edges = s.mem.edges
      /\ m.replays = s.mem.replays /\ m.attempts = s.mem.attempts
      /\ m.active = s.mem.active /\ m.polling = s.mem.polling
      /\ m.failures = s.mem.failures /\ m.refreshes = s.mem.refreshes
      /\ m.completed = s.mem.completed /\ m.workStop = s.mem.workStop
      /\ m.pending = s.mem.pending
  BY <1>1 DEF Memories
<1> HIDE DEF m
<1>3. r \in States /\ Logs(r) /\ r.mem = m /\ r.disk = s.disk
  BY <1>1, <1>2, MemoryChange
<1> HIDE DEF r
<1>4. AgreesBesides(r, {})
  BY <1>2, <1>3 DEF Good, AgreesBesides
<1>5. Owed(r, R) /\ GivenUp(r) /\ (Fresh(s) => Fresh(r)) /\ Defined(r)
  BY <1>2, <1>3 DEF Good, Owed, GivenUp, Fresh, Defined
<1>6. Waits(r)
  BY <1>2, <1>3 DEF Good, Waits, inflight
<1>7. Moved(s, r)
  BY <1>2, <1>3 DEF Moved
<1>8. Without(s, t, stop) = r
  BY DEF Without, r, m, inflight
<1> QED BY <1>2, <1>3, <1>4, <1>5, <1>6, <1>7, <1>8 DEF Good, inflight, Left

\* A run's answer is recorded under its attempt.
LEMMA FinishSays ==
  ASSUME campaign \in Campaigns, NEW R \in SUBSET Tasks, NEW s, NEW t \in Tasks,
         NEW answer, NEW sample, MayFinish(s, R, t, answer)
  PROVE  RunEnded(s, Finish(s, t, answer, sample), R, t)
<1> USE DEF MayFinish
<1> DEFINE over == clock = "over" \/ sample = "full"
           stop == s.mem.stop \/ over
           seen == Without(s, t, stop)
           told == IF over THEN [s |-> seen, status |-> "budget_exceeded"]
                   ELSE IF answer.kind = "needs_dependencies" THEN Requested(seen, t, answer.asks)
                   ELSE IF answer.kind = "ok" /\ t \notin healthy
                   THEN [s |-> seen, status |-> "software_error"]
                   ELSE [s |-> seen, status |-> answer.kind]
           v == told.s
           status == told.status
           count == IF status = "software_error" THEN v.mem.failures[t] + 1 ELSE v.mem.failures[t]
           m == [v.mem EXCEPT !.failures[t] = count]
           charged == [v EXCEPT !.mem = m]
           run == s.mem.attempts[t]
           terminal == \/ status \in {"ok", "budget_exceeded"}
                       \/ status = "software_error" /\ OutOfTries(charged, t)
           brims == sample = "brims"
           f == Record(charged, t, status, run, terminal, brims)
<1>1. s \in States /\ s.mem \in Memories /\ stop \in BOOLEAN /\ (s.mem.stop => stop)
      /\ ~Ended(s, t) /\ (over => stop)
  BY DEF Good, States, Memories, Owed, Ended
<1>2. /\ Good(seen, R) /\ (Fresh(s) => Fresh(seen)) /\ Defined(seen) /\ Moved(s, seen)
      /\ seen.disk = s.disk
      /\ seen.mem.inflight = s.mem.inflight \ {t} /\ seen.mem.pending = s.mem.pending
      /\ seen.mem.stop = stop /\ seen.mem.known = s.mem.known
  <2>1. MayLeave(s, R, stop)
    BY <1>1 DEF MayLeave
  <2>2. Left(s, seen, R, t, stop)
    <3> HIDE DEF stop
    <3> QED BY <2>1, LeftSays
  <2> HIDE DEF stop, seen
  <2> QED BY <2>2 DEF Left
<1>3. [[s EXCEPT !.mem.inflight = @ \ {t}] EXCEPT !.mem.stop = @ \/ over] = seen
  <2> HIDE DEF over
  <2> QED BY <1>1 DEF States, Memories, Without
<1> HIDE DEF seen
<1>4. answer.kind = "needs_dependencies" => MayRequest(seen, R, t, answer.asks)
  <2>1. t \in Known(s.disk) /\ t \notin seen.mem.inflight
        /\ seen.mem.inflight \subseteq seen.mem.known
    BY <1>2 DEF Defined
  <2> QED BY <1>2, <2>1 DEF MayRequest
<1>5. /\ Good(v, R) /\ Defined(v) /\ Moved(seen, v) /\ QueueKept(seen, v)
      /\ status \in Kinds
      /\ status = "budget_exceeded" => over \/ answer.kind = "budget_exceeded"
  <2>1. CASE ~over /\ answer.kind = "needs_dependencies"
    <3> DEFINE q == Requested(seen, t, answer.asks)
    <3>1. Answered(seen, q, R)
      BY <1>4, <2>1, RequestedSays
    <3>2. told = q
      BY <2>1
    <3> HIDE DEF q, told
    <3> QED BY <3>1, <3>2 DEF Answered, Kinds
  <2>2. CASE ~(~over /\ answer.kind = "needs_dependencies")
    <3>1. /\ v = seen /\ status \in Kinds
          /\ status = "budget_exceeded" => over \/ answer.kind = "budget_exceeded"
      <4>1. CASE over
        BY <4>1 DEF Kinds
      <4>2. CASE ~over /\ answer.kind = "ok" /\ t \notin healthy
        BY <4>2 DEF Kinds
      <4>3. CASE ~over /\ ~(answer.kind = "ok" /\ t \notin healthy)
        BY <2>2, <4>3
      <4> QED BY <4>1, <4>2, <4>3
    <3> HIDE DEF told
    <3>2. Moved(seen, seen) /\ QueueKept(seen, seen)
      BY DEF Moved, QueueKept
    <3> QED BY <1>2, <3>1, <3>2
  <2> QED BY <2>1, <2>2
<1> HIDE DEF told
<1>6. v \in States /\ v.mem \in Memories /\ v.disk \in Directories
      /\ v.mem.failures \in [Tasks -> Nat] /\ v.disk.failures[t] \in Nat
      /\ Logs(v) /\ AgreesBesides(v, {}) /\ Owed(v, R) /\ Waits(v) /\ GivenUp(v)
  BY <1>5 DEF Good, States, Memories, Directories
<1>7. [v EXCEPT !.mem.failures[t] = @ + 1] = [v EXCEPT !.mem = [v.mem EXCEPT !.failures[t]
                                                                   = v.mem.failures[t] + 1]]
  BY <1>6 DEF States, Memories
<1>8. v = [v EXCEPT !.mem = [v.mem EXCEPT !.failures[t] = v.mem.failures[t]]]
  <2>1. v.mem.failures = [v.mem.failures EXCEPT ![t] = v.mem.failures[t]]
    BY <1>6
  <2> DEFINE same == [v.mem.failures EXCEPT ![t] = v.mem.failures[t]]
  <2>2. v.mem = [v.mem EXCEPT !.failures = same]
    <3> HIDE DEF same, v
    <3>1. same = v.mem.failures
      BY <2>1 DEF same
    <3> QED BY <1>6, <3>1 DEF Memories
  <2>3. v = [v EXCEPT !.mem = v.mem]
    <3> HIDE DEF v
    <3> QED BY <1>6 DEF States
  <2> HIDE DEF v
  <2> QED BY <2>2, <2>3
<1>9. (IF status = "software_error" THEN [v EXCEPT !.mem.failures[t] = @ + 1] ELSE v) = charged
  <2> HIDE DEF v, status
  <2>1. CASE status = "software_error"
    BY <1>7, <2>1
  <2>2. CASE status # "software_error"
    BY <1>8, <2>2
  <2> QED BY <2>1, <2>2
<1> HIDE DEF v, status
<1>10. /\ m \in Memories /\ m.failures = [v.mem.failures EXCEPT ![t] = count]
       /\ m.phase = v.mem.phase /\ m.known = v.mem.known /\ m.edges = v.mem.edges
       /\ m.replays = v.mem.replays /\ m.attempts = v.mem.attempts
       /\ m.active = v.mem.active /\ m.polling = v.mem.polling
       /\ m.inflight = v.mem.inflight /\ m.refreshes = v.mem.refreshes
       /\ m.completed = v.mem.completed /\ m.workStop = v.mem.workStop
       /\ m.pending = v.mem.pending /\ m.stop = v.mem.stop
  <2> DEFINE failures == [v.mem.failures EXCEPT ![t] = count]
  <2>1. failures \in [Tasks -> Nat]
    BY <1>6
  <2>2. m = [v.mem EXCEPT !.failures = failures]
    OBVIOUS
  <2> HIDE DEF failures
  <2> QED BY <1>6, <2>1, <2>2 DEF Memories, failures
<1> HIDE DEF m
<1>11. charged \in States /\ Logs(charged) /\ charged.mem = m /\ charged.disk = v.disk
  BY <1>6, <1>10, MemoryChange
<1> HIDE DEF charged
<1>12. ~Ended(charged, t) /\ ~Failed(v.disk, t)
  <2>1. ~Ended(v, t)
    BY <1>6 DEF Owed, Ended
  <2>2. ~Stands(v.disk, t)
    <3>1. AgreesBesides(v, Tasks)
      BY <1>6 DEF AgreesBesides
    <3> QED BY <1>6, <2>1, <3>1, NotEnded
  <2> QED BY <1>10, <1>11, <2>1, <2>2 DEF Ended, Stands, Failed, Verdicts
<1>13. charged.mem.failures[t] = v.disk.failures[t] + IF status = "software_error" THEN 1 ELSE 0
  <2>1. v.mem.failures[t] = v.disk.failures[t]
    BY <1>6, <1>12 DEF AgreesBesides
  <2>2. charged.mem.failures[t] = count
    BY <1>6, <1>10, <1>11
  <2> QED BY <1>6, <2>1, <2>2
<1>14. AgreesBesides(charged, {t})
  BY <1>6, <1>10, <1>11 DEF AgreesBesides
<1>15. Owed(charged, R) /\ Owed(charged, {t}) /\ Waits(charged) /\ GivenUp(charged)
  BY <1>6, <1>10, <1>11 DEF Owed, Waits, GivenUp
<1>16. run = charged.mem.attempts[t] /\ run \in Int /\ t \in Known(charged.disk)
  <2>1. charged.mem.attempts = s.mem.attempts
    BY <1>2, <1>5, <1>10, <1>11 DEF Moved
  <2>2. t \in Known(charged.disk)
    BY <1>2, <1>5, <1>11 DEF Moved, Defined
  <2> QED BY <1>1, <2>1, <2>2 DEF Memories
<1>17. ~terminal /\ status = "software_error" => charged.disk.failures[t] + 1 < MaxAttempts
  <2>1. MaxAttempts \in Nat
    BY TaskPlanAssumption DEF MaxAttempts
  <2> QED BY <1>6, <1>11, <1>13, <2>1 DEF OutOfTries
<1>18. t \in Finalizers /\ disk.completion[t] = NoRow /\ status = "budget_exceeded" =>
         charged.mem.stop \/ worker[t].kind = "budget_exceeded"
  <2>1. charged.mem.stop \/ ~stop
    BY <1>2, <1>5, <1>10, <1>11 DEF Moved
  <2> QED BY <1>1, <1>5, <2>1
<1>19. /\ status \in Outcomes /\ terminal \in BOOLEAN /\ brims \in BOOLEAN
       /\ terminal => status \in Verdicts
       /\ status # "blocked"
  BY <1>5 DEF Kinds, Outcomes, Verdicts
<1> HIDE DEF terminal, brims, run
<1>20. MayRecord(charged, R, t, status, run, terminal, brims)
  BY <1>11, <1>12, <1>13, <1>14, <1>15, <1>16, <1>17, <1>18, <1>19 DEF MayRecord
<1>21. /\ Recorded(charged, f, t, RowOf(charged, t, status, brims), run, terminal \/ brims)
       /\ Good(f, R \ {t})
  BY <1>16, <1>19, <1>20, RecordSays
<1>22. Finish(s, t, answer, sample) = f
  <2> DEFINE before == [[s EXCEPT !.mem.inflight = @ \ {t}] EXCEPT !.mem.stop = @ \/ over]
             Told(x) == IF over THEN [s |-> x, status |-> "budget_exceeded"]
                        ELSE IF answer.kind = "needs_dependencies"
                        THEN Requested(x, t, answer.asks)
                        ELSE IF answer.kind = "ok" /\ t \notin healthy
                        THEN [s |-> x, status |-> "software_error"]
                        ELSE [s |-> x, status |-> answer.kind]
             Charged(y) == IF y.status = "software_error"
                           THEN [y.s EXCEPT !.mem.failures[t] = @ + 1] ELSE y.s
             Ends(y) == \/ y.status \in {"ok", "budget_exceeded"}
                        \/ y.status = "software_error" /\ OutOfTries(Charged(y), t)
             Final(y) == Record(Charged(y), t, y.status, s.mem.attempts[t], Ends(y),
                                sample = "brims")
  <2>1. Finish(s, t, answer, sample) = Final(Told(before))
    BY <1>1 DEF Finish
  <2>2. before = seen
    BY <1>3
  <2>3. Told(seen) = told
    BY DEF told
  <2>4. Final(told) = f
    <3>1. Charged(told) = charged
      BY <1>9 DEF v, status
    <3>2. Ends(told) = terminal
      <4> HIDE DEF Charged
      <4> QED BY <3>1 DEF terminal, status
    <3> HIDE DEF Charged, Ends
    <3> QED BY <3>1, <3>2 DEF run, brims, status
  <2> HIDE DEF before, Told, Final, f
  <2> QED BY <2>1, <2>2, <2>3, <2>4
<1> HIDE DEF f
<1>23. /\ Kept(charged, f) /\ QueueKept(charged, f) /\ f.disk.workStop = charged.mem.workStop
  BY <1>21 DEF Recorded
<1>24. Defined(f)
  <2>1. Known(f.disk) = Known(v.disk) /\ Edges(f.disk) = Edges(v.disk)
    BY <1>11, <1>23, ShapeElsewhere DEF Kept
  <2> QED BY <1>5, <1>10, <1>11, <1>23, <2>1 DEF Defined, Kept
<1>25. /\ f.mem.phase = s.mem.phase /\ f.mem.active = s.mem.active
       /\ f.mem.polling = s.mem.polling /\ f.mem.attempts = s.mem.attempts
       /\ f.disk.workStop = f.mem.workStop
  BY <1>2, <1>5, <1>10, <1>11, <1>23 DEF Moved, Kept
<1>26. f.mem.pending = s.mem.pending /\ f.mem.inflight = s.mem.inflight \ {t}
  BY <1>2, <1>5, <1>10, <1>11, <1>23 DEF QueueKept
<1>27. Known(s.disk) \subseteq Known(f.disk)
  <2>1. Known(f.disk) = Known(v.disk)
    BY <1>11, <1>23, ShapeElsewhere DEF Kept
  <2> QED BY <1>2, <1>5, <2>1 DEF Moved
<1> QED BY <1>21, <1>22, <1>24, <1>25, <1>26, <1>27 DEF RunEnded

-----------------------------------------------------------------------------
(* Lists without doubles.                                                    *)

\* The list q lost the element at k.
LEMMA LosesOne ==
  ASSUME NEW q \in Seq(Tasks), IsInjective(q), NEW k \in 1..Len(q),
         NEW r \in Seq(Tasks), Len(r) = Len(q) - 1,
         \A i \in 1..(Len(q) - 1) : r[i] = IF i < k THEN q[i] ELSE q[i + 1]
  PROVE  IsInjective(r) /\ ToSet(r) = ToSet(q) \ {q[k]}
<1>1. DOMAIN q = 1..Len(q) /\ DOMAIN r = 1..(Len(q) - 1) /\ Len(q) \in Nat
  OBVIOUS
<1> DEFINE at(i) == IF i < k THEN i ELSE i + 1
<1>2. \A i \in DOMAIN r : at(i) \in DOMAIN q /\ at(i) # k /\ r[i] = q[at(i)]
  BY <1>1
<1>3. \A i, j \in DOMAIN r : at(i) = at(j) => i = j
  BY <1>1
<1>4. \A n \in DOMAIN q \ {k} : \E i \in DOMAIN r : at(i) = n
  <2> TAKE n \in DOMAIN q \ {k}
  <2>1. CASE n < k
    <3>1. n \in DOMAIN r /\ at(n) = n
      BY <1>1, <2>1
    <3> QED BY <3>1
  <2>2. CASE n > k
    <3>1. n - 1 \in DOMAIN r /\ at(n - 1) = n
      BY <1>1, <2>2
    <3> QED BY <3>1
  <2> QED BY <1>1, <2>1, <2>2
<1>5. \A i, j \in DOMAIN q : q[i] = q[j] => i = j
  BY DEF IsInjective
<1> HIDE DEF at
<1>6. IsInjective(r)
  BY <1>2, <1>3, <1>5 DEF IsInjective
<1>7. ToSet(r) = ToSet(q) \ {q[k]}
  <2>1. \A x : x \in ToSet(r) <=> \E i \in DOMAIN r : x = r[i]
    BY DEF ToSet
  <2>2. \A x : x \in ToSet(q) <=> \E i \in DOMAIN q : x = q[i]
    BY DEF ToSet
  <2>3. k \in DOMAIN q
    BY <1>1
  <2>4. ASSUME NEW x \in ToSet(r) PROVE x \in ToSet(q) \ {q[k]}
    <3>1. PICK i \in DOMAIN r : x = r[i]
      BY <2>1
    <3> QED BY <1>2, <1>5, <2>2, <2>3, <3>1
  <2>5. ASSUME NEW x \in ToSet(q) \ {q[k]} PROVE x \in ToSet(r)
    <3>1. PICK n \in DOMAIN q : x = q[n]
      BY <2>2
    <3>2. PICK i \in DOMAIN r : at(i) = n
      BY <1>4, <2>5, <3>1
    <3> QED BY <1>2, <2>1, <3>1, <3>2
  <2> QED BY <2>4, <2>5
<1> QED BY <1>6, <1>7

\* A list loses its head.
LEMMA TailSays ==
  ASSUME NEW q \in Seq(Tasks), IsInjective(q), q # <<>>
  PROVE  /\ Head(q) \in ToSet(q) /\ Head(q) \in Tasks /\ Tail(q) \in Seq(Tasks)
         /\ IsInjective(Tail(q)) /\ ToSet(Tail(q)) = ToSet(q) \ {Head(q)}
<1> DEFINE r == Tail(q)
<1>1. /\ 1 \in 1..Len(q) /\ r \in Seq(Tasks) /\ Len(r) = Len(q) - 1 /\ Head(q) = q[1]
      /\ \A i \in 1..(Len(q) - 1) : r[i] = q[i + 1]
  OBVIOUS
<1>2. \A i \in 1..(Len(q) - 1) : r[i] = IF i < 1 THEN q[i] ELSE q[i + 1]
  BY <1>1
<1>3. Head(q) \in ToSet(q) /\ Head(q) \in Tasks
  BY <1>1 DEF ToSet
<1> HIDE DEF r
<1>4. IsInjective(r) /\ ToSet(r) = ToSet(q) \ {q[1]}
  BY <1>1, <1>2, LosesOne
<1> QED BY <1>1, <1>3, <1>4 DEF r

\* A list loses an element.
LEMMA RemoveSays ==
  ASSUME NEW q \in Seq(Tasks), IsInjective(q), NEW t \in ToSet(q)
  PROVE  /\ RemoveFirst(q, t) \in Seq(Tasks) /\ Len(RemoveFirst(q, t)) = Len(q) - 1
         /\ IsInjective(RemoveFirst(q, t)) /\ ToSet(RemoveFirst(q, t)) = ToSet(q) \ {t}
<1>1. PICK k \in 1..Len(q) : q[k] = t
  BY DEF ToSet
<1> DEFINE I == {i \in 1..Len(q) : q[i] = t}
<1>2. I = {k}
  BY <1>1 DEF IsInjective
<1>3. Min(I) = k
  BY <1>2 DEF Min
<1>4. SelectInSeq(q, LAMBDA v : v = t) = k
  BY <1>2, <1>3 DEF SelectInSeq
<1> DEFINE r == RemoveFirst(q, t)
<1>5. r = SubSeq(q, 1, k - 1) \o SubSeq(q, k + 1, Len(q))
  BY <1>1, <1>4 DEF RemoveFirst, RemoveAt
<1>6. /\ SubSeq(q, 1, k - 1) \in Seq(Tasks) /\ Len(SubSeq(q, 1, k - 1)) = k - 1
      /\ \A i \in 1..(k - 1) : SubSeq(q, 1, k - 1)[i] = q[i]
      /\ SubSeq(q, k + 1, Len(q)) \in Seq(Tasks) /\ Len(SubSeq(q, k + 1, Len(q))) = Len(q) - k
      /\ \A i \in 1..(Len(q) - k) : SubSeq(q, k + 1, Len(q))[i] = q[i + k]
  OBVIOUS
<1> HIDE DEF r
<1>7. r \in Seq(Tasks) /\ Len(r) = Len(q) - 1
  <2> DEFINE a == SubSeq(q, 1, k - 1)
             b == SubSeq(q, k + 1, Len(q))
  <2>1. /\ a \in Seq(Tasks) /\ Len(a) = k - 1 /\ b \in Seq(Tasks) /\ Len(b) = Len(q) - k
        /\ r = a \o b
    BY <1>5, <1>6
  <2> HIDE DEF a, b
  <2>2. a \o b \in Seq(Tasks) /\ Len(a \o b) = Len(a) + Len(b)
    <3>1. \A x, y \in Seq(Tasks) : x \o y \in Seq(Tasks) /\ Len(x \o y) = Len(x) + Len(y)
      OBVIOUS
    <3> QED BY <2>1, <3>1
  <2>3. Len(a) + Len(b) = Len(q) - 1
    BY <2>1
  <2> QED BY <2>1, <2>2, <2>3
<1>8. \A i \in 1..(Len(q) - 1) : r[i] = IF i < k THEN q[i] ELSE q[i + 1]
  <2> DEFINE a == SubSeq(q, 1, k - 1)
             b == SubSeq(q, k + 1, Len(q))
  <2> HIDE DEF a, b
  <2>1. /\ a \in Seq(Tasks) /\ Len(a) = k - 1 /\ \A i \in 1..(k - 1) : a[i] = q[i]
        /\ b \in Seq(Tasks) /\ Len(b) = Len(q) - k /\ \A i \in 1..(Len(q) - k) : b[i] = q[i + k]
        /\ r = a \o b
    BY <1>5, <1>6 DEF a, b
  <2>2. \A i \in 1..(Len(q) - 1) : (a \o b)[i] = IF i =< k - 1 THEN a[i] ELSE b[i - (k - 1)]
    BY <2>1
  <2> SUFFICES ASSUME NEW i \in 1..(Len(q) - 1)
               PROVE  r[i] = IF i < k THEN q[i] ELSE q[i + 1]
    OBVIOUS
  <2>3. CASE i < k
    <3>1. i \in 1..(k - 1) /\ i =< k - 1
      BY <2>3
    <3> QED BY <2>1, <2>2, <2>3, <3>1
  <2>4. CASE ~(i < k)
    <3>1. i - (k - 1) \in 1..(Len(q) - k) /\ ~(i =< k - 1) /\ i - (k - 1) + k = i + 1
      BY <2>4
    <3> QED BY <2>1, <2>2, <2>4, <3>1
  <2> QED BY <2>3, <2>4
<1>9. IsInjective(r) /\ ToSet(r) = ToSet(q) \ {t}
  BY <1>1, <1>7, <1>8, LosesOne
<1> QED BY <1>7, <1>9 DEF r

-----------------------------------------------------------------------------
(* The invariant.                                                            *)

At(d, m) == [disk |-> d, mem |-> m, log |-> <<d>>]

(* The memory m of a runner agrees with the directory d.                     *)
Aware(d, m) ==
  /\ AgreesBesides(At(d, m), {}) /\ Owed(At(d, m), ToSet(m.active)) /\ Waits(At(d, m))
  /\ Defined(At(d, m)) /\ m.workStop = d.workStop

(* A directory that can be read, and a memory that agrees with it if any.    *)
Right(d, m) ==
  /\ d \in Directories /\ m \in Memories /\ Readable(d)
  /\ Queues(m) /\ Len(m.active) =< Workers
  /\ m.phase = "off" => m = Off
  /\ m.phase # "off" => Aware(d, m)
  /\ m.phase = "collect" => IsInjective(m.polling) /\ ToSet(m.polling) \subseteq ToSet(m.active)
  /\ m.phase = "done" => m.active = <<>>

(* The children are those of the active tasks, and ask only for what can be  *)
(* defined; the attempts of the active ones are their own.                   *)
Children ==
  /\ worker \in [Tasks -> [kind : Kinds \cup {"idle", "running", "late"}, asks : SUBSET Tasks]]
  /\ \A t \in Tasks : Grounded(disk, worker[t].asks)
  /\ \A t \in Tasks : IF t \in ToSet(mem.active) THEN worker[t].kind # "idle"
                      ELSE worker[t] = Idle
  /\ \A o \in orphans : o \in Tasks \X Nat /\ o[2] =< disk.dispatches[o[1]]
  /\ RunsOwnAttempt

World ==
  /\ resting \subseteq Tasks /\ healthy \subseteq Tasks
  /\ clock \in {"working", "reserve", "over"}

IInv == campaign \in Campaigns /\ Right(disk, mem) /\ Children /\ World

\* The campaign is the same before and after a step.
LEMMA SameCampaign ==
  ASSUME campaign' = campaign, Right(disk', mem')
  PROVE  Right(disk, mem)'
<1>1. Readable(disk') => Readable(disk)'
  <2>1. Known(disk)' = Known(disk')
    BY DEF Known, Plan
  <2>2. Edges(disk)' = Edges(disk')
    BY DEF Edges, Known, Plan
  <2>3. Shape(disk') => Shape(disk)'
    BY <2>1, <2>2 DEF Shape, WellFounded
  <2>4. (\A t \in Tasks : TaskRight(disk', t)) => (\A t \in Tasks : TaskRight(disk, t)')
    BY <2>1, <2>2 DEF TaskRight, Stands, Failed, TerminalMode, MaxAttempts
  <2>5. CASE Readable(disk')
    BY <2>3, <2>4, <2>5 DEF Readable
  <2> QED BY <2>5
<1>2. Defined(At(disk', mem')) => Defined(At(disk, mem))'
  BY DEF Defined, At, Known, Edges, Plan
<1>3. Off' = Off
  BY DEF Off, Loaded, EmptyDirectory, Known, Edges, Stands, Plan
<1>4. Aware(disk', mem') => Aware(disk, mem)'
  BY <1>2 DEF Aware, At, AgreesBesides, Owed, Waits, Stands, Failed
<1> QED BY <1>1, <1>3, <1>4 DEF Right, Queues, Workers

(* What every step leaves behind.                                            *)
Steps ==
  /\ Right(disk', mem') /\ Follows(disk')
  /\ mem'.phase # "off" => GivenUp(At(disk', mem'))

(* A handler's state that can become the runner's.                           *)
Settled(s) ==
  /\ Good(s, ToSet(s.mem.active)) /\ Defined(s) /\ s.disk.workStop = s.mem.workStop
  /\ Queues(s.mem) /\ Len(s.mem.active) =< Workers /\ s.mem.phase # "off"
  /\ s.mem.phase = "collect" =>
       IsInjective(s.mem.polling) /\ ToSet(s.mem.polling) \subseteq ToSet(s.mem.active)
  /\ s.mem.phase = "done" => s.mem.active = <<>>

\* A settled state can be the next.
LEMMA SettledRight ==
  ASSUME NEW s, Settled(s)
  PROVE  /\ Right(s.disk, s.mem) /\ Follows(s.disk) /\ GivenUp(At(s.disk, s.mem))
         /\ s \in States /\ Logs(s)
<1>1. /\ s \in States /\ Logs(s) /\ s.disk \in Directories /\ s.mem \in Memories
      /\ Readable(s.disk) /\ Follows(s.disk)
  BY DEF Settled, Good, States, Logs
<1> DEFINE h == At(s.disk, s.mem)
<1>2. h.disk = s.disk /\ h.mem = s.mem
  BY DEF At
<1> HIDE DEF h
<1>3. AgreesBesides(h, {}) /\ Owed(h, ToSet(s.mem.active)) /\ Waits(h) /\ GivenUp(h)
  BY <1>2 DEF Settled, Good, AgreesBesides, Owed, Waits, GivenUp
<1>4. Defined(h)
  BY <1>2 DEF Settled, Defined
<1>5. Aware(s.disk, s.mem)
  BY <1>3, <1>4 DEF Settled, Aware, h
<1> QED BY <1>1, <1>3, <1>5 DEF Settled, Right, h

\* Nothing holds off the runner's memory.
LEMMA OffSays ==
  ASSUME campaign \in Campaigns
  PROVE  /\ Off \in Memories /\ Off.phase = "off" /\ Off.active = <<>> /\ Queues(Off)
         /\ EmptyDirectory \in Directories
         /\ \A d \in Directories : Readable(d) => Right(d, Off)
<1>1. NoRow \in Row
  BY DEF NoRow, Row
<1>2. EmptyDirectory \in Directories
  BY <1>1 DEF EmptyDirectory, Directories, Each, Generations
<1>3. \A d \in Directories : Loaded(d) \in Memories /\ Loaded(d).active = <<>>
        /\ Loaded(d).pending = <<>> /\ Loaded(d).inflight = {}
  <2> SUFFICES ASSUME NEW d \in Directories
               PROVE Loaded(d) \in Memories /\ Loaded(d).active = <<>>
                     /\ Loaded(d).pending = <<>> /\ Loaded(d).inflight = {}
    OBVIOUS
  <2> DEFINE completed == [t \in Tasks |-> IF Stands(d, t) THEN d.completion[t] ELSE NoRow]
  <2>1. completed \in [Tasks -> Row]
    BY <1>1 DEF Directories
  <2>2. Known(d) \in SUBSET Tasks /\ Edges(d) \in [Tasks -> SUBSET Tasks]
    BY KnownEdges
  <2> HIDE DEF completed
  <2>3. Loaded(d) =
          [phase |-> "survey", known |-> Known(d), edges |-> Edges(d), replays |-> d.replays,
           attempts |-> d.dispatches, failures |-> d.failures, refreshes |-> d.requeued,
           completed |-> completed, stop |-> FALSE, workStop |-> d.workStop,
           inflight |-> {}, pending |-> <<>>, active |-> <<>>, polling |-> <<>>]
    BY DEF Loaded, completed
  <2> QED BY <2>1, <2>2, <2>3 DEF Memories, Directories
<1>4. /\ Off \in Memories /\ Off.phase = "off" /\ Off.active = <<>> /\ Off.pending = <<>>
      /\ Off.inflight = {}
  <2> DEFINE m == Loaded(EmptyDirectory)
  <2>1. m \in Memories /\ m.active = <<>> /\ m.pending = <<>> /\ m.inflight = {}
    BY <1>2, <1>3
  <2> HIDE DEF m
  <2> QED BY <2>1 DEF Off, m, Memories
<1>5. Queues(Off)
  BY <1>4 DEF Queues, IsInjective, ToSet
<1>6. Len(Off.active) =< Workers
  BY <1>4, TaskPlanAssumption DEF Workers
<1> QED BY <1>2, <1>4, <1>5, <1>6 DEF Right

\* The runner dies after one of its writes.
LEMMA HaltSays ==
  ASSUME IInv, NEW s \in States, Logs(s), Halt(s)
  PROVE  Steps /\ Children' /\ World'
<1>1. /\ disk' \in Directories /\ Readable(disk') /\ Follows(disk') /\ mem' = Off
      /\ worker' = Each(Idle)
      /\ orphans' = orphans
         \/ orphans' = orphans \cup {<<t, mem.attempts[t]>> : t \in ToSet(mem.active)}
      /\ healthy' = healthy /\ resting' = resting /\ clock' = clock
  BY DEF Halt, Logs, States, ToSet
<1>2. Right(disk', mem') /\ mem'.phase = "off" /\ mem'.active = <<>>
  BY <1>1, OffSays DEF IInv
<1>3. ASSUME NEW o \in orphans' PROVE o \in Tasks \X Nat /\ o[2] =< disk'.dispatches[o[1]]
  <2>1. disk.dispatches \in [Tasks -> Nat] /\ disk'.dispatches \in [Tasks -> Nat]
    BY <1>1 DEF IInv, Right, Directories
  <2>2. o \in Tasks \X Nat /\ o[2] =< disk.dispatches[o[1]]
    <3>1. CASE o \in orphans
      BY <3>1 DEF IInv, Children
    <3>2. CASE o \notin orphans
      <4>1. PICK t \in ToSet(mem.active) : o = <<t, mem.attempts[t]>>
        BY <1>1, <3>2
      <4>2. mem.phase # "off"
        BY <4>1, OffSays DEF IInv, Right, ToSet
      <4>3. mem.attempts = disk.dispatches /\ t \in Tasks
        BY <4>1, <4>2 DEF IInv, Right, Aware, AgreesBesides, At, Memories, ToSet
      <4> QED BY <2>1, <4>1, <4>3
    <3> QED BY <3>1, <3>2
  <2>3. disk.dispatches[o[1]] =< disk'.dispatches[o[1]]
    BY <1>1, <2>2 DEF Follows
  <2> QED BY <2>1, <2>2, <2>3
<1>4. Children'
  <2>1. worker' \in [Tasks -> [kind : Kinds \cup {"idle", "running", "late"}, asks : SUBSET Tasks]]
    BY <1>1 DEF Each, Idle
  <2>2. \A t \in Tasks : worker'[t] = Idle /\ worker'[t].asks = {}
    BY <1>1 DEF Each, Idle
  <2>3. ToSet(mem'.active) = {}
    BY <1>2 DEF ToSet
  <2> QED BY <1>3, <2>1, <2>2, <2>3 DEF Children, RunsOwnAttempt, Grounded
<1>5. World'
  BY <1>1 DEF IInv, World
<1> QED BY <1>1, <1>2, <1>4, <1>5 DEF Steps

\* What was grounded stays grounded.
LEMMA GroundedOn ==
  ASSUME NEW d, Follows(d), NEW asks \in SUBSET Tasks, Grounded(disk, asks)
  PROVE  Grounded(d, asks)
<1>1. \A x \in asks : Needs[x] \subseteq Tasks
  BY TaskPlanAssumption
<1> QED BY <1>1 DEF Grounded, Follows

\* What the children ask for stays definable, and orphans stay outdone.
LEMMA ChildrenKept ==
  ASSUME IInv, Steps, mem'.active = mem.active, worker' = worker, orphans' = orphans,
         \A t \in ToSet(mem.active) : mem'.attempts[t] = mem.attempts[t]
  PROVE  Children'
<1>1. /\ disk.dispatches \in [Tasks -> Nat] /\ disk'.dispatches \in [Tasks -> Nat]
      /\ Follows(disk') /\ Children
  BY DEF IInv, Right, Directories, Steps
<1>2. \A o \in orphans' : o \in Tasks \X Nat /\ o[2] =< disk'.dispatches[o[1]]
  BY <1>1 DEF Children, Follows
<1>3. ASSUME NEW t \in Tasks PROVE Grounded(disk', worker'[t].asks)
  <2>1. Grounded(disk, worker[t].asks) /\ worker[t].asks \subseteq Tasks
    BY <1>1 DEF Children
  <2> QED BY <1>1, <2>1, GroundedOn
<1>4. RunsOwnAttempt'
  BY <1>1 DEF Children, RunsOwnAttempt
<1> QED BY <1>1, <1>2, <1>3, <1>4 DEF Children

\* A handler of the runner ends, or the runner dies in it.
LEMMA DoSays ==
  ASSUME IInv, NEW s, Settled(s), s.mem.active = mem.active,
         \A t \in ToSet(mem.active) : s.mem.attempts[t] = mem.attempts[t],
         Do(s)
  PROVE  Steps /\ Children' /\ World'
<1>1. /\ Right(s.disk, s.mem) /\ Follows(s.disk) /\ GivenUp(At(s.disk, s.mem))
      /\ s \in States /\ Logs(s)
  BY SettledRight
<1>2. CASE Commit(s, worker, resting)
  <2>1. /\ disk' = s.disk /\ mem' = s.mem /\ worker' = worker /\ resting' = resting
        /\ orphans' = orphans /\ healthy' = healthy /\ clock' = clock
    BY <1>2 DEF Commit
  <2>2. Steps
    BY <1>1, <2>1 DEF Steps
  <2>3. Children'
    BY <2>1, <2>2, ChildrenKept
  <2>4. World'
    BY <2>1 DEF IInv, World
  <2> QED BY <2>2, <2>3, <2>4
<1>3. CASE Halt(s)
  BY <1>1, <1>3, HaltSays
<1> QED BY <1>2, <1>3 DEF Do

-----------------------------------------------------------------------------
(* The runner's handlers.                                                    *)

(* n differs from m at most in its phase and its queues.                     *)
Alike(m, n) ==
  /\ n.known = m.known /\ n.edges = m.edges /\ n.replays = m.replays
  /\ n.attempts = m.attempts /\ n.failures = m.failures /\ n.refreshes = m.refreshes
  /\ n.completed = m.completed /\ n.stop = m.stop /\ n.workStop = m.workStop
  /\ n.inflight = m.inflight

(* r is s with the memory m.                                                 *)
Same(s, r, m, running) ==
  /\ Good(r, running) /\ r.mem = m /\ r.disk = s.disk
  /\ (Fresh(s) => Fresh(r)) /\ (Defined(s) => Defined(r))

\* Phases and queues decide nothing.
LEMMA AlikeSays ==
  ASSUME NEW R, NEW s, Good(s, R), NEW m \in Memories, Alike(s.mem, m)
  PROVE  Same(s, [s EXCEPT !.mem = m], m, R)
<1> DEFINE r == [s EXCEPT !.mem = m]
<1>1. s \in States /\ Logs(s)
  BY DEF Good
<1>2. r \in States /\ Logs(r) /\ r.mem = m /\ r.disk = s.disk
  BY <1>1, MemoryChange
<1> HIDE DEF r
<1>3. AgreesBesides(r, {}) /\ Owed(r, R) /\ Waits(r) /\ GivenUp(r)
  BY <1>2 DEF Good, Alike, AgreesBesides, Owed, Waits, GivenUp
<1>4. (Fresh(s) => Fresh(r)) /\ (Defined(s) => Defined(r))
  BY <1>2 DEF Alike, Fresh, Defined
<1> QED BY <1>2, <1>3, <1>4 DEF Same, Good, r

(* The state s in which a handler of the runner begins.                      *)
Begun(s, m) ==
  /\ Good(s, ToSet(mem.active)) /\ Fresh(s) /\ Defined(s)
  /\ s.disk = disk /\ s.mem = m /\ s.disk.workStop = s.mem.workStop

\* A handler begins with what the runner knows.
LEMMA HandlingSays ==
  ASSUME IInv, mem.phase # "off", NEW m \in Memories, Alike(mem, m)
  PROVE  Begun(Handling(m), m)
<1> DEFINE s == Handling(m)
<1>1. /\ disk \in Directories /\ Readable(disk) /\ Aware(disk, mem)
  BY DEF IInv, Right
<1>2. Follows(disk)
  <2>1. disk.dispatches \in [Tasks -> Nat]
    BY <1>1 DEF Directories
  <2> QED BY <2>1 DEF Follows
<1>3. s.disk = disk /\ s.mem = m /\ s.log = <<disk>>
  BY DEF Handling
<1>4. s \in States /\ Logs(s)
  <2>1. s \in States
    BY <1>1 DEF Handling, States
  <2>2. ToSet(<<disk>>) = {disk}
    BY DEF ToSet
  <2> QED BY <1>1, <1>2, <1>3, <2>1, <2>2 DEF Logs
<1> HIDE DEF s
<1> DEFINE a == At(disk, mem)
<1>5. a.disk = disk /\ a.mem = mem
  BY DEF At
<1>6. AgreesBesides(a, {}) /\ Owed(a, ToSet(mem.active)) /\ Waits(a) /\ Defined(a)
      /\ mem.workStop = disk.workStop
  BY <1>1 DEF Aware
<1> HIDE DEF a
<1>7. AgreesBesides(s, {}) /\ Owed(s, ToSet(mem.active)) /\ Waits(s) /\ Defined(s)
  BY <1>3, <1>5, <1>6 DEF Alike, AgreesBesides, Owed, Waits, Defined
<1>8. GivenUp(s) /\ Fresh(s)
  BY <1>3 DEF GivenUp, Fresh, NoRow
<1> QED BY <1>3, <1>4, <1>6, <1>7, <1>8 DEF Begun, Good, Alike, s

\* Queues are in order if they are as they were.
LEMMA QueuesAsWere ==
  ASSUME NEW m, NEW n, Queues(m), n.pending = m.pending, n.active = m.active,
         n.inflight = m.inflight, n.known = m.known
  PROVE  Queues(n)
BY DEF Queues

\* What changes neither definitions nor the memory's idea of them keeps them.
LEMMA DefinedKept ==
  ASSUME NEW s, NEW r, Defined(s), Kept(s, r) \/ Carried(s, r)
  PROVE  Defined(r) /\ Known(r.disk) = Known(s.disk)
<1>1. /\ r.disk.registry = s.disk.registry /\ r.disk.edges = s.disk.edges
      /\ r.disk.replays = s.disk.replays
      /\ r.mem.known = s.mem.known /\ r.mem.edges = s.mem.edges
      /\ r.mem.replays = s.mem.replays
  BY DEF Kept, Carried
<1>2. Known(r.disk) = Known(s.disk) /\ Edges(r.disk) = Edges(s.disk)
  BY <1>1, ShapeElsewhere
<1> QED BY <1>1, <1>2 DEF Defined

Phases == {"off", "survey", "dispatch", "collect", "done"}

(* r is s but for its phase.                                                 *)
Gone(s, r, phase, running) ==
  /\ Same(s, r, r.mem, running) /\ Alike(s.mem, r.mem) /\ r.mem.phase = phase
  /\ r.mem.pending = s.mem.pending /\ r.mem.active = s.mem.active
  /\ r.mem.polling = s.mem.polling

\* The loop goes to its next part.
LEMMA GotoSays ==
  ASSUME NEW R, NEW s, Good(s, R), NEW phase \in Phases
  PROVE  Gone(s, Goto(s, phase), phase, R)
<1> DEFINE m == [s.mem EXCEPT !.phase = phase]
           r == [s EXCEPT !.mem = m]
<1>1. s \in States /\ s.mem \in Memories
  BY DEF Good, States
<1>2. /\ m \in Memories /\ m.phase = phase /\ Alike(s.mem, m)
      /\ m.pending = s.mem.pending /\ m.active = s.mem.active /\ m.polling = s.mem.polling
  BY <1>1 DEF Memories, Alike, Phases
<1>3. Goto(s, phase) = r
  BY <1>1 DEF Goto, States, Memories
<1> HIDE DEF m
<1>4. Same(s, r, m, R)
  BY <1>2, AlikeSays
<1> HIDE DEF r
<1> QED BY <1>2, <1>3, <1>4 DEF Gone, Same

(* r is s with nothing queued.                                               *)
Emptied(s, r, running) ==
  /\ Same(s, r, r.mem, running) /\ Alike(s.mem, r.mem) /\ r.mem.phase = s.mem.phase
  /\ r.mem.pending = <<>> /\ r.mem.active = s.mem.active /\ r.mem.polling = s.mem.polling

\* The queue of a campaign that has to stop is dropped.
LEMMA EmptiedSays ==
  ASSUME NEW R, NEW s, Good(s, R)
  PROVE  Emptied(s, [s EXCEPT !.mem.pending = <<>>], R)
<1> DEFINE none == <<>>
           m == [s.mem EXCEPT !.pending = none]
           r == [s EXCEPT !.mem = m]
<1>1. s \in States /\ s.mem \in Memories /\ none \in Seq(Tasks)
  BY DEF Good, States
<1> HIDE DEF none
<1>2. /\ m \in Memories /\ m.pending = none /\ Alike(s.mem, m)
      /\ m.phase = s.mem.phase /\ m.active = s.mem.active /\ m.polling = s.mem.polling
  BY <1>1 DEF Memories, Alike
<1>3. [s EXCEPT !.mem.pending = none] = r
  BY <1>1 DEF States, Memories
<1> HIDE DEF m
<1>4. Same(s, r, m, R)
  BY <1>2, AlikeSays
<1> HIDE DEF r
<1> QED BY <1>2, <1>3, <1>4 DEF Emptied, Same, none

\* The queues of a memory whose queue was dropped.
LEMMA QueuesEmptied ==
  ASSUME NEW m, NEW n, Queues(m), n.pending = <<>>, n.active = m.active,
         n.inflight = m.inflight, n.known = m.known
  PROVE  Queues(n)
BY DEF Queues, IsInjective, ToSet

(* The state r of a handler that has not touched what runs.                  *)
Carrying(s, r, running) ==
  /\ Good(r, running) /\ Defined(r) /\ r.disk.workStop = r.mem.workStop
  /\ Queues(r.mem) /\ r.mem.phase = s.mem.phase /\ r.mem.active = s.mem.active
  /\ r.mem.polling = s.mem.polling /\ r.mem.attempts = s.mem.attempts

\* What checking the budgets leaves is in order.
LEMMA BudgetsCarry ==
  ASSUME campaign \in Campaigns, NEW s, Good(s, ToSet(s.mem.active)), Defined(s),
         s.disk.workStop = s.mem.workStop, Queues(s.mem), NEW sample
  PROVE  Carrying(s, CheckBudgets(s, sample), ToSet(s.mem.active))
         /\ QueueKept(s, CheckBudgets(s, sample))
<1> DEFINE b == CheckBudgets(s, sample)
<1>1. s.mem.known \subseteq Known(s.disk)
  BY DEF Defined
<1>2. /\ Good(b, ToSet(s.mem.active)) /\ Carried(s, b) /\ QueueKept(s, b)
      /\ b.disk.workStop = b.mem.workStop
  BY <1>1, BudgetsSay
<1> HIDE DEF b
<1>3. Defined(b)
  BY <1>2, DefinedKept
<1>4. Queues(b.mem)
  BY <1>2, QueuesAsWere DEF Carried, QueueKept
<1> QED BY <1>2, <1>3, <1>4 DEF Carrying, Carried, b

\* The head of the loop: budgets, then what has become ready.
LEMMA SurveySays ==
  ASSUME IInv, NEW sample, Survey(sample)
  PROVE  Steps /\ Children' /\ World'
<1> DEFINE s == Handling(mem)
           b == CheckBudgets(s, sample)
           R == ToSet(mem.active)
           e == [b EXCEPT !.mem.pending = <<>>]
           q == IF HardStop(s, sample) THEN e ELSE ReadyRuns(b)
           g == Goto(q, "dispatch")
<1>1. mem.phase = "survey" /\ Do(g)
  BY DEF Survey
<1>2. Begun(s, mem)
  BY <1>1, HandlingSays DEF IInv, Right, Alike
<1> HIDE DEF s
<1>3. /\ Good(s, R) /\ Defined(s) /\ s.disk.workStop = s.mem.workStop /\ s.mem = mem
      /\ campaign \in Campaigns /\ Queues(mem) /\ Len(mem.active) =< Workers
  BY <1>2 DEF Begun, IInv, Right
<1>4. Carrying(s, b, R) /\ QueueKept(s, b)
  BY <1>3, BudgetsCarry
<1> HIDE DEF b
<1>5. Carrying(s, q, R)
  <2>1. CASE HardStop(s, sample)
    <3>1. Emptied(b, e, R)
      BY <1>4, EmptiedSays DEF Carrying
    <3> HIDE DEF e
    <3>2. Queues(e.mem)
      BY <1>4, <3>1, QueuesEmptied DEF Carrying, Emptied, Alike
    <3> QED BY <1>4, <2>1, <3>1, <3>2 DEF Carrying, Emptied, Same, Alike
  <2>2. CASE ~HardStop(s, sample)
    <3> DEFINE r == Over(Tasks, "ready", b)
    <3>1. /\ Good(b, ToSet(b.mem.active)) /\ Queues(b.mem) /\ ToSet(b.mem.active) = R
          /\ b.mem.known \subseteq Known(b.disk) /\ b.mem.edges = Edges(b.disk)
      BY <1>3, <1>4 DEF Carrying, Defined
    <3>2. Good(r, R) /\ Kept(b, r) /\ Queues(r.mem)
      BY <1>3, <3>1, ReadyLoop
    <3>3. q = r
      BY <2>2 DEF ReadyRuns
    <3> HIDE DEF r, q
    <3>4. Defined(r)
      BY <1>4, <3>2, DefinedKept DEF Carrying
    <3> QED BY <1>4, <3>2, <3>3, <3>4 DEF Carrying, Kept
  <2> QED BY <2>1, <2>2
<1> HIDE DEF q
<1>6. Gone(q, g, "dispatch", R)
  BY <1>5, GotoSays DEF Carrying, Phases
<1> HIDE DEF g
<1>7. Queues(g.mem)
  BY <1>5, <1>6, QueuesAsWere DEF Carrying, Gone, Alike
<1>8. Settled(g) /\ g.mem.active = mem.active /\ g.mem.attempts = mem.attempts
  BY <1>3, <1>5, <1>6, <1>7 DEF Settled, Carrying, Gone, Same, Alike
<1> QED BY <1>1, <1>8, DoSays

\* The campaign returns.
LEMMA ReturnSays ==
  ASSUME IInv, Return
  PROVE  Steps /\ Children' /\ World'
<1> DEFINE s == Handling(mem)
           R == ToSet(mem.active)
           q == Campaign(s)
           g == Goto(q, "done")
<1>1. mem.phase = "survey" /\ mem.active = <<>> /\ Do(g)
  BY DEF Return
<1>2. Begun(s, mem)
  BY <1>1, HandlingSays DEF IInv, Right, Alike
<1> HIDE DEF s
<1>3. /\ Good(s, R) /\ Defined(s) /\ s.mem = mem /\ R \in SUBSET Tasks
      /\ campaign \in Campaigns /\ Queues(mem) /\ Len(mem.active) =< Workers
  BY <1>2 DEF Begun, IInv, Right, Memories, ToSet
<1>4. Good(q, R) /\ Kept(s, q) /\ q.mem = mem /\ q.disk.workStop = mem.workStop
  <2> HIDE DEF R
  <2> QED BY <1>3, CampaignSays
<1> HIDE DEF q
<1>5. Defined(q)
  BY <1>3, <1>4, DefinedKept
<1>6. Gone(q, g, "done", R)
  BY <1>4, GotoSays DEF Phases
<1> HIDE DEF g
<1>7. Queues(g.mem)
  BY <1>3, <1>4, <1>6, QueuesAsWere DEF Gone, Alike
<1>8. Settled(g) /\ g.mem.active = mem.active /\ g.mem.attempts = mem.attempts
  BY <1>1, <1>3, <1>4, <1>5, <1>6, <1>7 DEF Settled, Gone, Same, Alike
<1> QED BY <1>1, <1>8, DoSays

(* r is s with the active tasks q.                                           *)
Reseated(s, r, q, running) ==
  /\ Same(s, r, r.mem, running) /\ Alike(s.mem, r.mem) /\ r.mem.phase = s.mem.phase
  /\ r.mem.pending = s.mem.pending /\ r.mem.active = q /\ r.mem.polling = s.mem.polling

\* Other tasks are active.
LEMMA ReseatedSays ==
  ASSUME NEW R, NEW s, Good(s, R), NEW q \in Seq(Tasks)
  PROVE  Reseated(s, [s EXCEPT !.mem.active = q], q, R)
<1> DEFINE m == [s.mem EXCEPT !.active = q]
           r == [s EXCEPT !.mem = m]
<1>1. s \in States /\ s.mem \in Memories
  BY DEF Good, States
<1>2. /\ m \in Memories /\ m.active = q /\ Alike(s.mem, m)
      /\ m.phase = s.mem.phase /\ m.pending = s.mem.pending /\ m.polling = s.mem.polling
  BY <1>1 DEF Memories, Alike
<1>3. [s EXCEPT !.mem.active = q] = r
  BY <1>1 DEF States, Memories
<1> HIDE DEF m
<1>4. Same(s, r, m, R)
  BY <1>2, AlikeSays
<1> HIDE DEF r
<1> QED BY <1>2, <1>3, <1>4 DEF Reseated, Same

(* An attempt that may begin.                                                *)
MayBegin(s, running, t) ==
  /\ Good(s, running) /\ Defined(s) /\ t \notin running /\ ~Ended(s, t)
  /\ disk \in Directories /\ (disk.workStop => t \in Finalizers)

(* q is s with a new attempt of t, which has no row yet.                     *)
Attempted(s, q, running, t) ==
  /\ Good(q, running \cup {t}) /\ Defined(q) /\ q.disk.workStop = s.disk.workStop
  /\ q.mem.workStop = s.mem.workStop /\ q.mem.phase = s.mem.phase
  /\ q.mem.pending = s.mem.pending /\ q.mem.active = s.mem.active
  /\ q.mem.polling = s.mem.polling /\ q.mem.inflight = s.mem.inflight
  /\ q.mem.known = s.mem.known /\ q.mem.attempts[t] = s.mem.attempts[t] + 1
  /\ \A u \in Tasks \ {t} : q.mem.attempts[u] = s.mem.attempts[u]

\* An attempt is on disk before it begins.
LEMMA DispatchedSays ==
  ASSUME NEW R \in SUBSET Tasks, NEW s, NEW t \in Tasks, MayBegin(s, R, t)
  PROVE  Attempted(s, Dispatched(s, t), R, t)
<1> USE DEF MayBegin
<1> DEFINE n == s.mem.attempts[t] + 1
           attempts == [s.mem.attempts EXCEPT ![t] = n]
           m == [s.mem EXCEPT !.attempts = attempts]
           c == [s EXCEPT !.mem = m]
           e == [s.disk EXCEPT !.dispatches[t] = s.disk.dispatches[t] + 1]
           q == Write(c, e)
<1>1. /\ s \in States /\ Logs(s) /\ s.mem \in Memories /\ s.disk \in Directories
      /\ Readable(s.disk) /\ Follows(s.disk) /\ AgreesBesides(s, {}) /\ Owed(s, R)
      /\ Waits(s) /\ GivenUp(s) /\ s.mem.attempts \in [Tasks -> Nat]
      /\ s.mem.attempts = s.disk.dispatches /\ s.mem.attempts[t] \in Nat
  BY DEF Good, States, Logs, AgreesBesides, Memories
<1>2. attempts \in [Tasks -> Nat] /\ attempts[t] = n /\ n \in Nat
      /\ \A u \in Tasks \ {t} : attempts[u] = s.mem.attempts[u]
  BY <1>1
<1>3. c = [s EXCEPT !.mem.attempts[t] = @ + 1]
  BY <1>1 DEF States, Memories
<1> HIDE DEF attempts
<1>4. /\ m \in Memories /\ m.attempts = attempts
      /\ m.phase = s.mem.phase /\ m.known = s.mem.known /\ m.edges = s.mem.edges
      /\ m.replays = s.mem.replays /\ m.failures = s.mem.failures
      /\ m.refreshes = s.mem.refreshes /\ m.completed = s.mem.completed
      /\ m.stop = s.mem.stop /\ m.workStop = s.mem.workStop /\ m.inflight = s.mem.inflight
      /\ m.pending = s.mem.pending /\ m.active = s.mem.active /\ m.polling = s.mem.polling
  BY <1>1, <1>2 DEF Memories
<1> HIDE DEF m
<1>5. c \in States /\ Logs(c) /\ c.mem = m /\ c.disk = s.disk
  BY <1>1, <1>4, MemoryChange
<1> HIDE DEF c
<1>6. e \in Directories /\ Readable(e) /\ Follows(e)
  BY <1>1, DispatchWrite
<1>7. /\ e.registry = s.disk.registry /\ e.edges = s.disk.edges /\ e.replays = s.disk.replays
      /\ e.rows = s.disk.rows /\ e.failures = s.disk.failures
      /\ e.completion = s.disk.completion /\ e.voided = s.disk.voided
      /\ e.requeued = s.disk.requeued /\ e.workStop = s.disk.workStop
      /\ e.dispatches = attempts
  <2> DEFINE k == s.disk.dispatches[t] + 1
  <2>1. e = [s.disk EXCEPT !.dispatches[t] = k] /\ attempts = [s.disk.dispatches EXCEPT ![t] = k]
    BY <1>1 DEF attempts
  <2> HIDE DEF k, e
  <2> QED BY <1>1, <2>1 DEF Directories
<1>8. Dispatched(s, t) = q
  <2>1. c.mem.attempts[t] = s.disk.dispatches[t] + 1
    BY <1>1, <1>2, <1>4, <1>5
  <2> DEFINE Saved(x) == Write(x, [s.disk EXCEPT !.dispatches[t] = x.mem.attempts[t]])
  <2>2. Dispatched(s, t) = Saved([s EXCEPT !.mem.attempts[t] = @ + 1])
    BY DEF Dispatched
  <2>3. Saved(c) = q
    BY <2>1
  <2> HIDE DEF Saved, q
  <2> QED BY <1>3, <2>2, <2>3
<1> HIDE DEF e
<1>9. q \in States /\ Logs(q) /\ q.disk = e /\ q.mem = m
  BY <1>5, <1>6, WriteLogs
<1> HIDE DEF q
<1>10. AgreesBesides(q, {})
  <2>1. \A u : (Stands(e, u) <=> Stands(s.disk, u)) /\ (Failed(e, u) <=> Failed(s.disk, u))
    BY <1>7 DEF Stands, Failed
  <2> QED BY <1>1, <1>4, <1>7, <1>9, <2>1 DEF AgreesBesides
<1>11. Owed(q, R \cup {t})
  <2>1. \A u \in R : u # t /\ u \in Tasks
    OBVIOUS
  <2>2. TaskRight(s.disk, t) /\ s.disk.voided[t] \in Int
        /\ s.disk.rows[t] \in SUBSET Int
    BY <1>1 DEF Readable, Directories
  <2>3. n \notin s.disk.rows[t] /\ 1 =< n /\ s.disk.voided[t] < n
    BY <1>1, <2>2 DEF TaskRight, TerminalRun, ExhaustedRun
  <2>4. s.mem.completed[t] = NoRow
    BY DEF Ended
  <2> HIDE DEF n
  <2> QED BY <1>1, <1>2, <1>4, <1>7, <1>9, <2>1, <2>3, <2>4 DEF Owed
<1>12. Waits(q) /\ GivenUp(q)
  BY <1>1, <1>4, <1>7, <1>9 DEF Waits, GivenUp
<1>13. Defined(q)
  <2>1. Known(e) = Known(s.disk) /\ Edges(e) = Edges(s.disk)
    BY <1>7, ShapeElsewhere
  <2> QED BY <1>4, <1>7, <1>9, <2>1 DEF Defined
<1> QED BY <1>2, <1>4, <1>7, <1>8, <1>9, <1>10, <1>11, <1>12, <1>13 DEF Attempted, Good, n

\* An attempt whose child cannot be started ends as a failure.
LEMMA UnstartedSays ==
  ASSUME IInv, NEW s, Carrying(s, s, ToSet(mem.active)), s.mem.active = mem.active,
         s.mem.attempts = mem.attempts, s.mem.phase = "dispatch",
         NEW t \in Tasks, t \in s.mem.inflight, t \notin ToSet(s.mem.pending),
         t \notin ToSet(mem.active), NEW q, Attempted(s, q, ToSet(mem.active), t),
         Do(Finish(q, t, Said("software_error"), "fits"))
  PROVE  Steps /\ Children' /\ World'
<1> DEFINE R == ToSet(mem.active)
           answer == Said("software_error")
           f == Finish(q, t, answer, "fits")
<1>1. campaign \in Campaigns /\ R \in SUBSET Tasks /\ Len(mem.active) =< Workers
  BY DEF IInv, Right, Memories, ToSet
<1> HIDE DEF R
<1>2. answer.kind = "software_error" /\ answer.asks = {}
  BY DEF Said
<1> HIDE DEF answer
<1>3. MayFinish(q, R \cup {t}, t, answer)
  BY <1>2 DEF MayFinish, Attempted, Carrying, Queues, Kinds, Definable, R
<1>4. RunEnded(q, f, R \cup {t}, t)
  <2>1. R \cup {t} \in SUBSET Tasks
    BY <1>1
  <2> QED BY <1>1, <1>3, <2>1, FinishSays
<1> HIDE DEF f
<1>5. (R \cup {t}) \ {t} = R
  BY DEF R
<1>6. Queues(f.mem)
  <2>1. f.mem.inflight = s.mem.inflight \ {t} /\ f.mem.pending = s.mem.pending
        /\ f.mem.active = s.mem.active
    BY <1>4 DEF RunEnded, Attempted
  <2>2. s.mem.inflight \subseteq f.mem.known
    BY <1>4 DEF RunEnded, Attempted, Carrying, Queues, Defined
  <2> QED BY <2>1, <2>2 DEF Carrying, Queues
<1>7. Settled(f) /\ f.mem.active = mem.active
  BY <1>1, <1>4, <1>5, <1>6 DEF Settled, RunEnded, Attempted, R
<1>8. \A u \in ToSet(mem.active) : f.mem.attempts[u] = mem.attempts[u]
  BY <1>1, <1>4 DEF RunEnded, Attempted, R
<1>9. Do(f)
  BY DEF f, answer
<1> QED BY <1>7, <1>8, <1>9, DoSays

\* A child starts under an attempt that no child had.
LEMMA StartedSays ==
  ASSUME IInv, mem.phase # "off",
         NEW s, Carrying(s, s, ToSet(mem.active)), s.mem.active = mem.active,
         s.mem.attempts = mem.attempts, s.mem.phase = "dispatch", Len(mem.active) < Workers,
         NEW t \in Tasks, t \in s.mem.inflight, t \notin ToSet(s.mem.pending),
         t \notin ToSet(mem.active), NEW q, Attempted(s, q, ToSet(mem.active), t),
         Commit([q EXCEPT !.mem.active = Append(@, t)],
                [worker EXCEPT ![t] = Said("running")], resting)
  PROVE  Steps /\ Children' /\ World'
<1> DEFINE R == ToSet(mem.active)
           more == Append(mem.active, t)
           g == [q EXCEPT !.mem.active = more]
<1>1. /\ campaign \in Campaigns /\ R \in SUBSET Tasks /\ mem.active \in Seq(Tasks)
      /\ disk \in Directories /\ mem.attempts = disk.dispatches /\ Workers \in Nat
      /\ disk.dispatches \in [Tasks -> Nat]
  <2>1. /\ campaign \in Campaigns /\ mem \in Memories /\ disk \in Directories
        /\ AgreesBesides(At(disk, mem), {})
    BY DEF IInv, Right, Aware
  <2>2. mem.attempts = disk.dispatches
    BY <2>1 DEF AgreesBesides, At
  <2>3. mem.active \in Seq(Tasks) /\ disk.dispatches \in [Tasks -> Nat]
    BY <2>1 DEF Memories, Directories
  <2>4. R \in SUBSET Tasks
    BY <2>3 DEF ToSet
  <2>5. Workers \in Nat
    BY <2>1, TaskPlanAssumption DEF Workers
  <2> QED BY <2>1, <2>2, <2>3, <2>4, <2>5
<1>2. /\ more \in Seq(Tasks) /\ ToSet(more) = R \cup {t} /\ Len(more) = Len(mem.active) + 1
      /\ IsInjective(more)
  BY <1>1, AppendSays DEF Carrying, Queues
<1>3. /\ Good(q, R \cup {t}) /\ q \in States /\ q.mem \in Memories
      /\ q.mem.active = mem.active
  BY DEF Attempted, Good, States
<1>4. [q EXCEPT !.mem.active = Append(@, t)] = g
  BY <1>3 DEF States, Memories
<1> HIDE DEF more
<1>5. Reseated(q, g, more, R \cup {t})
  BY <1>2, <1>3, ReseatedSays
<1>6. /\ disk' = g.disk /\ mem' = g.mem /\ worker' = [worker EXCEPT ![t] = Said("running")]
      /\ resting' = resting /\ orphans' = orphans /\ healthy' = healthy /\ clock' = clock
  <2> HIDE DEF g
  <2> QED BY <1>4 DEF Commit
<1> HIDE DEF g
<1>7. Queues(g.mem)
  BY <1>2, <1>5 DEF Reseated, Alike, Attempted, Carrying, Queues, R
<1>8. Settled(g)
  <2>1. Len(mem.active) \in Nat
    BY <1>1
  <2>2. Len(more) =< Workers
    BY <1>1, <1>2, <2>1
  <2> QED BY <1>2, <1>5, <1>7, <2>2 DEF Settled, Reseated, Same, Alike, Attempted, Carrying
<1>9. Steps
  BY <1>6, <1>8, SettledRight DEF Steps
<1>10. /\ mem'.active = more /\ mem'.attempts[t] = disk.dispatches[t] + 1
       /\ \A u \in Tasks \ {t} : mem'.attempts[u] = mem.attempts[u]
  BY <1>1, <1>5, <1>6 DEF Reseated, Alike, Attempted
<1>11. Children'
  <2>1. Children /\ worker' \in [Tasks -> [kind : Kinds \cup {"idle", "running", "late"},
                                           asks : SUBSET Tasks]]
    BY <1>6 DEF IInv, Children, Said
  <2>2. worker'[t].kind = "running" /\ worker'[t].asks = {}
        /\ \A u \in Tasks \ {t} : worker'[u] = worker[u]
    BY <1>6, <2>1 DEF Children, Said
  <2>3. disk' \in Directories /\ Follows(disk') /\ disk'.dispatches \in [Tasks -> Nat]
    BY <1>9 DEF Steps, Right, Directories
  <2>4. \A o \in orphans : o \in Tasks \X Nat /\ o[2] =< disk.dispatches[o[1]]
    BY <2>1 DEF Children
  <2>5. \A o \in orphans' : o \in Tasks \X Nat /\ o[2] =< disk'.dispatches[o[1]]
    BY <1>1, <1>6, <2>3, <2>4 DEF Follows
  <2>6. RunsOwnAttempt'
    <3>1. <<t, disk.dispatches[t] + 1>> \notin orphans
      BY <1>1, <2>4
    <3>2. \A u \in R : <<u, mem.attempts[u]>> \notin orphans
      BY <2>1 DEF Children, RunsOwnAttempt, R
    <3>3. \A u \in R \cup {t} : <<u, mem'.attempts[u]>> \notin orphans
      BY <1>1, <1>10, <3>1, <3>2
    <3> QED BY <1>2, <1>6, <1>10, <3>3 DEF RunsOwnAttempt
  <2>7. ASSUME NEW u \in Tasks PROVE Grounded(disk', worker'[u].asks)
    <3>1. CASE u = t
      BY <2>2, <3>1 DEF Grounded
    <3>2. CASE u # t
      <4>1. Grounded(disk, worker[u].asks) /\ worker[u].asks \subseteq Tasks
        BY <2>1 DEF Children
      <4> QED BY <2>2, <2>3, <3>2, <4>1, GroundedOn
    <3> QED BY <3>1, <3>2
  <2>8. \A u \in Tasks : IF u \in ToSet(mem'.active) THEN worker'[u].kind # "idle"
                         ELSE worker'[u] = Idle
    BY <1>2, <1>10, <2>1, <2>2 DEF Children, R
  <2> QED BY <2>1, <2>5, <2>6, <2>7, <2>8 DEF Children
<1>12. World'
  BY <1>6 DEF IInv, World
<1> QED BY <1>9, <1>11, <1>12

\* A carrying state with the active tasks of before can be the runner's.
LEMMA CarryingSays ==
  ASSUME IInv, NEW s, Carrying(s, s, ToSet(mem.active)), s.mem.active = mem.active,
         s.mem.attempts = mem.attempts, s.mem.phase = "dispatch", Do(s)
  PROVE  Steps /\ Children' /\ World'
<1>1. Len(mem.active) =< Workers
  BY DEF IInv, Right
<1>2. Settled(s)
  BY <1>1 DEF Settled, Carrying
<1> QED BY <1>2, DoSays

\* The next reserved task is dispatched, unless its time is over.
LEMMA DispatchSays ==
  ASSUME IInv, NEW sample, Dispatch(sample)
  PROVE  Steps /\ Children' /\ World'
<1> DEFINE t == Head(mem.pending)
           rest == Tail(mem.pending)
           m == [mem EXCEPT !.pending = rest]
           s == Handling(m)
           b == CheckBudgets(s, sample)
           R == ToSet(mem.active)
           e == [b EXCEPT !.mem.pending = <<>>]
           q == Dispatched(b, t)
<1>1. /\ mem.phase = "dispatch" /\ mem.pending # <<>> /\ Len(mem.active) < Workers
      /\ IF Ended(s, t) THEN Do(s)
         ELSE IF HardStop(s, sample) THEN Do(e)
         ELSE IF Ended(b, t) THEN Do(b)
         ELSE Launch(q, t)
  BY DEF Dispatch, Room
<1>2. /\ campaign \in Campaigns /\ mem \in Memories /\ Queues(mem) /\ disk \in Directories
      /\ mem.pending \in Seq(Tasks) /\ IsInjective(mem.pending) /\ R \in SUBSET Tasks
  BY DEF IInv, Right, Memories, Queues, ToSet
<1>3. /\ t \in ToSet(mem.pending) /\ t \in Tasks /\ rest \in Seq(Tasks)
      /\ IsInjective(rest) /\ ToSet(rest) = ToSet(mem.pending) \ {t}
  BY <1>1, <1>2, TailSays
<1> HIDE DEF rest, t
<1>4. /\ m \in Memories /\ Alike(mem, m) /\ m.pending = rest /\ m.active = mem.active
      /\ m.phase = mem.phase
  BY <1>2, <1>3 DEF Memories, Alike
<1> HIDE DEF m
<1>5. Begun(s, m)
  BY <1>1, <1>4, HandlingSays
<1> HIDE DEF s
<1>6. Queues(m) /\ t \in m.inflight /\ t \notin R /\ t \notin ToSet(m.pending) /\ t \in m.known
  BY <1>2, <1>3, <1>4 DEF Queues, Alike
<1>7. /\ Good(s, R) /\ Defined(s) /\ s.disk.workStop = s.mem.workStop /\ s.mem = m
      /\ s.mem.known \subseteq Known(s.disk) /\ s.disk = disk
      /\ R = ToSet(s.mem.active)
  BY <1>4, <1>5 DEF Begun, Defined
<1>8. Carrying(s, s, R)
  BY <1>6, <1>7 DEF Carrying
<1>9. Carrying(s, b, R) /\ QueueKept(s, b)
  BY <1>2, <1>6, <1>7, BudgetsCarry
<1>10. ~HardStop(s, sample) /\ b.mem.workStop =>
         \A x \in s.mem.known \ Finalizers : x \notin R => Ended(b, x)
  BY <1>2, <1>7, BudgetsSay
<1>11. s.mem.workStop => b.mem.workStop
  BY <1>2, <1>7, BudgetsSay DEF Carried
<1> HIDE DEF b
<1>12. CASE Ended(s, t)
  <2>1. Do(s)
    BY <1>1, <1>12
  <2> QED BY <1>1, <1>4, <1>7, <1>8, <2>1, CarryingSays DEF Alike
<1>13. Carrying(b, b, R) /\ b.mem.active = mem.active /\ b.mem.attempts = mem.attempts
       /\ b.mem.phase = "dispatch" /\ b.mem.pending = rest /\ b.mem.inflight = m.inflight
  BY <1>1, <1>4, <1>7, <1>9 DEF Carrying, QueueKept, Alike
<1>14. CASE ~Ended(s, t) /\ HardStop(s, sample)
  <2>1. Do(e)
    BY <1>1, <1>14
  <2>2. Emptied(b, e, R)
    BY <1>13, EmptiedSays DEF Carrying
  <2> HIDE DEF e
  <2>3. Queues(e.mem)
    BY <1>13, <2>2, QueuesEmptied DEF Carrying, Emptied, Alike
  <2>4. Carrying(e, e, R) /\ e.mem.active = mem.active /\ e.mem.attempts = mem.attempts
        /\ e.mem.phase = "dispatch"
    BY <1>13, <2>2, <2>3 DEF Carrying, Emptied, Same, Alike
  <2> QED BY <2>1, <2>4, CarryingSays
<1>15. CASE ~Ended(s, t) /\ ~HardStop(s, sample) /\ Ended(b, t)
  <2>1. Do(b)
    BY <1>1, <1>15
  <2> QED BY <1>13, <2>1, CarryingSays
<1>16. CASE ~Ended(s, t) /\ ~HardStop(s, sample) /\ ~Ended(b, t)
  <2>1. Launch(q, t)
    BY <1>1, <1>16
  <2>2. disk.workStop => t \in Finalizers
    BY <1>6, <1>7, <1>10, <1>11, <1>16
  <2>3. MayBegin(b, R, t)
    BY <1>2, <1>6, <1>13, <1>16, <2>2 DEF MayBegin, Carrying
  <2>4. Attempted(b, q, R, t)
    BY <1>2, <1>3, <2>3, DispatchedSays
  <2> HIDE DEF q
  <2>5. t \in b.mem.inflight /\ t \notin ToSet(b.mem.pending)
    BY <1>4, <1>6, <1>13
  <2>6. CASE Do(Finish(q, t, Said("software_error"), "fits"))
    BY <1>3, <1>6, <1>13, <2>4, <2>5, <2>6, UnstartedSays
  <2>7. CASE Commit([q EXCEPT !.mem.active = Append(@, t)],
                    [worker EXCEPT ![t] = Said("running")], resting)
    BY <1>1, <1>3, <1>6, <1>13, <2>4, <2>5, <2>7, StartedSays
  <2> QED BY <2>1, <2>6, <2>7 DEF Launch
<1> QED BY <1>12, <1>14, <1>15, <1>16

\* Polling begins.
LEMMA BeginPollingSays ==
  ASSUME IInv, BeginPolling
  PROVE  Steps /\ Children' /\ World'
<1> DEFINE m == [mem EXCEPT !.phase = "collect", !.polling = mem.active]
           s == Handling(m)
<1>1. /\ mem.phase = "dispatch" /\ disk' = disk /\ mem' = m /\ worker' = worker
      /\ resting' = resting /\ orphans' = orphans /\ healthy' = healthy /\ clock' = clock
  BY DEF BeginPolling, Commit
<1>2. /\ mem \in Memories /\ Queues(mem) /\ Len(mem.active) =< Workers
      /\ IsInjective(mem.active)
  BY DEF IInv, Right, Queues
<1>3. /\ m \in Memories /\ Alike(mem, m) /\ m.pending = mem.pending /\ m.active = mem.active
      /\ m.phase = "collect" /\ m.polling = mem.active
  BY <1>2 DEF Memories, Alike
<1> HIDE DEF m
<1>4. Begun(s, m)
  BY <1>1, <1>3, HandlingSays
<1> HIDE DEF s
<1>5. Queues(m)
  BY <1>2, <1>3, QueuesAsWere DEF Alike
<1>6. Settled(s)
  BY <1>2, <1>3, <1>4, <1>5 DEF Settled, Begun
<1>7. Steps
  BY <1>1, <1>4, <1>6, SettledRight DEF Steps, Begun
<1>8. Children'
  BY <1>1, <1>3, <1>7, ChildrenKept DEF Alike
<1> QED BY <1>1, <1>7, <1>8 DEF IInv, World

\* The loop goes round.
LEMMA SleepSays ==
  ASSUME IInv, Sleep
  PROVE  Steps /\ Children' /\ World'
<1> DEFINE m == [mem EXCEPT !.phase = "survey"]
           s == Handling(m)
<1>1. /\ mem.phase = "collect" /\ disk' = disk /\ mem' = m /\ worker' = worker
      /\ resting' = resting /\ orphans' = orphans /\ healthy' = healthy /\ clock' = clock
  BY DEF Sleep, Commit
<1>2. mem \in Memories /\ Queues(mem) /\ Len(mem.active) =< Workers
  BY DEF IInv, Right
<1>3. /\ m \in Memories /\ Alike(mem, m) /\ m.pending = mem.pending /\ m.active = mem.active
      /\ m.phase = "survey"
  BY <1>2 DEF Memories, Alike
<1> HIDE DEF m
<1>4. Begun(s, m)
  BY <1>1, <1>3, HandlingSays
<1> HIDE DEF s
<1>5. Queues(m)
  BY <1>2, <1>3, QueuesAsWere DEF Alike
<1>6. Settled(s)
  BY <1>2, <1>3, <1>4, <1>5 DEF Settled, Begun
<1>7. Steps
  BY <1>1, <1>4, <1>6, SettledRight DEF Steps, Begun
<1>8. Children'
  BY <1>1, <1>3, <1>7, ChildrenKept DEF Alike
<1> QED BY <1>1, <1>7, <1>8 DEF IInv, World

\* What a child has come to can be recorded.
LEMMA TakenSays ==
  ASSUME IInv, mem.phase # "off", NEW m \in Memories, Alike(mem, m), NEW s, Begun(s, m),
         NEW t \in ToSet(mem.active), worker[t].kind # "running" \/ Stopped(t)
  PROVE  MayFinish(s, ToSet(mem.active), t, Taken(t))
<1> DEFINE answer == Taken(t)
<1>1. /\ t \in Tasks /\ disk \in Directories /\ Readable(disk) /\ Queues(mem)
      /\ worker[t] \in [kind : Kinds \cup {"idle", "running", "late"}, asks : SUBSET Tasks]
      /\ worker[t].kind # "idle" /\ Grounded(disk, worker[t].asks)
      /\ campaign \in Campaigns
  <2>1. campaign \in Campaigns /\ mem \in Memories /\ disk \in Directories /\ Readable(disk)
        /\ Queues(mem)
    BY DEF IInv, Right
  <2>2. t \in Tasks
    BY <2>1 DEF Memories, ToSet
  <2>3. Children
    BY DEF IInv
  <2> QED BY <2>1, <2>2, <2>3 DEF Children
<1>2. t \in mem.inflight /\ t \in mem.known
  BY <1>1 DEF Queues
<1>3. answer = Said("budget_exceeded") \/ answer = Said("software_error") \/ answer = worker[t]
  BY DEF Taken
<1>4. answer.kind \in Kinds /\ answer.asks \in SUBSET Tasks
  <2>1. CASE Stopped(t)
    BY <2>1 DEF Taken, Said, Kinds
  <2>2. CASE ~Stopped(t) /\ worker[t].kind = "late"
    BY <2>2 DEF Taken, Said, Kinds
  <2>3. CASE ~Stopped(t) /\ worker[t].kind # "late"
    BY <1>1, <2>3 DEF Taken
  <2> QED BY <2>1, <2>2, <2>3
<1>5. answer.asks = {} \/ answer.asks = worker[t].asks
  BY <1>3 DEF Said
<1>6. t \in Finalizers /\ answer.kind = "budget_exceeded" =>
        mem.stop \/ worker[t].kind = "budget_exceeded"
  BY DEF Taken, Stopped, Said
<1> HIDE DEF answer
<1>7. Definable(disk, answer.asks)
  <2>1. ASSUME NEW x \in worker[t].asks, NEW need \in Needs[x] PROVE need \in Known(disk)
    <3>1. x \in Tasks /\ need \in Tasks
      BY <1>1, TaskPlanAssumption
    <3>2. disk.completion[need] # NoRow
      BY <1>1 DEF Grounded
    <3> QED BY <1>1, <3>1, <3>2 DEF Readable, TaskRight
  <2> QED BY <1>5, <2>1 DEF Definable
<1> QED BY <1>1, <1>2, <1>4, <1>6, <1>7 DEF MayFinish, Begun, Alike, Queues, answer

\* A child that has come to its end leaves the active ones.
LEMMA CollectedSays ==
  ASSUME IInv, mem.phase = "collect", NEW s, s.mem.active = mem.active,
         s.mem.pending = mem.pending, s.mem.inflight = mem.inflight,
         s.mem.known = mem.known, s.mem.attempts = mem.attempts,
         s.mem.phase = mem.phase, Defined(s), NEW t \in ToSet(mem.active),
         IsInjective(s.mem.polling), ToSet(s.mem.polling) \subseteq ToSet(mem.active) \ {t},
         NEW f, RunEnded(s, f, ToSet(mem.active), t), NEW later \in SUBSET Tasks,
         Commit([f EXCEPT !.mem.active = RemoveFirst(@, t)], [worker EXCEPT ![t] = Idle], later)
  PROVE  Steps /\ Children' /\ World'
<1> DEFINE R == ToSet(mem.active)
           fewer == RemoveFirst(mem.active, t)
           g == [f EXCEPT !.mem.active = fewer]
<1>1. /\ mem \in Memories /\ Queues(mem) /\ Len(mem.active) =< Workers
      /\ mem.active \in Seq(Tasks) /\ IsInjective(mem.active)
      /\ disk \in Directories
  BY DEF IInv, Right, Memories, Queues
<1>2. R \in SUBSET Tasks /\ t \in Tasks
  BY <1>1 DEF ToSet
<1>3. /\ fewer \in Seq(Tasks) /\ ToSet(fewer) = R \ {t} /\ Len(fewer) =< Workers
      /\ IsInjective(fewer)
  <2>1. /\ fewer \in Seq(Tasks) /\ Len(fewer) = Len(mem.active) - 1
        /\ IsInjective(fewer) /\ ToSet(fewer) = R \ {t}
    BY <1>1, RemoveSays
  <2>2. Workers \in Nat /\ Len(mem.active) \in Nat
    BY <1>1, TaskPlanAssumption DEF IInv, Workers
  <2> HIDE DEF fewer, R
  <2> QED BY <1>1, <2>1, <2>2
<1>4. /\ Good(f, R \ {t}) /\ f \in States /\ f.mem \in Memories
      /\ f.mem.active = mem.active
  BY DEF RunEnded, Good, States
<1>5. [f EXCEPT !.mem.active = RemoveFirst(@, t)] = g
  <2> DEFINE Shorter(q) == RemoveFirst(q, t)
  <2>1. [f EXCEPT !.mem.active = Shorter(@)] = [f EXCEPT !.mem.active = Shorter(mem.active)]
    <3> HIDE DEF Shorter
    <3> QED BY <1>4 DEF States, Memories
  <2> QED BY <2>1
<1> HIDE DEF fewer
<1>6. Reseated(f, g, fewer, R \ {t})
  BY <1>3, <1>4, ReseatedSays
<1>7. /\ disk' = g.disk /\ mem' = g.mem /\ worker' = [worker EXCEPT ![t] = Idle]
      /\ resting' = later /\ orphans' = orphans /\ healthy' = healthy /\ clock' = clock
  <2> HIDE DEF g
  <2> QED BY <1>5 DEF Commit
<1> HIDE DEF g
<1>8. Queues(g.mem)
  <2>1. /\ g.mem.inflight = mem.inflight \ {t} /\ g.mem.pending = mem.pending
        /\ g.mem.active = fewer /\ mem.known \subseteq g.mem.known
    BY <1>6 DEF Reseated, Alike, RunEnded, Defined
  <2> QED BY <1>1, <1>3, <2>1 DEF Queues, R
<1>9. Settled(g)
  <2>1. g.mem.polling = s.mem.polling /\ g.mem.phase = "collect"
    BY <1>6 DEF Reseated, RunEnded
  <2> QED BY <1>3, <1>6, <1>8, <2>1 DEF Settled, Reseated, Same, Alike, RunEnded, R
<1>10. Steps
  BY <1>7, <1>9, SettledRight DEF Steps
<1>11. mem'.active = fewer /\ mem'.attempts = mem.attempts
  BY <1>6, <1>7 DEF Reseated, Alike, RunEnded
<1>12. Children'
  <2>1. Children /\ worker' \in [Tasks -> [kind : Kinds \cup {"idle", "running", "late"},
                                           asks : SUBSET Tasks]]
    BY <1>7 DEF IInv, Children, Idle
  <2>2. worker'[t] = Idle /\ Idle.asks = {} /\ \A u \in Tasks \ {t} : worker'[u] = worker[u]
    BY <1>2, <1>7, <2>1 DEF Children, Idle
  <2>3. /\ disk' \in Directories /\ Follows(disk') /\ disk'.dispatches \in [Tasks -> Nat]
        /\ disk.dispatches \in [Tasks -> Nat]
    BY <1>1, <1>10 DEF Steps, Right, Directories
  <2>4. \A o \in orphans : o \in Tasks \X Nat /\ o[2] =< disk.dispatches[o[1]]
    BY <2>1 DEF Children
  <2>5. \A o \in orphans' : o \in Tasks \X Nat /\ o[2] =< disk'.dispatches[o[1]]
    BY <1>7, <2>3, <2>4 DEF Follows
  <2>6. RunsOwnAttempt'
    BY <1>3, <1>7, <1>11, <2>1 DEF Children, RunsOwnAttempt, R
  <2>7. ASSUME NEW u \in Tasks PROVE Grounded(disk', worker'[u].asks)
    <3>1. CASE u = t
      BY <2>2, <3>1 DEF Grounded
    <3>2. CASE u # t
      <4>1. Grounded(disk, worker[u].asks) /\ worker[u].asks \subseteq Tasks
        BY <2>1 DEF Children
      <4> QED BY <2>2, <2>3, <3>2, <4>1, GroundedOn
    <3> QED BY <3>1, <3>2
  <2>8. \A u \in Tasks : IF u \in ToSet(mem'.active) THEN worker'[u].kind # "idle"
                         ELSE worker'[u] = Idle
    BY <1>3, <1>11, <2>1, <2>2 DEF Children, R
  <2> QED BY <2>1, <2>5, <2>6, <2>7, <2>8 DEF Children
<1>13. World'
  BY <1>7 DEF IInv, World
<1> QED BY <1>10, <1>12, <1>13

\* The runner looks after one of its children.
LEMMA PollSays ==
  ASSUME IInv, NEW sample, Poll(sample)
  PROVE  Steps /\ Children' /\ World'
<1> DEFINE t == Head(mem.polling)
           rest == Tail(mem.polling)
           m == [mem EXCEPT !.polling = rest]
           s == Handling(m)
           R == ToSet(mem.active)
           f == Finish(s, t, Taken(t), sample)
           later == IF Taken(t).kind = "deferred" THEN resting \cup {t} ELSE resting
           g == [f EXCEPT !.mem.active = RemoveFirst(@, t)]
<1>1. /\ mem.phase = "collect" /\ mem.polling # <<>>
      /\ IF worker[t].kind = "running" /\ ~Stopped(t) THEN Commit(s, worker, resting)
         ELSE Commit(g, [worker EXCEPT ![t] = Idle], later) \/ Halt(f)
  BY DEF Poll
<1>2. /\ campaign \in Campaigns /\ mem \in Memories /\ Queues(mem)
      /\ mem.polling \in Seq(Tasks) /\ IsInjective(mem.polling) /\ R \in SUBSET Tasks
      /\ ToSet(mem.polling) \subseteq R /\ Len(mem.active) =< Workers
  <2>1. mem.phase = "collect"
    BY <1>1
  <2>2. campaign \in Campaigns /\ Right(disk, mem)
    BY DEF IInv
  <2>3. mem.polling \in Seq(Tasks) /\ mem.active \in Seq(Tasks)
    BY <2>2 DEF Right, Memories
  <2>4. R \in SUBSET Tasks
    BY <2>3 DEF ToSet
  <2> QED BY <2>1, <2>2, <2>3, <2>4 DEF Right
<1>3. /\ t \in R /\ t \in Tasks /\ rest \in Seq(Tasks)
      /\ IsInjective(rest) /\ ToSet(rest) \subseteq R \ {t}
  BY <1>1, <1>2, TailSays
<1> HIDE DEF rest, t
<1>4. /\ m \in Memories /\ Alike(mem, m) /\ m.pending = mem.pending /\ m.active = mem.active
      /\ m.phase = mem.phase /\ m.polling = rest
  BY <1>2, <1>3 DEF Memories, Alike
<1> HIDE DEF m
<1>5. Begun(s, m)
  BY <1>1, <1>4, HandlingSays
<1> HIDE DEF s
<1>6. CASE worker[t].kind = "running" /\ ~Stopped(t)
  <2>1. Commit(s, worker, resting)
    BY <1>1, <1>6
  <2>2. Queues(m)
    BY <1>2, <1>4, QueuesAsWere DEF Alike
  <2>3. Settled(s)
    BY <1>1, <1>2, <1>3, <1>4, <1>5, <2>2 DEF Settled, Begun
  <2>4. Do(s)
    BY <2>1 DEF Do
  <2> QED BY <1>4, <1>5, <2>3, <2>4, DoSays DEF Begun, Alike
<1>7. CASE ~(worker[t].kind = "running" /\ ~Stopped(t))
  <2>1. MayFinish(s, R, t, Taken(t))
    BY <1>1, <1>3, <1>4, <1>5, <1>7, TakenSays
  <2>2. RunEnded(s, f, R, t)
    BY <1>2, <1>3, <2>1, FinishSays
  <2>3. Commit(g, [worker EXCEPT ![t] = Idle], later) \/ Halt(f)
    BY <1>1, <1>7
  <2> HIDE DEF f
  <2>4. CASE Halt(f)
    <3>1. f \in States /\ Logs(f)
      BY <2>2 DEF RunEnded, Good
    <3> QED BY <2>4, <3>1, HaltSays
  <2>5. CASE Commit(g, [worker EXCEPT ![t] = Idle], later)
    <3>1. later \in SUBSET Tasks
      BY <1>3 DEF IInv, World
    <3> HIDE DEF later
    <3>2. /\ s.mem.active = mem.active /\ s.mem.pending = mem.pending
          /\ s.mem.inflight = mem.inflight /\ s.mem.known = mem.known
          /\ s.mem.attempts = mem.attempts /\ s.mem.phase = mem.phase
          /\ Defined(s) /\ s.mem.polling = rest
      BY <1>4, <1>5 DEF Begun, Alike
    <3> QED BY <1>1, <1>3, <2>2, <2>5, <3>1, <3>2, CollectedSays
  <2> QED BY <2>3, <2>4, <2>5
<1> QED BY <1>6, <1>7

\* What a runner reads from the directory is what it knows.
LEMMA LoadedSays ==
  ASSUME campaign \in Campaigns, disk \in Directories, Readable(disk)
  PROVE  LET s == Handling(Loaded(disk)) IN
         /\ Good(s, {}) /\ Fresh(s) /\ Defined(s) /\ s.disk = disk
         /\ s.disk.workStop = s.mem.workStop /\ s.mem.phase = "survey"
         /\ s.mem.active = <<>> /\ s.mem.pending = <<>> /\ s.mem.inflight = {}
<1> DEFINE m == Loaded(disk)
           s == Handling(m)
<1>1. /\ m \in Memories /\ m.phase = "survey" /\ m.active = <<>> /\ m.pending = <<>>
      /\ m.inflight = {} /\ m.known = Known(disk) /\ m.edges = Edges(disk)
      /\ m.replays = disk.replays /\ m.attempts = disk.dispatches
      /\ m.failures = disk.failures /\ m.refreshes = disk.requeued
      /\ m.workStop = disk.workStop
      /\ m.completed = [t \in Tasks |-> IF Stands(disk, t) THEN disk.completion[t] ELSE NoRow]
  <2> DEFINE completed == [t \in Tasks |-> IF Stands(disk, t) THEN disk.completion[t] ELSE NoRow]
  <2>1. completed \in [Tasks -> Row]
    BY DEF Directories, NoRow, Row
  <2>2. Known(disk) \in SUBSET Tasks /\ Edges(disk) \in [Tasks -> SUBSET Tasks]
    BY KnownEdges
  <2>3. m =
          [phase |-> "survey", known |-> Known(disk), edges |-> Edges(disk),
           replays |-> disk.replays,
           attempts |-> disk.dispatches, failures |-> disk.failures,
           refreshes |-> disk.requeued,
           completed |-> completed, stop |-> FALSE, workStop |-> disk.workStop,
           inflight |-> {}, pending |-> <<>>, active |-> <<>>, polling |-> <<>>]
    BY DEF Loaded
  <2> HIDE DEF completed, m
  <2>4. /\ m.phase = "survey" /\ m.active = <<>> /\ m.pending = <<>>
        /\ m.inflight = {} /\ m.known = Known(disk) /\ m.edges = Edges(disk)
        /\ m.replays = disk.replays /\ m.attempts = disk.dispatches
        /\ m.failures = disk.failures /\ m.refreshes = disk.requeued
        /\ m.workStop = disk.workStop /\ m.completed = completed
    BY <2>3
  <2>5. m \in Memories
    BY <2>1, <2>2, <2>3 DEF Memories, Directories
  <2> QED BY <2>4, <2>5 DEF completed
<1> HIDE DEF m
<1>2. s.disk = disk /\ s.mem = m /\ s.log = <<disk>>
  BY DEF Handling
<1>3. s \in States /\ Logs(s)
  <2>1. s \in States
    BY <1>1 DEF Handling, States
  <2>2. ToSet(<<disk>>) = {disk}
    BY DEF ToSet
  <2>3. Follows(disk)
    <3>1. disk.dispatches \in [Tasks -> Nat]
      BY DEF Directories
    <3> QED BY <3>1 DEF Follows
  <2> QED BY <1>2, <2>1, <2>2, <2>3 DEF Logs
<1> HIDE DEF s
<1>4. AgreesBesides(s, {}) /\ Owed(s, {}) /\ Waits(s)
  BY <1>1, <1>2 DEF AgreesBesides, Owed, Waits
<1>5. GivenUp(s) /\ Fresh(s)
  BY <1>2 DEF GivenUp, Fresh, NoRow
<1>6. Defined(s)
  BY <1>1, <1>2 DEF Defined
<1> QED BY <1>1, <1>2, <1>3, <1>4, <1>5, <1>6 DEF Good, s, m

\* A runner starts on what any earlier one left.
LEMMA StartSays ==
  ASSUME IInv, Start
  PROVE  Steps /\ Children' /\ World'
<1> DEFINE s == Handling(Loaded(disk))
           named == Over(Plan, "register", s)
           marked == Over(Tasks, "mark", named)
           opened == Over(Tasks, "withdraw", marked)
           f == Campaign(opened)
           R == {}
<1>1. /\ mem.phase \in {"off", "done"}
      /\ (disk' = f.disk /\ mem' = f.mem) \/ (disk' \in ToSet(f.log) /\ mem' = Off)
      /\ worker' = worker /\ resting' = resting /\ orphans' = orphans
      /\ healthy' = healthy /\ clock' = clock
  BY DEF Start
<1>2. campaign \in Campaigns /\ disk \in Directories /\ Readable(disk) /\ mem.active = <<>>
  BY <1>1, OffSays DEF IInv, Right
<1>3. /\ Good(s, R) /\ Fresh(s) /\ Defined(s) /\ s.disk = disk
      /\ s.disk.workStop = s.mem.workStop /\ s.mem.phase = "survey"
      /\ s.mem.active = <<>> /\ s.mem.pending = <<>> /\ s.mem.inflight = {}
  BY <1>2, LoadedSays
<1> HIDE DEF s
<1>4. R \in SUBSET Tasks /\ Plan \in SUBSET Tasks /\ Definable(s.disk, Plan)
  BY <1>2, TaskPlanAssumption DEF Plan, Definable, Known
<1> HIDE DEF R
<1>5. Registered(s, named, Plan, R)
  BY <1>2, <1>3, <1>4, RegisterLoop
<1> HIDE DEF named
<1>6. Good(named, R) /\ Fresh(named) /\ Defined(named) /\ named.mem = s.mem
  <2>1. Known(named.disk) = Known(s.disk)
    BY <1>5 DEF Registered, Known
  <2>2. Edges(named.disk) = Edges(s.disk)
    BY <1>5, <2>1 DEF Registered, Edges
  <2> QED BY <1>3, <1>5, <2>1, <2>2 DEF Registered, Defined
<1> DEFINE loop == "mark"
           again == "withdraw"
<1>7. Good(marked, R) /\ Fresh(marked) /\ Kept(named, marked) /\ QueueKept(named, marked)
  <2>1. loop \in {"withdraw", "mark"} /\ marked = Over(Tasks, loop, named)
    OBVIOUS
  <2> HIDE DEF loop, marked
  <2> QED BY <1>2, <1>4, <1>6, <2>1, WithdrawLoop
<1> HIDE DEF marked
<1>8. Good(opened, R) /\ Fresh(opened) /\ Kept(marked, opened) /\ QueueKept(marked, opened)
  <2>1. again \in {"withdraw", "mark"} /\ opened = Over(Tasks, again, marked)
    OBVIOUS
  <2> HIDE DEF again, opened
  <2> QED BY <1>2, <1>4, <1>7, <2>1, WithdrawLoop
<1> HIDE DEF opened
<1>9. /\ Good(f, R) /\ Kept(opened, f) /\ f.mem = opened.mem
      /\ f.disk.workStop = opened.mem.workStop
  BY <1>4, <1>8, CampaignSays
<1> HIDE DEF f
<1>10. Defined(f)
  <2>1. Defined(marked)
    BY <1>6, <1>7, DefinedKept
  <2>2. Defined(opened)
    BY <1>8, <2>1, DefinedKept
  <2> QED BY <1>9, <2>2, DefinedKept
<1>11. /\ f.mem.phase = "survey" /\ f.mem.active = <<>> /\ f.mem.pending = <<>>
       /\ f.mem.inflight = {}
  BY <1>3, <1>6, <1>7, <1>8, <1>9 DEF Kept, QueueKept
<1>12. Settled(f)
  <2>1. Queues(f.mem)
    BY <1>11 DEF Queues, IsInjective, ToSet
  <2>2. ToSet(<<>>) = R
    BY DEF ToSet, R
  <2>3. Len(f.mem.active) =< Workers
    BY <1>2, <1>11, TaskPlanAssumption DEF Workers
  <2> QED BY <1>9, <1>10, <1>11, <2>1, <2>2, <2>3 DEF Settled
<1>13. Steps /\ mem'.active = mem.active
  <2>1. CASE disk' = f.disk /\ mem' = f.mem
    BY <1>2, <1>11, <1>12, <2>1, SettledRight DEF Steps
  <2>2. CASE disk' \in ToSet(f.log) /\ mem' = Off
    <3>1. disk' \in Directories /\ Readable(disk') /\ Follows(disk')
      BY <1>9, <2>2 DEF Good, Logs, States, ToSet
    <3>2. Right(disk', mem') /\ mem'.phase = "off" /\ mem'.active = <<>>
      BY <1>2, <2>2, <3>1, OffSays
    <3> QED BY <1>2, <3>1, <3>2 DEF Steps
  <2> QED BY <1>1, <2>1, <2>2
<1>14. ToSet(mem.active) = {}
  BY <1>2 DEF ToSet
<1>15. Children'
  BY <1>1, <1>13, <1>14, ChildrenKept
<1>16. World'
  BY <1>1 DEF IInv, World
<1> QED BY <1>13, <1>15, <1>16

-----------------------------------------------------------------------------
(* The children and the world.                                               *)

\* Who leaves the files and the runner alone changes nothing in them.
LEMMA StillSays ==
  ASSUME IInv, disk' = disk, mem' = mem
  PROVE  Steps
<1>1. Right(disk', mem') /\ disk \in Directories
  BY DEF IInv, Right
<1>2. Follows(disk')
  <2>1. disk.dispatches \in [Tasks -> Nat]
    BY <1>1 DEF Directories
  <2> QED BY <2>1 DEF Follows
<1>3. GivenUp(At(disk', mem'))
  BY DEF GivenUp, At, NoRow
<1> QED BY <1>1, <1>2, <1>3 DEF Steps

\* A child that lives comes to something.
LEMMA ChildSays ==
  ASSUME IInv, NEW t \in Tasks, Living(t), disk' = disk, mem' = mem, orphans' = orphans,
         NEW answer, worker' = [worker EXCEPT ![t] = answer],
         answer.kind \in Kinds \cup {"late"},
         answer \in [kind : Kinds \cup {"idle", "running", "late"}, asks : SUBSET Tasks],
         Grounded(disk, answer.asks)
  PROVE  Children'
<1>1. Children
  BY DEF IInv
<1>2. worker[t].kind # "idle" /\ t \in ToSet(mem.active)
  BY <1>1 DEF Living, Children, Idle
<1>3. worker' \in [Tasks -> [kind : Kinds \cup {"idle", "running", "late"}, asks : SUBSET Tasks]]
  BY <1>1 DEF Children
<1>4. worker'[t] = answer /\ \A u \in Tasks \ {t} : worker'[u] = worker[u]
  BY <1>1 DEF Children
<1>5. answer.kind # "idle"
  BY DEF Kinds
<1>6. \A u \in Tasks : Grounded(disk', worker'[u].asks)
  BY <1>1, <1>4 DEF Children, Grounded
<1>7. \A u \in Tasks : IF u \in ToSet(mem'.active) THEN worker'[u].kind # "idle"
                       ELSE worker'[u] = Idle
  BY <1>1, <1>2, <1>4, <1>5 DEF Children
<1> QED BY <1>1, <1>3, <1>6, <1>7 DEF Children, RunsOwnAttempt

\* A child answers.
LEMMA AnswerSays ==
  ASSUME IInv, NEW t \in Tasks, Answer(t)
  PROVE  Steps /\ Children' /\ World'
<1>1. /\ Living(t) /\ disk' = disk /\ mem' = mem /\ orphans' = orphans
      /\ resting' = resting /\ clock' = clock
      /\ healthy' = healthy \/ healthy' = healthy \cup {t}
  BY DEF Answer
<1>2. PICK answer \in Answers(t) : worker' = [worker EXCEPT ![t] = answer]
  BY DEF Answer
<1>3. /\ answer.kind \in Kinds \cup {"late"} /\ Grounded(disk, answer.asks)
      /\ answer \in [kind : Kinds \cup {"idle", "running", "late"}, asks : SUBSET Tasks]
  <2>1. CASE answer \in {Said("ok"), Said("software_error"), Said("budget_exceeded"),
                         Said("deferred")}
    BY <2>1 DEF Said, Kinds, Grounded
  <2>2. CASE answer \notin {Said("ok"), Said("software_error"), Said("budget_exceeded"),
                            Said("deferred")}
    <3>1. PICK asks \in Requests[t] :
             MayMiss(t, asks) /\ answer = [kind |-> "needs_dependencies", asks |-> asks]
      BY <2>2 DEF Answers
    <3>2. asks \in SUBSET Tasks
      BY TaskPlanAssumption
    <3> QED BY <3>1, <3>2 DEF MayMiss, Kinds
  <2> QED BY <2>1, <2>2
<1>4. Children'
  BY <1>1, <1>2, <1>3, ChildSays
<1>5. World'
  BY <1>1 DEF IInv, World
<1> QED BY <1>1, <1>4, <1>5, StillSays

\* A child overruns its time.
LEMMA OverrunSays ==
  ASSUME IInv, NEW t \in Tasks, Overrun(t)
  PROVE  Steps /\ Children' /\ World'
<1> DEFINE answer == Said("late")
<1>1. /\ Living(t) /\ disk' = disk /\ mem' = mem /\ orphans' = orphans
      /\ resting' = resting /\ clock' = clock /\ healthy' = healthy
      /\ worker' = [worker EXCEPT ![t] = answer]
  BY DEF Overrun, Living
<1>2. /\ answer.kind \in Kinds \cup {"late"} /\ Grounded(disk, answer.asks)
      /\ answer \in [kind : Kinds \cup {"idle", "running", "late"}, asks : SUBSET Tasks]
  BY DEF Said, Grounded
<1> HIDE DEF answer
<1>3. Children'
  BY <1>1, <1>2, ChildSays
<1>4. World'
  BY <1>1 DEF IInv, World
<1> QED BY <1>1, <1>3, <1>4, StillSays

\* Artifacts are damaged, delays and deadlines pass.
LEMMA WorldSays ==
  ASSUME IInv,
         \/ \E t \in Tasks : Damage(t) \/ Wake(t)
         \/ \E deadline \in Clocks : Pass(deadline)
         \/ Finished
  PROVE  Steps /\ Children' /\ World'
<1>1. disk' = disk /\ mem' = mem /\ worker' = worker /\ orphans' = orphans
  BY DEF Damage, Wake, Pass, Finished, vars
<1>2. Steps
  BY <1>1, StillSays
<1>3. Children'
  BY <1>1, <1>2, ChildrenKept
<1>4. Clocks \subseteq {"reserve", "over"}
  BY TaskPlanAssumption DEF IInv, Clocks
<1>5. World'
  BY <1>4 DEF IInv, World, Damage, Wake, Pass, Finished, vars
<1> QED BY <1>2, <1>3, <1>5

-----------------------------------------------------------------------------
(* The invariant is inductive.                                               *)

\* A campaign begins with an empty directory and no children.
LEMMA InitSays ==
  ASSUME Init
  PROVE  IInv
<1>1. campaign \in Campaigns /\ disk = EmptyDirectory /\ mem = Off
      /\ worker = Each(Idle) /\ orphans = {} /\ healthy = {} /\ resting = {}
      /\ clock = "working"
  BY DEF Init
<1> DEFINE d == EmptyDirectory
<1>2. /\ d \in Directories /\ d.registry = {} /\ d.doubled = {} /\ d.workStop = FALSE
      /\ \A t \in Tasks :
           /\ d.edges[t] = {} /\ d.replays[t] = {} /\ d.dispatches[t] = 0 /\ d.rows[t] = {}
           /\ d.failures[t] = 0 /\ d.completion[t] = NoRow /\ d.voided[t] = -1
           /\ d.requeued[t] = 0 /\ d.results[t] = 0
  <2>1. d \in Directories
    BY <1>1, OffSays
  <2> QED BY <2>1 DEF EmptyDirectory, Each
<1> HIDE DEF d
<1>3. Plan \subseteq Tasks /\ WellFounded(Plan, Needs) /\ MaxAttempts \in Nat \ {0}
  BY <1>1, TaskPlanAssumption DEF Plan, MaxAttempts
<1>4. Known(d) = Plan /\ \A t \in Plan : Edges(d)[t] = Needs[t]
  BY <1>2, <1>3 DEF Known, Edges
<1>5. Shape(d)
  <2>1. WellFounded(Known(d), Edges(d))
    <3>1. ASSUME NEW some \in SUBSET Plan, some # {}
          PROVE  \E t \in some : Edges(d)[t] \cap some = {}
      <4>1. PICK t \in some : Needs[t] \cap some = {}
        BY <1>3, <3>1 DEF WellFounded
      <4> QED BY <1>4, <4>1
    <3>2. \A t \in Plan : Edges(d)[t] \subseteq Plan
      BY <1>3, <1>4 DEF WellFounded
    <3> QED BY <1>4, <3>1, <3>2 DEF WellFounded
  <2> QED BY <1>2, <2>1 DEF Shape
<1>6. ASSUME NEW t \in Tasks PROVE TaskRight(d, t)
  <2>1. ~Stands(d, t) /\ ~Failed(d, t)
    BY <1>2 DEF Stands, Failed, NoRow, Verdicts
  <2> QED BY <1>2, <1>3, <2>1 DEF TaskRight, NoRow
<1>7. Right(disk, mem) /\ mem.active = <<>>
  BY <1>1, <1>2, <1>5, <1>6, OffSays DEF Readable, d
<1>8. Children
  <2>1. worker \in [Tasks -> [kind : Kinds \cup {"idle", "running", "late"}, asks : SUBSET Tasks]]
        /\ \A t \in Tasks : worker[t] = Idle /\ worker[t].asks = {}
    BY <1>1 DEF Each, Idle
  <2>2. ToSet(mem.active) = {}
    BY <1>7 DEF ToSet
  <2> QED BY <1>1, <2>1, <2>2 DEF Children, RunsOwnAttempt, Grounded
<1> QED BY <1>1, <1>7, <1>8 DEF IInv, World

\* Every step keeps the invariant and takes back nothing.
LEMMA NextSays ==
  ASSUME IInv, [Next]_<<vars, campaign>>
  PROVE  IInv' /\ Steps
<1>1. Steps /\ Children' /\ World' /\ campaign' = campaign
  <2>1. CASE UNCHANGED <<vars, campaign>>
    <3>1. Steps
      BY <2>1, StillSays DEF vars
    <3>2. Children'
      BY <2>1, <3>1, ChildrenKept DEF vars
    <3> QED BY <2>1, <3>1, <3>2 DEF vars, IInv, World
  <2>2. CASE Next
    <3>1. campaign' = campaign
      BY <2>2 DEF Next
    <3>2. CASE Start
      BY <3>1, <3>2, StartSays
    <3>3. CASE Run
      <4>1. CASE \E sample \in Samples : Survey(sample)
        BY <3>1, <4>1, SurveySays
      <4>2. CASE \E sample \in Samples : Dispatch(sample)
        BY <3>1, <4>2, DispatchSays
      <4>3. CASE \E sample \in Samples : Poll(sample)
        BY <3>1, <4>3, PollSays
      <4>4. CASE BeginPolling
        BY <3>1, <4>4, BeginPollingSays
      <4>5. CASE Sleep
        BY <3>1, <4>5, SleepSays
      <4>6. CASE Return
        BY <3>1, <4>6, ReturnSays
      <4> QED BY <3>3, <4>1, <4>2, <4>3, <4>4, <4>5, <4>6 DEF Run
    <3>4. CASE \E t \in Tasks : Child(t)
      BY <3>1, <3>4, AnswerSays, OverrunSays DEF Child
    <3>5. CASE \/ \E t \in Tasks : Damage(t) \/ Wake(t)
               \/ \E deadline \in Clocks : Pass(deadline)
               \/ Finished
      BY <3>1, <3>5, WorldSays
    <3> QED BY <2>2, <3>2, <3>3, <3>4, <3>5 DEF Next
  <2> QED BY <2>1, <2>2
<1>2. Right(disk, mem)'
  BY <1>1, SameCampaign DEF Steps
<1>3. (campaign \in Campaigns)'
  BY <1>1 DEF IInv
<1> QED BY <1>1, <1>2, <1>3 DEF IInv

\* A directory that is right can be read again, and tells what the runner knows.
LEMMA InvariantSays ==
  ASSUME IInv
  PROVE  DiskSuffices /\ FailuresBounded /\ RunsOwnAttempt /\ DependenciesDecide
<1>1. /\ campaign \in Campaigns /\ disk \in Directories /\ mem \in Memories /\ Readable(disk)
      /\ Queues(mem) /\ Len(mem.active) =< Workers
      /\ mem.phase = "off" => mem = Off
      /\ mem.phase # "off" => Aware(disk, mem)
      /\ Children /\ World
  BY DEF IInv, Right
<1>2. \A t \in Tasks : TaskRight(disk, t)
  BY <1>1 DEF Readable
<1>3. TaskPlanTypeOK
  <2>1. /\ disk.registry \subseteq Tasks /\ disk.doubled \subseteq Tasks
        /\ disk.refused \subseteq Tasks /\ disk.edges \in [Tasks -> SUBSET Tasks]
        /\ disk.completion \in [Tasks -> Row]
        /\ \A f \in {disk.dispatches, disk.failures, disk.requeued, disk.results} :
              f \in [Tasks -> Nat]
    BY <1>1 DEF Directories
  <2>2. disk.voided \in [Tasks -> Nat \cup {-1}]
    <3>1. disk.voided \in [Tasks -> Int]
      BY <1>1 DEF Directories
    <3>2. ASSUME NEW t \in Tasks PROVE disk.voided[t] \in Nat \cup {-1}
      <4>1. disk.voided[t] \in Int
        BY <3>1
      <4>2. disk.voided[t] = -1 \/ 1 =< disk.voided[t]
        BY <1>2 DEF TaskRight
      <4> QED BY <4>1, <4>2
    <3> QED BY <3>1, <3>2
  <2>3. /\ mem.phase \in {"off", "survey", "dispatch", "collect", "done"}
        /\ mem.known \subseteq Tasks /\ mem.inflight \subseteq mem.known
        /\ mem.completed \in [Tasks -> Row]
        /\ mem.stop \in BOOLEAN /\ mem.workStop \in BOOLEAN
        /\ ToSet(mem.pending) \cup ToSet(mem.active) \subseteq mem.inflight
        /\ mem.active \in Seq(Tasks)
    BY <1>1 DEF Memories, Queues
  <2>4. {t \in Tasks : worker[t] # Idle} = ToSet(mem.active)
    <3>1. ToSet(mem.active) \subseteq Tasks
      BY <2>3 DEF ToSet
    <3>2. \A t \in Tasks : worker[t] # Idle <=> t \in ToSet(mem.active)
      BY <1>1 DEF Children, Idle
    <3> QED BY <3>1, <3>2
  <2> QED BY <1>1, <2>1, <2>2, <2>3, <2>4 DEF TaskPlanTypeOK, World
<1>4. Resumable
  BY <1>1, <1>2 DEF Resumable, Refused, Readable, Shape, TaskRight
<1>5. ASSUME NEW t \in Tasks, Failed(disk, t)
      PROVE  Stands(disk, t) /\ disk.completion[t].status # "ok"
  BY <1>5 DEF Failed, Stands, Verdicts
<1>6. NothingForgotten
  <2>1. SUFFICES ASSUME mem.phase # "off" PROVE
           LET again == Loaded(disk) IN
           /\ mem.known = again.known /\ mem.edges = again.edges
           /\ mem.replays = again.replays /\ mem.attempts = again.attempts
           /\ mem.refreshes = again.refreshes /\ mem.completed = again.completed
           /\ mem.workStop = again.workStop
           /\ \A t \in mem.known :
                 mem.completed[t] = NoRow => mem.failures[t] = again.failures[t]
    BY DEF NothingForgotten
  <2> DEFINE a == At(disk, mem)
  <2>2. a.disk = disk /\ a.mem = mem
    BY DEF At
  <2>3. AgreesBesides(a, {}) /\ Defined(a) /\ mem.workStop = disk.workStop
    BY <1>1, <2>1 DEF Aware
  <2> HIDE DEF a
  <2>4. /\ Loaded(disk).known = Known(disk) /\ Loaded(disk).edges = Edges(disk)
        /\ Loaded(disk).replays = disk.replays /\ Loaded(disk).attempts = disk.dispatches
        /\ Loaded(disk).refreshes = disk.requeued /\ Loaded(disk).failures = disk.failures
        /\ Loaded(disk).workStop = disk.workStop
        /\ Loaded(disk).completed =
             [t \in Tasks |-> IF Stands(disk, t) THEN disk.completion[t] ELSE NoRow]
    BY DEF Loaded
  <2>5. mem.known \subseteq Tasks
    BY <1>1 DEF Memories
  <2>6. ASSUME NEW t \in mem.known, mem.completed[t] = NoRow
        PROVE  mem.failures[t] = disk.failures[t]
    <3>1. t \in Tasks
      BY <2>5
    <3>2. ~Failed(disk, t)
      <4>1. mem.completed[t] = IF Stands(disk, t) THEN disk.completion[t] ELSE NoRow
        BY <2>2, <2>3, <3>1 DEF AgreesBesides
      <4>2. Stands(disk, t) => disk.completion[t] # NoRow
        BY DEF Stands, NoRow, Verdicts
      <4> QED BY <1>5, <2>6, <3>1, <4>1, <4>2
    <3> QED BY <2>2, <2>3, <3>1, <3>2 DEF AgreesBesides
  <2> QED BY <2>2, <2>3, <2>4, <2>6 DEF AgreesBesides, Defined
<1>7. FailuresBounded
  BY <1>2 DEF FailuresBounded, TaskRight
<1>8. RunsOwnAttempt
  BY <1>1 DEF Children
<1>9. DependenciesDecide
  <2>1. ASSUME NEW t \in Tasks, disk.completion[t].status = "blocked"
        PROVE  /\ t \notin TerminalMode
               /\ \E x \in Edges(disk)[t] :
                     Stands(disk, x) /\ disk.completion[x].status # "ok"
    <3>1. Edges(disk)[t] \subseteq Tasks
      BY <1>1, KnownEdges
    <3> QED BY <1>2, <1>5, <2>1, <3>1 DEF TaskRight
  <2>2. ASSUME NEW t \in mem.inflight, NEW x \in mem.edges[t]
        PROVE  mem.completed[x] # NoRow \/ disk.voided[x] > 0
    <3>1. mem.phase # "off"
      BY <1>1 DEF Off, Loaded
    <3>2. Waits(At(disk, mem))
      BY <1>1, <3>1 DEF Aware
    <3> QED BY <3>2 DEF Waits, At
  <2> QED BY <2>1, <2>2 DEF DependenciesDecide
<1> QED BY <1>3, <1>4, <1>6, <1>7, <1>8, <1>9 DEF DiskSuffices

\* The inductive invariant of the plan: wherever the runner stands, and wherever
\* it died, the files can be read, say of every task what its rows and its verdict
\* say, and agree with what the runner knows (task_plan.py, runner.py).
THEOREM PlanInvariant ==
  Spec => []IInv
BY InitSays, NextSays, PTL DEF Spec

\* The next runner can start on whatever any sequence of deaths left, and knows
\* again what the last one knew: the order of the writes of _record and
\* _save_definitions in task_plan.py loses nothing at any of its points.
THEOREM DirectoryAlwaysSuffices ==
  Spec => []DiskSuffices
<1>1. IInv => DiskSuffices
  BY InvariantSays
<1> QED BY <1>1, PlanInvariant, PTL

\* No child runs under an attempt that an earlier child still holds: runner.py has
\* dispatched write the attempt before it starts the process.  And a task fails
\* max_attempts times at most, over all the starts of its campaign (finish and
\* __init__ of task_plan.py).
THEOREM AttemptsAlwaysKept ==
  Spec => []AttemptsKept
<1>1. IInv => AttemptsKept
  BY InvariantSays DEF AttemptsKept
<1> QED BY <1>1, PlanInvariant, PTL

\* A task is blocked by a failed dependency alone, and reserved only when none is
\* open that was not withdrawn since (ready_runs and _dependencies of task_plan.py).
THEOREM DependenciesAlwaysDecide ==
  Spec => []DependenciesDecide
<1>1. IInv => DependenciesDecide
  BY InvariantSays
<1> QED BY <1>1, PlanInvariant, PTL

\* What a step follows stands.
LEMMA StepsStand ==
  ASSUME IInv, Steps, NEW t \in Tasks, Stands(disk, t),
         ~(Stands(disk', t) /\ disk'.completion[t] = disk.completion[t])
  PROVE  disk.completion[t].status = "ok" /\ t \notin healthy
<1>1. /\ Failed(disk, t) => disk'.completion[t] = disk.completion[t]
      /\ t \in healthy => disk'.completion[t] = disk.completion[t] /\ Stands(disk', t)
  BY DEF Steps, Follows
<1>2. disk.completion[t].status # "ok" => Failed(disk, t)
  BY DEF Stands, Verdicts, Failed
<1>3. disk.completion[t].status # "ok" /\ disk'.completion[t] = disk.completion[t] =>
        Stands(disk', t)
  BY DEF Stands
<1> QED BY <1>1, <1>2, <1>3

\* A verdict stands, through every death of the runner, unless it is a success
\* whose artifacts are damaged (_record and _invalidate_completion of task_plan.py).
THEOREM VerdictsAlwaysStand ==
  Spec => VerdictsStand
<1>1. IInv /\ [Next]_<<vars, campaign>> =>
        [\A t \in Tasks :
            Stands(disk, t) /\ ~(Stands(disk', t) /\ disk'.completion[t] = disk.completion[t])
              => disk.completion[t].status = "ok" /\ t \notin healthy]_vars
  BY NextSays, StepsStand
<1> QED BY <1>1, PlanInvariant, PTL DEF Spec, VerdictsStand

\* The reserve is the finalizers': when ordinary work is stopped only they are
\* dispatched, by this runner and every later one, and none of them is given up but
\* for the end of the time or the storage (check_budgets of task_plan.py).
THEOREM ReserveAlwaysKept ==
  Spec => ReserveKept
<1>1. ASSUME IInv, Steps
      PROVE  /\ disk.workStop => \A t \in Tasks \ Finalizers :
                  disk'.dispatches[t] = disk.dispatches[t]
             /\ \A t \in Finalizers :
                  (/\ disk.completion[t] = NoRow
                   /\ disk'.completion[t].status = "budget_exceeded"
                   /\ mem'.phase # "off")
                  => mem'.stop \/ worker[t].kind = "budget_exceeded"
  <2>1. Follows(disk') /\ (mem'.phase # "off" => GivenUp(At(disk', mem')))
    BY <1>1 DEF Steps
  <2> QED BY <2>1 DEF Follows, GivenUp, At
<1>2. IInv /\ [Next]_<<vars, campaign>> =>
        [/\ disk.workStop => \A t \in Tasks \ Finalizers :
             disk'.dispatches[t] = disk.dispatches[t]
         /\ \A t \in Finalizers :
             (/\ disk.completion[t] = NoRow
              /\ disk'.completion[t].status = "budget_exceeded"
              /\ mem'.phase # "off")
             => mem'.stop \/ worker[t].kind = "budget_exceeded"]_vars
  BY <1>1, NextSays
<1> QED BY <1>2, PlanInvariant, PTL DEF Spec, ReserveKept
=============================================================================
