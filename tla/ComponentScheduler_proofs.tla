----------------------- MODULE ComponentScheduler_proofs -----------------------
(* Proofs about the component scheduler: calls start in the order their       *)
(* patches, predecessors and batches demand, a held proposal is fresh or      *)
(* stale, and a batch is maximal, for any declarations and any callers.       *)
EXTENDS ComponentScheduler, ComponentCompatibility_proofs, SequenceTheorems

\* Of two calls on a patch the later one waits for the earlier one, or for one
\* between them.
EdgeOnPatch ==
  \A i, j \in DOMAIN submitted, p \in Patches :
    (i < j /\ p \in PatchesOf(submitted[i]) /\ p \in PatchesOf(submitted[j])) =>
      \E k \in DOMAIN submitted : /\ i =< k /\ k < j /\ p \in PatchesOf(submitted[k])
                                  /\ submitted[k] \in after[submitted[j]]

\* The last call of a patch is not before any other one on it.
LastOnPatch ==
  \A i \in DOMAIN submitted, p \in Patches :
    p \in PatchesOf(submitted[i]) =>
      \E k \in DOMAIN submitted : /\ i =< k /\ p \in PatchesOf(submitted[k])
                                  /\ lastPatch[p] = submitted[k]

\* What is running or over was started, and not after its end.
StartedCalls ==
  /\ Started = Running \cup Completed
  /\ \A n \in Running : running[n] = StartOf(n)
  /\ \A n \in Completed : StartOf(n) =< completed[n]

\* A proposal is of an earlier revision, or still the scheduler's choice.
HeldProposal ==
  proposal # None =>
    /\ proposal.revision =< revision
    /\ proposal.revision = revision => Choice(proposal.start, proposal.nodes)

\* The inductive invariant.
SchedulerInv ==
  /\ CallsInOrder /\ EdgeOnPatch /\ LastOnPatch /\ StartedCalls /\ HeldProposal
  /\ Acyclic(Known, after)
-----------------------------------------------------------------------------
(* What the state says.                                                      *)

LEMMA Shape ==
  ASSUME TypeOK
  PROVE  /\ Len(submitted) \in Nat /\ DOMAIN submitted = 1..Len(submitted)
         /\ \A i \in DOMAIN submitted : submitted[i] \in Nodes
         /\ Known \in SUBSET Nodes /\ IsFiniteSet(Known)
         /\ Len(admissions) \in Nat /\ DOMAIN admissions = 1..Len(admissions)
         /\ \A k \in DOMAIN admissions : admissions[k] \in Batches
         /\ Started \in SUBSET Nodes
<1>1. /\ Len(submitted) \in Nat /\ DOMAIN submitted = 1..Len(submitted)
      /\ \A i \in DOMAIN submitted : submitted[i] \in Nodes
  BY LenProperties, ElementOfSeq DEF TypeOK
<1>2. Known \in SUBSET Nodes
  BY <1>1 DEF Known
<1>3. IsFiniteSet(Known)
  <2>1. IsFiniteSet(1..Len(submitted))
    BY <1>1, FS_Interval
  <2>2. submitted \in Surjection(DOMAIN submitted, Known)
    BY <1>1 DEF TypeOK, Known, Surjection
  <2> QED BY <1>1, <2>1, <2>2, FS_Surjection
<1>4. /\ Len(admissions) \in Nat /\ DOMAIN admissions = 1..Len(admissions)
      /\ \A k \in DOMAIN admissions : admissions[k] \in Batches
  BY LenProperties, ElementOfSeq DEF TypeOK
<1>5. Started \in SUBSET Nodes
  BY <1>4 DEF Started, Batches
<1> QED BY <1>1, <1>2, <1>3, <1>4, <1>5

\* What ended before a time has ended.
LEMMA EndedBefore ==
  ASSUME TypeOK, NEW t \in Time, NEW n \in Nodes, completed[n] =< t
  PROVE  n \in Completed
BY SchedulerAssumption DEF TypeOK, Completed, Never, Time, TimeOrNever

\* A started call is in one batch, and its start is that of the batch.
LEMMA BatchOfStarted ==
  ASSUME TypeOK, LockstepBatches, NEW n \in Started
  PROVE  /\ \E k \in DOMAIN admissions : n \in admissions[k].nodes /\ StartOf(n) = admissions[k].start
         /\ \A k \in DOMAIN admissions : n \in admissions[k].nodes => StartOf(n) = admissions[k].start
         /\ StartOf(n) \in Time
<1>1. DOMAIN admissions \subseteq Nat
  BY Shape
<1>2. \A k, l \in DOMAIN admissions :
        n \in admissions[k].nodes /\ n \in admissions[l].nodes => k = l
  BY <1>1 DEF LockstepBatches
<1>3. \E k \in DOMAIN admissions : n \in admissions[k].nodes
  BY DEF Started
<1>4. \A k \in DOMAIN admissions : n \in admissions[k].nodes => StartOf(n) = admissions[k].start
  BY <1>2, <1>3 DEF StartOf
<1> QED BY <1>3, <1>4, Shape DEF Batches

\* A step that leaves the graph and the batches alone, forgets no end, no start
\* and no release, keeps the order of the calls.
LEMMA OrderKept ==
  ASSUME SchedulerInv, TypeOK', UNCHANGED <<graph, admissions>>, Running' \subseteq Running,
         \A n \in Completed : completed'[n] = completed[n],
         \A g \in Gates : released[g] # Never => released'[g] = released[g],
         \A n \in Running' : running'[n] = running[n],
         \A n \in Completed' \ Completed : n \in Running /\ completed'[n] >= running[n],
         Running \cup Completed = Running' \cup Completed', HeldProposal'
  PROVE  SchedulerInv'
<1> USE DEF SchedulerInv, CallsInOrder
<1>1. /\ submitted' = submitted /\ after' = after /\ lastPatch' = lastPatch
      /\ admissions' = admissions
  BY DEF graph
<1>2. Started' = Started /\ Known' = Known /\ \A n : StartOf(n)' = StartOf(n)
  BY <1>1 DEF Started, StartOf, Known
<1>3. \A n \in Nodes, t \in Time : completed[n] =< t => completed'[n] =< t
  BY EndedBefore
<1>4. \A n \in Started : StartOf(n) \in Time
  BY BatchOfStarted
<1>5. PatchOrder'
  <2>1. \A i \in DOMAIN submitted : submitted[i] \in Nodes
    BY Shape
  <2> QED BY <1>1, <1>2, <1>3, <1>4, <2>1 DEF PatchOrder
<1>6. PrerequisitesMet'
  <2>1. ASSUME NEW n \in Started, NEW m \in after[n] PROVE completed'[m] =< StartOf(n)
    <3>1. m \in Nodes /\ completed[m] =< StartOf(n)
      BY <2>1, Shape DEF TypeOK, PrerequisitesMet
    <3> QED BY <3>1, <1>3, <1>4
  <2>2. ASSUME NEW n \in Started, NEW g \in Declared[n].gates PROVE released'[g] =< StartOf(n)
    <3>1. released[g] =< StartOf(n) /\ g \in Gates
      BY <2>2, Shape, SchedulerAssumption DEF PrerequisitesMet
    <3>2. released[g] # Never
      BY <3>1, <1>4, SchedulerAssumption DEF Time, Never
    <3> QED BY <3>1, <3>2
  <2> QED BY <1>1, <1>2, <2>1, <2>2 DEF PrerequisitesMet
<1>7. LockstepBatches'
  <2>1. ASSUME NEW k \in DOMAIN admissions, NEW l \in DOMAIN admissions, k < l,
               NEW n \in admissions[k].nodes
        PROVE  n \notin admissions[l].nodes /\ completed'[n] =< admissions[l].start
    <3>1. n \in Nodes /\ admissions[l].start \in Time
      BY Shape DEF Batches
    <3> QED BY <2>1, <3>1, <1>3 DEF LockstepBatches
  <2>2. Running' # {} => Running' \subseteq admissions[Len(admissions)].nodes
    BY DEF LockstepBatches
  <2> QED BY <1>1, <2>1, <2>2 DEF LockstepBatches
<1>8. StartedCalls'
  <2>1. Started' = Running' \cup Completed'
    BY <1>2 DEF StartedCalls
  <2>2. \A n \in Running' : running'[n] = StartOf(n)
    BY DEF StartedCalls
  <2>3. \A n \in Completed' : StartOf(n) =< completed'[n]
    BY DEF StartedCalls
  <2> QED BY <1>2, <2>1, <2>2, <2>3 DEF StartedCalls
<1>9. EdgeOnPatch'
  BY <1>1 DEF EdgeOnPatch
<1>10. LastOnPatch'
  BY <1>1 DEF LastOnPatch
<1>11. Acyclic(Known, after)'
  BY <1>1, <1>2 DEF Acyclic
<1> QED BY <1>5, <1>6, <1>7, <1>8, <1>9, <1>10, <1>11

\* A step that makes a new revision leaves a proposal stale.
LEMMA RevisionMakesStale ==
  ASSUME TypeOK, HeldProposal, revision' = revision + 1, proposal' = proposal
  PROVE  HeldProposal'
BY DEF TypeOK, HeldProposal, Batches

-----------------------------------------------------------------------------
(* The steps.                                                                *)

LEMMA AdmitKeeps ==
  ASSUME SchedulerInv, NEW now \in Time, Admit(now)
  PROVE  SchedulerInv'
<1>1. PICK S \in SUBSET Frontier(now) :
        Choice(now, S) /\ proposal' = [nodes |-> S, start |-> now, revision |-> revision]
  BY DEF Admit
<1>2. UNCHANGED <<graph, progress, released, admissions, revision>>
  BY DEF Admit
<1>3. Running' = Running /\ Completed' = Completed /\ Cancelled' = Cancelled /\ Known' = Known
  BY <1>2 DEF Running, Completed, Cancelled, Known, progress, graph
<1>4. Choice(now, S)'
  BY <1>1, <1>2, <1>3 DEF Choice, MayAdmit, Frontier, graph, progress
<1>5. proposal'.nodes = S /\ proposal'.start = now /\ proposal'.revision = revision
  BY <1>1
<1>6. HeldProposal'
  <2>1. revision' = revision /\ revision \in Nat
    BY <1>2 DEF SchedulerInv, CallsInOrder, TypeOK
  <2> QED BY <1>4, <1>5, <2>1 DEF HeldProposal
<1>7. TypeOK'
  <2>1. S \in SUBSET Nodes
    BY Shape DEF Frontier, SchedulerInv, CallsInOrder
  <2>2. proposal' \in Batches
    BY <1>1, <2>1 DEF Batches, SchedulerInv, CallsInOrder, TypeOK
  <2> QED BY <1>2, <1>3, <2>2 DEF SchedulerInv, CallsInOrder, TypeOK, graph, progress
<1> QED BY <1>2, <1>3, <1>6, <1>7, OrderKept DEF graph, progress

\* mark_completed keeps the invariant: its node has run its time.
LEMMA MarkCompletedKeeps ==
  ASSUME SchedulerInv, NEW n \in Nodes, NEW end \in Time, MarkCompleted(n, end)
  PROVE  SchedulerInv'
<1>1. /\ n \in Running /\ n \notin Completed /\ end >= running[n]
      /\ completed' = [completed EXCEPT ![n] = end] /\ running' = [running EXCEPT ![n] = Never]
      /\ revision' = revision + 1
      /\ UNCHANGED <<graph, cancelled, released, admissions, proposal>>
  BY DEF MarkCompleted
<1>2. TypeOK /\ HeldProposal
  BY DEF SchedulerInv, CallsInOrder
<1>3. end # Never /\ end \in TimeOrNever /\ Never \in TimeOrNever
  BY SchedulerAssumption DEF Time, Never, TimeOrNever
<1>4. /\ Running' = Running \ {n} /\ Completed' = Completed \cup {n}
      /\ Cancelled' = Cancelled /\ Known' = Known
  BY <1>1, <1>2, <1>3 DEF TypeOK, Running, Completed, Cancelled, Known, graph
<1>5. TypeOK'
  BY <1>1, <1>2, <1>3, <1>4 DEF TypeOK, graph
<1>6. HeldProposal'
  BY <1>1, <1>2, RevisionMakesStale
<1>7. /\ \A m \in Completed : completed'[m] = completed[m]
      /\ \A m \in Running' : running'[m] = running[m]
      /\ completed'[n] = end
  BY <1>1, <1>2, <1>4 DEF TypeOK, Running, Completed
<1> QED BY <1>1, <1>4, <1>5, <1>6, <1>7, OrderKept

\* cancel_pending keeps the invariant: it cancels nothing that has started.
LEMMA CancelPendingKeeps ==
  ASSUME SchedulerInv, NEW nodes \in SUBSET Nodes, NEW reason \in Reasons, CancelPending(nodes, reason)
  PROVE  SchedulerInv'
<1>1. /\ nodes \subseteq Known \ (Running \cup Completed)
      /\ cancelled' = [n \in Nodes |-> IF n \in nodes THEN reason ELSE cancelled[n]]
      /\ revision' = revision + 1
      /\ UNCHANGED <<graph, running, completed, released, admissions, proposal>>
  BY DEF CancelPending
<1>2. TypeOK /\ HeldProposal
  BY DEF SchedulerInv, CallsInOrder
<1>3. /\ Running' = Running /\ Completed' = Completed /\ Known' = Known
      /\ Cancelled' \subseteq Cancelled \cup nodes
  BY <1>1 DEF Running, Completed, Cancelled, Known, graph
<1>4. TypeOK'
  BY <1>1, <1>2, <1>3 DEF TypeOK, graph
<1>5. HeldProposal'
  BY <1>1, <1>2, RevisionMakesStale
<1> QED BY <1>1, <1>3, <1>4, <1>5, OrderKept

\* A barrier's release, recorded once and not before now, keeps the invariant.
LEMMA ReleaseKeeps ==
  ASSUME SchedulerInv, NEW g \in Gates, NEW ready \in Time, Release(g, ready)
  PROVE  SchedulerInv'
<1>1. /\ released[g] = Never /\ released' = [released EXCEPT ![g] = ready]
      /\ revision' = revision + 1
      /\ UNCHANGED <<graph, progress, admissions, proposal>>
  BY DEF Release
<1>2. TypeOK /\ HeldProposal
  BY DEF SchedulerInv, CallsInOrder
<1>3. Running' = Running /\ Completed' = Completed /\ Known' = Known /\ Cancelled' = Cancelled
  BY <1>1 DEF Running, Completed, Cancelled, Known, graph, progress
<1>4. ready \in TimeOrNever
  BY SchedulerAssumption DEF Time, Never, TimeOrNever
<1>5. TypeOK'
  BY <1>1, <1>2, <1>3, <1>4 DEF TypeOK, graph, progress
<1>6. HeldProposal'
  BY <1>1, <1>2, RevisionMakesStale
<1>7. \A h \in Gates : released[h] # Never => released'[h] = released[h]
  BY <1>1, <1>2 DEF TypeOK
<1> QED BY <1>1, <1>3, <1>5, <1>6, <1>7, OrderKept DEF progress

\* The latest of the first m nodes of seq on a patch, if there is one.
LEMMA LatestOn ==
  ASSUME NEW k \in Nat, NEW seq \in [1..k -> Nodes], NEW m \in 0..k, NEW p \in Patches
  PROVE  \/ /\ \A i \in 1..m : p \notin PatchesOf(seq[i])
            /\ LastOn(p, seq, m) = lastPatch[p]
         \/ \E i \in 1..m : /\ p \in PatchesOf(seq[i]) /\ LastOn(p, seq, m) = seq[i]
                            /\ \A j \in 1..m : p \in PatchesOf(seq[j]) => j =< i
<1> DEFINE on == {i \in 1..m : p \in PatchesOf(seq[i])}
           before == {q \in (1..m) \X (1..m) : q[1] > q[2]}
<1>1. CASE on = {}
  BY <1>1 DEF LastOn
<1>2. CASE on # {}
  <2>1. IsFiniteSet(on)
    BY FS_Interval, FS_Subset
  <2>2. \A x, y \in 1..m : <<x, y>> \in before <=> x > y
    OBVIOUS
  <2>3. /\ \A x \in on : <<x, x>> \notin before
        /\ \A x, y, z \in on : <<x, y>> \in before /\ <<y, z>> \in before => <<x, z>> \in before
    <3>1. \A x \in on : x \in 1..m
      OBVIOUS
    <3> HIDE DEF on, before
    <3> QED BY <2>2, <3>1
  <2>4. \E i \in on : \A j \in on : <<j, i>> \notin before
    <3> HIDE DEF on, before
    <3> QED BY <1>2, <2>1, <2>3, LeastElement
  <2>5. \E i \in on : \A j \in on : j =< i
    <3>1. PICK i \in on : \A j \in on : <<j, i>> \notin before
      BY <2>4
    <3>2. \A j \in on : ~(j > i)
      <4> HIDE DEF before
      <4> QED BY <2>2, <3>1
    <3> QED BY <3>2
  <2> DEFINE i == CHOOSE i \in on : \A j \in on : j =< i
  <2>6. i \in on /\ \A j \in on : j =< i
    BY <2>5
  <2>7. LastOn(p, seq, m) = seq[i]
    BY <1>2 DEF LastOn
  <2> HIDE DEF i
  <2> QED BY <2>6, <2>7
<1> QED BY <1>1, <1>2

\* The nodes of a submission are as many as it is long only if they differ.
LEMMA SubmissionInjective ==
  ASSUME NEW k \in Nat, NEW seq \in [1..k -> Nodes],
         Cardinality({seq[i] : i \in DOMAIN seq}) = Len(seq)
  PROVE  /\ seq \in Seq(Nodes) /\ Len(seq) = k
         /\ \A i, j \in 1..k : seq[i] = seq[j] => i = j
<1>1. seq \in Seq(Nodes) /\ Len(seq) = k
  BY SeqDef
<1> DEFINE new == {seq[i] : i \in DOMAIN seq}
<1>2. IsFiniteSet(1..k) /\ Cardinality(1..k) = k
  BY FS_Interval
<1>3. seq \in Surjection(1..k, new)
  BY DEF Surjection
<1>4. seq \in Injection(1..k, new)
  BY <1>1, <1>2, <1>3, FS_Surjection
<1> QED BY <1>1, <1>4 DEF Injection, IsInjective

\* add keeps the invariant: the new node and its gates are new, so no batch that
\* is held or running names them.
LEMMA AddKeeps ==
  ASSUME SchedulerInv, NEW k \in 1..MaxSubmission, NEW seq \in [1..k -> Nodes], Add(seq)
  PROVE  SchedulerInv'
<1> DEFINE new == {seq[i] : i \in DOMAIN seq}
           pred == [n \in Nodes |->
                     IF n \in new
                     THEN Predecessors(seq, CHOOSE i \in DOMAIN seq : seq[i] = n)
                     ELSE after[n]]
           L == Len(submitted)
<1> USE DEF SchedulerInv, CallsInOrder
<1>1. /\ new \cap Known = {} /\ Acyclic(Known \cup new, pred)
      /\ submitted' = submitted \o seq /\ after' = pred
      /\ lastPatch' = [p \in Patches |-> LastOn(p, seq, Len(seq))]
      /\ revision' = revision + 1 /\ Cardinality(new) = Len(seq)
      /\ UNCHANGED <<progress, released, admissions, proposal>>
  BY DEF Add
<1>2. k \in Nat /\ seq \in Seq(Nodes) /\ Len(seq) = k /\ DOMAIN seq = 1..k
      /\ \A i, j \in 1..k : seq[i] = seq[j] => i = j
  <2>1. k \in Nat
    BY SchedulerAssumption
  <2> QED BY <2>1, <1>1, SubmissionInjective
<1>3. /\ submitted' \in Seq(Nodes) /\ DOMAIN submitted' = 1..(L + k) /\ L \in Nat
      /\ DOMAIN submitted = 1..L
      /\ \A i \in 1..L : submitted'[i] = submitted[i] /\ submitted[i] \in Known
      /\ \A i \in 1..(L + k) : i > L => i - L \in 1..k /\ submitted'[i] = seq[i - L]
  <2>1. submitted \in Seq(Nodes)
    BY DEF TypeOK
  <2>2. /\ submitted' \in Seq(Nodes) /\ Len(submitted') = L + k /\ L \in Nat
        /\ \A i \in 1..L + k : submitted'[i] = IF i <= L THEN submitted[i] ELSE seq[i - L]
    BY <1>1, <1>2, <2>1, ConcatProperties, LenProperties
  <2>3. DOMAIN submitted' = 1..(L + k) /\ DOMAIN submitted = 1..L
    BY <2>1, <2>2, LenProperties
  <2>4. \A i \in 1..L : submitted[i] \in Known
    BY <2>3 DEF Known
  <2> HIDE DEF L
  <2> QED BY <1>2, <2>2, <2>3, <2>4
<1>4. Known' = Known \cup new /\ Known \subseteq Nodes /\ new \subseteq Nodes
  <2>1. \A i \in 1..k : L + i \in 1..(L + k) /\ submitted'[L + i] = seq[i]
    BY <1>2, <1>3
  <2>2. \A n \in new : \E i \in 1..k : n = seq[i]
    BY <1>2
  <2>3. new \subseteq Known'
    BY <1>3, <2>1, <2>2 DEF Known
  <2>4. Known \subseteq Known'
    <3>1. \A i \in 1..L : i \in 1..(L + k)
      BY <1>2, <1>3
    <3> QED BY <1>3, <3>1 DEF Known
  <2>5. \A i \in 1..(L + k) : submitted'[i] \in Known \cup new
    <3> SUFFICES ASSUME NEW i \in 1..(L + k) PROVE submitted'[i] \in Known \cup new
      OBVIOUS
    <3>1. CASE i =< L
      BY <1>3, <3>1
    <3>2. CASE i > L
      BY <1>2, <1>3, <3>2
    <3> QED BY <3>1, <3>2, <1>3
  <2>6. Known' \subseteq Known \cup new
    <3> HIDE DEF new, L
    <3> QED BY <1>3, <2>5 DEF Known
  <2> QED BY <2>3, <2>4, <2>6, <1>2, Shape
<1>5. /\ Running' = Running /\ Completed' = Completed /\ Cancelled' = Cancelled
      /\ running' = running /\ completed' = completed /\ cancelled' = cancelled
  BY <1>1 DEF Running, Completed, Cancelled, progress
<1>6. Started' = Started /\ (\A n : StartOf(n)' = StartOf(n)) /\ Started \subseteq Known
  <2>1. Started' = Started /\ \A n : StartOf(n)' = StartOf(n)
    BY <1>1 DEF Started, StartOf
  <2>2. Started \subseteq Known
    BY DEF StartedCalls, TypeOK
  <2> QED BY <2>1, <2>2
<1>7. \A n \in Known : after'[n] = after[n]
  BY <1>1, <1>4
<1>8. \A j \in 1..k : after'[seq[j]] = Predecessors(seq, j)
  <2> SUFFICES ASSUME NEW j \in 1..k PROVE pred[seq[j]] = Predecessors(seq, j)
    BY <1>1
  <2>1. (CHOOSE i \in DOMAIN seq : seq[i] = seq[j]) = j
    BY <1>2
  <2>2. seq[j] \in new
    BY <1>2
  <2> HIDE DEF new
  <2> QED BY <2>1, <2>2
<1>9. \A i \in DOMAIN submitted : submitted[i] # None /\ submitted[i] \in Nodes
  BY Shape, SchedulerAssumption
<1>10. \A j \in 1..k : seq[j] # None
  BY SchedulerAssumption
<1>11. ASSUME NEW p \in Patches, NEW m \in 0..k
       PROVE  LastOn(p, seq, m) \in Nodes \cup {None}
  <2>1. \A i \in 1..m : seq[i] \in Nodes
    BY <1>2
  <2>2. lastPatch[p] \in Nodes \cup {None}
    BY DEF TypeOK
  <2> QED BY <1>2, <2>1, <2>2, LatestOn
<1>12. ASSUME NEW p \in Patches, NEW m \in 0..k, NEW i \in 1..(L + m),
              p \in PatchesOf(submitted'[i])
       PROVE  \E h \in 1..(L + m) : /\ i =< h /\ p \in PatchesOf(submitted'[h])
                                    /\ LastOn(p, seq, m) = submitted'[h]
  <2>0. /\ i \in 1..(L + k)
        /\ \A x \in 1..m : x \in 1..k /\ L + x \in 1..(L + m) /\ submitted'[L + x] = seq[x]
    <3>1. i \in 1..(L + k)
      BY <1>2, <1>3
    <3>2. ASSUME NEW x \in 1..m
          PROVE  x \in 1..k /\ L + x \in 1..(L + m) /\ submitted'[L + x] = seq[x]
      <4>1. x \in 1..k /\ L + x \in 1..(L + m) /\ L + x \in 1..(L + k) /\ L + x > L
            /\ (L + x) - L = x
        BY <1>2, <1>3
      <4> HIDE DEF L
      <4> QED BY <1>3, <4>1
    <3> QED BY <3>1, <3>2
  <2>1. CASE \E x \in 1..m : /\ p \in PatchesOf(seq[x]) /\ LastOn(p, seq, m) = seq[x]
                             /\ \A j \in 1..m : p \in PatchesOf(seq[j]) => j =< x
    <3>1. PICK x \in 1..m : /\ p \in PatchesOf(seq[x]) /\ LastOn(p, seq, m) = seq[x]
                            /\ \A j \in 1..m : p \in PatchesOf(seq[j]) => j =< x
      BY <2>1
    <3>2. i =< L + x
      <4>1. CASE i =< L
        BY <4>1, <1>3
      <4>2. CASE i > L
        <5>1. i - L \in 1..m /\ p \in PatchesOf(seq[i - L])
          BY <1>3, <1>12, <2>0, <4>2
        <5> QED BY <3>1, <5>1, <1>3
      <4> QED BY <4>1, <4>2, <1>3
    <3> QED BY <2>0, <3>1, <3>2
  <2>2. CASE /\ \A x \in 1..m : p \notin PatchesOf(seq[x])
             /\ LastOn(p, seq, m) = lastPatch[p]
    <3>1. i =< L
      <4> SUFFICES ASSUME i > L PROVE FALSE
        BY <1>3
      <4>1. i - L \in 1..m /\ p \in PatchesOf(seq[i - L])
        BY <1>3, <1>12, <2>0
      <4> QED BY <4>1, <2>2
    <3>2. i \in 1..L /\ p \in PatchesOf(submitted[i])
      BY <1>3, <1>12, <3>1
    <3>3. PICK h \in 1..L : i =< h /\ p \in PatchesOf(submitted[h]) /\ lastPatch[p] = submitted[h]
      BY <1>3, <3>2 DEF LastOnPatch
    <3>4. h \in 1..(L + m) /\ submitted'[h] = submitted[h]
      BY <1>3
    <3> QED BY <2>2, <3>3, <3>4
  <2>3. \/ /\ \A x \in 1..m : p \notin PatchesOf(seq[x])
           /\ LastOn(p, seq, m) = lastPatch[p]
        \/ \E x \in 1..m : /\ p \in PatchesOf(seq[x]) /\ LastOn(p, seq, m) = seq[x]
                           /\ \A j \in 1..m : p \in PatchesOf(seq[j]) => j =< x
    BY <1>2, LatestOn
  <2> QED BY <2>1, <2>2, <2>3
<1>13. LastOnPatch'
  <2> SUFFICES ASSUME NEW i \in DOMAIN submitted', NEW p \in Patches,
                      p \in PatchesOf(submitted'[i])
               PROVE  \E h \in DOMAIN submitted' : /\ i =< h /\ p \in PatchesOf(submitted'[h])
                                                   /\ lastPatch'[p] = submitted'[h]
    BY DEF LastOnPatch
  <2>1. lastPatch'[p] = LastOn(p, seq, k) /\ k \in 0..k
    BY <1>1, <1>2
  <2>2. i \in 1..(L + k)
    BY <1>3
  <2>3. \E h \in 1..(L + k) : /\ i =< h /\ p \in PatchesOf(submitted'[h])
                              /\ LastOn(p, seq, k) = submitted'[h]
    <3> HIDE DEF L
    <3> QED BY <1>12, <2>1, <2>2
  <2> QED BY <1>3, <2>1, <2>3
<1>14. EdgeOnPatch'
  <2> SUFFICES ASSUME NEW i \in 1..(L + k), NEW j \in 1..(L + k), NEW p \in Patches, i < j,
                      p \in PatchesOf(submitted'[i]), p \in PatchesOf(submitted'[j])
               PROVE  \E h \in 1..(L + k) : /\ i =< h /\ h < j /\ p \in PatchesOf(submitted'[h])
                                            /\ submitted'[h] \in after'[submitted'[j]]
    BY <1>3 DEF EdgeOnPatch
  <2>1. CASE j =< L
    <3>1. i \in 1..L /\ j \in 1..L
      BY <1>3, <2>1
    <3>2. PICK h \in 1..L : /\ i =< h /\ h < j /\ p \in PatchesOf(submitted[h])
                            /\ submitted[h] \in after[submitted[j]]
      BY <1>3, <3>1 DEF EdgeOnPatch
    <3>3. h \in 1..(L + k) /\ submitted'[h] = submitted[h]
          /\ after'[submitted'[j]] = after[submitted[j]]
      BY <1>2, <1>3, <1>7, <3>1
    <3> QED BY <3>2, <3>3
  <2>2. CASE j > L
    <3> DEFINE m == j - L - 1
    <3>1. j - L \in 1..k /\ submitted'[j] = seq[j - L] /\ m \in 0..k /\ i \in 1..(L + m)
      BY <1>2, <1>3, <2>2
    <3>2. PICK h \in 1..(L + m) : /\ i =< h /\ p \in PatchesOf(submitted'[h])
                                  /\ LastOn(p, seq, m) = submitted'[h]
      <4> HIDE DEF L, m
      <4> QED BY <1>12, <3>1
    <3>3. h \in 1..(L + k) /\ h < j
      BY <1>2, <1>3, <3>1
    <3>4. submitted'[h] # None
      BY <3>3, <1>3, ElementOfSeq, SchedulerAssumption
    <3>5. after'[submitted'[j]] = Predecessors(seq, j - L)
      BY <1>8, <3>1
    <3>6. LastOn(p, seq, m) \in Predecessors(seq, j - L)
      BY <3>1, <3>2, <3>4 DEF Predecessors
    <3> QED BY <3>2, <3>3, <3>5, <3>6
  <2> QED BY <2>1, <2>2, <1>3
<1>15. PatchOrder'
  <2> SUFFICES ASSUME NEW i \in 1..(L + k), NEW j \in 1..(L + k), i < j,
                      PatchesOf(submitted'[i]) \cap PatchesOf(submitted'[j]) # {},
                      submitted'[j] \in Started
               PROVE  completed[submitted'[i]] =< StartOf(submitted'[j])
    BY <1>3, <1>5, <1>6 DEF PatchOrder
  <2>1. j =< L
    <3> SUFFICES ASSUME j > L PROVE FALSE
      BY <1>3
    <3>1. submitted'[j] \in new
      BY <1>2, <1>3
    <3> QED BY <3>1, <1>1, <1>6
  <2>2. i \in 1..L /\ j \in 1..L
    BY <2>1, <1>3
  <2> QED BY <2>2, <1>3 DEF PatchOrder
<1>16. PrerequisitesMet'
  <2>1. released' = released
    BY <1>1
  <2> QED BY <1>5, <1>6, <1>7, <2>1 DEF PrerequisitesMet
<1>17. LockstepBatches' /\ StartedCalls'
  <2>1. admissions' = admissions
    BY <1>1
  <2>2. LockstepBatches'
    BY <1>5, <2>1 DEF LockstepBatches
  <2>3. StartedCalls'
    BY <1>5, <1>6 DEF StartedCalls
  <2> QED BY <2>2, <2>3
<1>18. TypeOK'
  <2>1. after' \in [Nodes -> SUBSET Nodes]
    <3>1. \A n \in Nodes : after'[n] \in SUBSET Nodes
      <4> SUFFICES ASSUME NEW n \in Nodes PROVE after'[n] \in SUBSET Nodes
        OBVIOUS
      <4>1. CASE n \in new
        <5>1. PICK j \in 1..k : n = seq[j]
          BY <4>1, <1>2
        <5>2. PatchesOf(n) \subseteq Patches /\ Declared[n].after \subseteq Nodes
          BY SchedulerAssumption DEF PatchesOf
        <5>3. j - 1 \in 0..k
          BY <1>2
        <5>4. Predecessors(seq, j) \in SUBSET Nodes
          BY <5>1, <5>2, <5>3, <1>11 DEF Predecessors
        <5> QED BY <5>1, <5>4, <1>8
      <4>2. CASE n \notin new
        BY <4>2, <1>1 DEF TypeOK
      <4> QED BY <4>1, <4>2
    <3> QED BY <1>1, <3>1
  <2>2. lastPatch' \in [Patches -> Nodes \cup {None}]
    <3>1. \A p \in Patches : LastOn(p, seq, k) \in Nodes \cup {None}
      <4>1. k \in 0..k
        BY <1>2
      <4> QED BY <4>1, <1>11
    <3> QED BY <1>1, <1>2, <3>1
  <2> QED BY <1>1, <1>3, <1>4, <1>5, <2>1, <2>2 DEF TypeOK
<1>19. HeldProposal'
  BY <1>1, RevisionMakesStale
<1>20. Acyclic(Known, after)'
  <2>1. Acyclic(Known', after')
    <3> HIDE DEF new, pred
    <3> QED BY <1>1, <1>4
  <2> QED BY <2>1 DEF Acyclic
<1> QED BY <1>13, <1>14, <1>15, <1>16, <1>17, <1>18, <1>19, <1>20

\* commit keeps the invariant: the proposal it starts is of this version.
LEMMA CommitKeeps ==
  ASSUME SchedulerInv, CommitAdmission
  PROVE  SchedulerInv'
<1> DEFINE now == proposal.start
           S == proposal.nodes
           last == Len(admissions) + 1
<1> USE DEF SchedulerInv, CallsInOrder
<1>1. /\ proposal # None /\ Choice(now, S)
      /\ running' = [n \in Nodes |-> IF n \in S THEN now ELSE running[n]]
      /\ admissions' = Append(admissions, proposal) /\ revision' = revision + 1
      /\ UNCHANGED <<graph, completed, cancelled, released, proposal>>
  BY DEF CommitAdmission
<1>2. proposal \in Batches /\ now \in Time /\ S \in SUBSET Nodes
  BY <1>1 DEF TypeOK, Batches
<1>3. /\ Running = {} /\ \A n \in Completed : completed[n] =< now
      /\ S \subseteq Known \ (Running \cup Completed \cup Cancelled)
      /\ \A n \in S : /\ \A m \in after[n] : completed[m] =< now
                      /\ \A g \in Declared[n].gates : released[g] =< now
  BY <1>1 DEF Choice, MayAdmit, Frontier, Greedy
<1>4. /\ DOMAIN admissions' = 1..last /\ last \in Nat /\ Len(admissions') = last
      /\ \A k \in DOMAIN admissions : k < last /\ k \in 1..last /\ admissions'[k] = admissions[k]
      /\ \A k \in 1..last : k \in DOMAIN admissions \/ k = last
      /\ admissions'[last] = proposal
      /\ admissions' \in Seq(Batches)
  <2>1. admissions \in Seq(Batches)
    BY DEF TypeOK
  <2> QED BY <1>1, <1>2, <2>1
<1>5. now # Never /\ now \in TimeOrNever
  BY <1>2, SchedulerAssumption DEF Time, Never, TimeOrNever
<1>6. Running' = S /\ Completed' = Completed /\ Cancelled' = Cancelled /\ Known' = Known
  <2>1. Running' = S
    BY <1>1, <1>2, <1>3, <1>5 DEF Running
  <2> QED BY <1>1, <2>1 DEF Completed, Cancelled, Known, graph
<1>7. UNCHANGED <<submitted, after, lastPatch, completed, cancelled, released>>
  BY <1>1 DEF graph
<1>8. Started = Completed
  BY <1>3 DEF StartedCalls
<1>9. Started' = Started \cup S
  BY <1>4 DEF Started
<1>10. TypeOK'
  <2>1. running' \in [Nodes -> TimeOrNever]
    BY <1>1, <1>5 DEF TypeOK
  <2>2. S \cap (Completed \cup Cancelled) = {}
    BY <1>3
  <2> QED BY <1>1, <1>3, <1>4, <1>6, <1>7, <2>1, <2>2 DEF TypeOK
<1>11. LockstepBatches'
  <2>1. ASSUME NEW k \in 1..last, NEW l \in 1..last, k < l, NEW n \in admissions'[k].nodes
        PROVE  n \notin admissions'[l].nodes /\ completed[n] =< admissions'[l].start
    <3>1. k \in DOMAIN admissions
      BY <1>4, <2>1
    <3>2. n \in admissions[k].nodes
      BY <1>4, <2>1, <3>1
    <3>3. CASE l \in DOMAIN admissions
      BY <1>4, <2>1, <3>1, <3>2, <3>3 DEF LockstepBatches
    <3>4. CASE l = last
      <4>1. n \in Completed
        BY <1>8, <3>1, <3>2 DEF Started
      <4> QED BY <1>3, <1>4, <3>4, <4>1
    <3> QED BY <1>4, <3>3, <3>4
  <2>2. Running' \subseteq admissions'[Len(admissions')].nodes
    BY <1>4, <1>6
  <2> QED BY <1>4, <1>7, <2>1, <2>2 DEF LockstepBatches
<1>12. \A n \in Started : StartOf(n)' = StartOf(n)
  <2> SUFFICES ASSUME NEW n \in Started PROVE StartOf(n)' = StartOf(n)
    OBVIOUS
  <2>1. PICK k \in DOMAIN admissions : n \in admissions[k].nodes /\ StartOf(n) = admissions[k].start
    BY BatchOfStarted
  <2>2. k \in 1..last /\ admissions'[k] = admissions[k] /\ n \in Started'
    BY <1>4, <1>9
  <2>3. StartOf(n)' = admissions'[k].start
    <3>1. \A l \in DOMAIN admissions' : n \in admissions'[l].nodes => l = k
      BY <1>4, <1>11, <2>1, <2>2 DEF LockstepBatches
    <3>2. (CHOOSE l \in DOMAIN admissions' : n \in admissions'[l].nodes) = k
      BY <1>4, <2>1, <2>2, <3>1
    <3> QED BY <3>2 DEF StartOf
  <2> QED BY <2>1, <2>2, <2>3
<1>13. \A n \in S : StartOf(n)' = now
  <2> SUFFICES ASSUME NEW n \in S PROVE StartOf(n)' = now
    OBVIOUS
  <2>1. \A l \in DOMAIN admissions' : n \in admissions'[l].nodes => l = last
    BY <1>4, <1>11 DEF LockstepBatches
  <2>2. (CHOOSE l \in DOMAIN admissions' : n \in admissions'[l].nodes) = last
    BY <1>4, <2>1
  <2> QED BY <2>2, <1>4 DEF StartOf
<1>14. StartedCalls'
  <2>1. Started' = Running' \cup Completed'
    BY <1>6, <1>8, <1>9
  <2>2. \A n \in Running' : running'[n] = StartOf(n)'
    BY <1>1, <1>2, <1>6, <1>13
  <2>3. \A n \in Completed' : StartOf(n)' =< completed'[n]
    BY <1>6, <1>7, <1>8, <1>12 DEF StartedCalls
  <2> QED BY <2>1, <2>2, <2>3 DEF StartedCalls
<1>15. PrerequisitesMet'
  <2>1. ASSUME NEW n \in Started'
        PROVE  /\ \A m \in after[n] : completed[m] =< StartOf(n)'
               /\ \A g \in Declared[n].gates : released[g] =< StartOf(n)'
    <3>1. CASE n \in Started
      BY <1>12, <3>1 DEF PrerequisitesMet
    <3>2. CASE n \in S
      BY <1>3, <1>13, <3>2
    <3> QED BY <1>9, <2>1, <3>1, <3>2
  <2> QED BY <1>7, <2>1 DEF PrerequisitesMet
<1>16. PatchOrder'
  <2> SUFFICES ASSUME NEW i \in DOMAIN submitted, NEW j \in DOMAIN submitted, i < j,
                      PatchesOf(submitted[i]) \cap PatchesOf(submitted[j]) # {},
                      NEW n \in Started', n = submitted[j]
               PROVE  completed[submitted[i]] =< StartOf(n)'
    BY <1>7 DEF PatchOrder, StartOf
  <2>1. CASE n \in Started
    <3>1. completed[submitted[i]] =< StartOf(n)
      BY <2>1 DEF PatchOrder
    <3> QED BY <1>12, <2>1, <3>1
  <2>2. CASE n \in S
    <3>1. PICK p \in PatchesOf(submitted[i]) : p \in PatchesOf(submitted[j])
      OBVIOUS
    <3>2. p \in Patches /\ submitted[i] \in Nodes
      BY <3>1, Shape, SchedulerAssumption DEF PatchesOf
    <3>3. PICK k \in DOMAIN submitted : /\ i =< k /\ k < j /\ p \in PatchesOf(submitted[k])
                                        /\ submitted[k] \in after[n]
      BY <3>1, <3>2 DEF EdgeOnPatch
    <3>4. completed[submitted[k]] =< now
      BY <1>3, <2>2, <3>3
    <3>5. CASE k = i
      BY <1>13, <2>2, <3>4, <3>5
    <3>6. CASE k # i
      <4>1. i < k /\ submitted[k] \in Nodes
        BY <3>3, <3>6, Shape
      <4>2. submitted[k] \in Completed
        BY <1>2, <3>4, <4>1, EndedBefore
      <4>3. completed[submitted[i]] =< StartOf(submitted[k])
        BY <1>8, <3>1, <3>3, <4>1, <4>2 DEF PatchOrder
      <4>4. StartOf(submitted[k]) =< completed[submitted[k]]
        BY <4>2 DEF StartedCalls
      <4>5. StartOf(submitted[k]) \in Time
        BY <1>8, <4>2, BatchOfStarted
      <4>6. completed[submitted[k]] \in TimeOrNever /\ completed[submitted[i]] \in TimeOrNever
        BY <3>2, <4>1 DEF TypeOK
      <4>7. \A t \in Time : t \in Int
        BY DEF Time
      <4>8. \A t \in TimeOrNever : t \in Int
        BY DEF TimeOrNever
      <4>9. completed[submitted[i]] =< now
        BY <1>2, <3>4, <4>3, <4>4, <4>5, <4>6, <4>7, <4>8
      <4> QED BY <1>13, <2>2, <4>9
    <3> QED BY <3>5, <3>6
  <2> QED BY <1>9, <2>1, <2>2
<1>17. HeldProposal'
  BY <1>1, RevisionMakesStale
<1>18. EdgeOnPatch'
  BY <1>7 DEF EdgeOnPatch
<1>19. LastOnPatch'
  BY <1>7 DEF LastOnPatch
<1>20. Acyclic(Known, after)'
  BY <1>6, <1>7 DEF Acyclic
<1> QED BY <1>10, <1>11, <1>14, <1>15, <1>16, <1>17, <1>18, <1>19, <1>20

-----------------------------------------------------------------------------
(* The specification.                                                        *)

LEMMA SchedulerInit == ASSUME Init PROVE SchedulerInv
<1> USE DEF Init
<1>1. /\ submitted = <<>> /\ DOMAIN submitted = {} /\ submitted \in Seq(Nodes)
      /\ admissions = <<>> /\ DOMAIN admissions = {} /\ admissions \in Seq(Batches)
  OBVIOUS
<1>2. Known = {} /\ Started = {} /\ Running = {} /\ Completed = {} /\ Cancelled = {}
  BY <1>1 DEF Known, Started, Running, Completed, Cancelled
<1>3. Never \in TimeOrNever
  BY SchedulerAssumption DEF Never, TimeOrNever
<1>4. TypeOK
  <2>1. /\ after \in [Nodes -> SUBSET Nodes] /\ lastPatch \in [Patches -> Nodes \cup {None}]
        /\ running \in [Nodes -> TimeOrNever] /\ completed \in [Nodes -> TimeOrNever]
        /\ cancelled \in [Nodes -> Reasons \cup {None}] /\ released \in [Gates -> TimeOrNever]
        /\ revision \in Nat /\ proposal \in Batches \cup {None}
    BY <1>3
  <2> QED BY <1>1, <1>2, <2>1 DEF TypeOK
<1>5. PatchOrder /\ PrerequisitesMet /\ LockstepBatches
  BY <1>1, <1>2 DEF PatchOrder, PrerequisitesMet, LockstepBatches
<1>6. EdgeOnPatch /\ LastOnPatch /\ StartedCalls /\ HeldProposal
  BY <1>1, <1>2 DEF EdgeOnPatch, LastOnPatch, StartedCalls, HeldProposal
<1>7. Acyclic(Known, after)
  BY <1>2 DEF Acyclic
<1> QED BY <1>4, <1>5, <1>6, <1>7 DEF SchedulerInv, CallsInOrder

\* Every call of the scheduler keeps the invariant.
LEMMA SchedulerStep == ASSUME SchedulerInv, [Next]_vars PROVE SchedulerInv'
<1>1. ASSUME NEW k \in 1..MaxSubmission, NEW seq \in [1..k -> Nodes], Add(seq)
      PROVE  SchedulerInv'
  BY <1>1, AddKeeps
<1>2. ASSUME NEW now \in Time, Admit(now) PROVE SchedulerInv'
  BY <1>2, AdmitKeeps
<1>3. CASE CommitAdmission
  BY <1>3, CommitKeeps
<1>4. ASSUME NEW n \in Nodes, NEW end \in Time, MarkCompleted(n, end) PROVE SchedulerInv'
  BY <1>4, MarkCompletedKeeps
<1>5. ASSUME NEW nodes \in SUBSET Nodes, NEW reason \in Reasons, CancelPending(nodes, reason)
      PROVE  SchedulerInv'
  BY <1>5, CancelPendingKeeps
<1>6. ASSUME NEW g \in Gates, NEW ready \in Time, Release(g, ready) PROVE SchedulerInv'
  BY <1>6, ReleaseKeeps
<1>7. CASE UNCHANGED vars
  <2> USE <1>7 DEF vars, graph, progress
  <2>1. Running' = Running /\ Completed' = Completed /\ Cancelled' = Cancelled /\ Known' = Known
    BY DEF Running, Completed, Cancelled, Known
  <2>2. TypeOK'
    BY <2>1 DEF SchedulerInv, CallsInOrder, TypeOK
  <2>3. HeldProposal'
    BY <2>1 DEF SchedulerInv, HeldProposal, Choice, MayAdmit, Frontier
  <2> QED BY <2>1, <2>2, <2>3, OrderKept DEF SchedulerInv, CallsInOrder, TypeOK, Running
<1> QED BY <1>1, <1>2, <1>3, <1>4, <1>5, <1>6, <1>7 DEF Next

\* The inductive invariant holds in every state of the scheduler.
THEOREM SchedulerInvariant == Spec => []SchedulerInv
<1> QED BY SchedulerInit, SchedulerStep, PTL DEF Spec

\* Calls start in the order their patches, predecessors and batches demand,
\* for any declarations, submissions, cancellations and releases.
THEOREM CallsAlwaysInOrder == Spec => []CallsInOrder
<1>1. SchedulerInv => CallsInOrder
  BY DEF SchedulerInv
<1> QED BY <1>1, SchedulerInvariant, PTL

\* A proposal that is still current is the choice the scheduler would make now.
THEOREM HeldProposalIsFresh == Spec => []HeldProposalFresh
<1>1. SchedulerInv => HeldProposalFresh
  BY DEF SchedulerInv, HeldProposal, HeldProposalFresh
<1> QED BY <1>1, SchedulerInvariant, PTL

-----------------------------------------------------------------------------
(* The batch of a frontier.                                                  *)

\* The frontier is scanned in a strict order: priorities, then names.
LEMMA ScanOrder ==
  ASSUME NEW x \in Nodes, NEW y \in Nodes, NEW z \in Nodes
  PROVE  /\ ~Precedes(x, x)
         /\ Precedes(x, y) /\ Precedes(y, z) => Precedes(x, z)
         /\ x # y => Precedes(x, y) \/ Precedes(y, x)
BY SchedulerAssumption DEF Precedes

\* First names the member of a finite frontier that comes before all others.
LEMMA FirstIn ==
  ASSUME NEW F \in SUBSET Nodes, IsFiniteSet(F), F # {}
  PROVE  First(F) \in F /\ \A n \in F \ {First(F)} : Precedes(First(F), n)
<1> DEFINE before == {q \in F \X F : Precedes(q[1], q[2])}
<1>1. \A x, y \in F : <<x, y>> \in before <=> Precedes(x, y)
  OBVIOUS
<1>2. /\ \A x \in F : <<x, x>> \notin before
      /\ \A x, y, z \in F : <<x, y>> \in before /\ <<y, z>> \in before => <<x, z>> \in before
  <2> HIDE DEF before
  <2> QED BY <1>1, ScanOrder
<1>3. \E x \in F : \A y \in F : <<y, x>> \notin before
  <2> HIDE DEF before
  <2> QED BY <1>2, LeastElement
<1>4. \E x \in F : \A n \in F \ {x} : Precedes(x, n)
  <2> HIDE DEF before
  <2> QED BY <1>1, <1>3, ScanOrder
<1> QED BY <1>4 DEF First

\* The frontier is a finite set of known nodes.
LEMMA FrontierFinite ==
  ASSUME TypeOK, NEW now
  PROVE  Frontier(now) \in SUBSET Nodes /\ IsFiniteSet(Frontier(now))
BY Shape, FS_Subset DEF Frontier

\* The claims of any nodes are declarations the compatibility test can read.
LEMMA NodesDeclare ==
  ASSUME NEW G \in SUBSET Nodes
  PROVE  Declares(Claimed, G)
BY SchedulerAssumption DEF Declares, Claimed

\* No node of the frontier that the scan passed over fits the whole batch.
LEMMA GreedyIsMaximal ==
  ASSUME NEW F \in SUBSET Nodes, IsFiniteSet(F), F # {}, NEW S, Greedy(F, S),
         NEW a \in S, NEW n \in F \ S
  PROVE  ~Compatible(Claimed, a, S \cup {n})
<1> DEFINE f == First(F)
           H == {m \in S : Precedes(m, n)} \cup {n}
<1>1. S \subseteq F /\ f \in S /\ f \in F /\ Precedes(f, n)
  BY FirstIn DEF Greedy
<1>2. ~Compatible(Claimed, f, H)
  BY <1>1 DEF Greedy
<1>3. IsFiniteSet(S \cup {n}) /\ Declares(Claimed, S \cup {n})
  <2>1. S \cup {n} \in SUBSET F /\ S \cup {n} \in SUBSET Nodes
    BY <1>1
  <2> QED BY <2>1, FS_Subset, NodesDeclare
<1>4. H \in SUBSET (S \cup {n}) /\ f \in H /\ a \in S \cup {n}
  BY <1>1
<1> HIDE DEF H, f
<1> QED BY <1>2, <1>3, <1>4, PartCompatible

\* A committed batch cannot be enlarged: the scan compares a call with those
\* before it only, yet no call it passed over fits the whole batch.
THEOREM BatchesAreMaximal == Spec => BatchMaximal
<1> DEFINE Largest ==
      admissions' # admissions =>
        LET batch == admissions'[Len(admissions')]
            ready == Frontier(batch.start) IN
        /\ batch.nodes # {} /\ batch.nodes \subseteq ready
        /\ \A a \in batch.nodes, n \in ready \ batch.nodes :
             ~Compatible(Claimed, a, batch.nodes \cup {n})
<1>1. ASSUME SchedulerInv, [Next]_vars PROVE [Largest]_vars
  <2> SUFFICES ASSUME admissions' # admissions PROVE Largest
    BY DEF vars
  <2>1. CommitAdmission
    BY <1>1 DEF Next, vars, graph, progress, Add, Admit, MarkCompleted, CancelPending, Release
  <2>2. /\ proposal \in Batches /\ Choice(proposal.start, proposal.nodes)
        /\ admissions' = Append(admissions, proposal) /\ admissions \in Seq(Batches)
    BY <1>1, <2>1 DEF CommitAdmission, SchedulerInv, CallsInOrder, TypeOK
  <2>3. admissions'[Len(admissions')] = proposal
    BY <2>2
  <2> DEFINE ready == Frontier(proposal.start)
  <2>4. ready \in SUBSET Nodes /\ IsFiniteSet(ready) /\ ready # {} /\ Greedy(ready, proposal.nodes)
    BY <1>1, <2>2, FrontierFinite DEF Choice, SchedulerInv, CallsInOrder
  <2>5. proposal.nodes # {} /\ proposal.nodes \subseteq ready
    BY <2>4 DEF Greedy
  <2>6. \A a \in proposal.nodes, n \in ready \ proposal.nodes :
          ~Compatible(Claimed, a, proposal.nodes \cup {n})
    <3> HIDE DEF ready
    <3> QED BY <2>4, GreedyIsMaximal
  <2> QED BY <2>3, <2>5, <2>6
<1>2. BatchMaximal <=> [][Largest]_vars
  BY DEF BatchMaximal
<1> HIDE DEF Largest
<1> QED BY <1>1, <1>2, SchedulerInvariant, PTL DEF Spec

-----------------------------------------------------------------------------
(* There is a batch.                                                         *)

\* A call that shares an AOD is a batch by itself, unless it contradicts itself.
LEMMA AloneFits ==
  ASSUME NEW f \in Nodes, Claimed[f].mode = "shared"
  PROVE  Compatible(Claimed, f, {f}) <=> ~Contradictory(f)
<1> DEFINE D == Claimed
           G == {f}
<1>1. D[f].aod \in SharedClaims /\ D[f].aod.aod \notin D[f].claims
  BY SchedulerAssumption DEF Claimed
<1>2. Sharers(D, G) = G /\ IsFiniteSet(G) /\ Sharing(D, G) /\ Disjoint(D, G) /\ G # {}
  BY <1>1, FS_Singleton DEF Sharers, Sharing, Disjoint
<1>3. CASE D[f].aod.family # NoFamily
  <2>1. Joint(D, G) = G
    BY <1>2, <1>3 DEF Joint
  <2>2. SharedCapacity(D, G)
    BY Zenon, <1>3 DEF SharedCapacity
  <2>3. OfJointCode(D, f, f) <=> ~Contradictory(f)
    BY DEF OfJointCode, Contradictory
  <2>4. Compatible(D, f, G) <=> \A i \in G : OfJointCode(D, f, i) /\ D[i].waveform = D[f].waveform
    BY Zenon, <1>2, <2>1, <2>2 DEF Compatible
  <2>5. Compatible(D, f, G) <=> OfJointCode(D, f, f)
    BY <2>4
  <2> QED BY <2>3, <2>5
<1>4. CASE D[f].aod.family = NoFamily
  <2>1. Joint(D, G) = {}
    BY <1>2, <1>4 DEF Joint
  <2> DEFINE columns == [i \in G |-> D[i].aod.columns]
             readout == [i \in G |-> D[i].aod.readout]
  <2>2. /\ D[f].aod.columns \in 1..MaxColumns /\ D[f].aod.readout \in 0..MaxReadout
        /\ MaxColumns \in Nat /\ MaxReadout \in Nat
    BY <1>1, CompatibilityAssumption DEF SharedClaims
  <2>3. ASSUME NEW h PROVE Total(h, G) = h[f] + 0
    <3>1. Pick(G) = f /\ G \ {Pick(G)} = {} /\ G # {}
      BY PickIn
    <3>2. Total(h, {}) = 0
      BY FS_EmptySet, TotalStep
    <3> HIDE DEF G
    <3> QED BY <1>2, <3>1, <3>2, TotalStep
  <2>4. ColumnsNeeded(D, G) =< MaxColumns
    <3>1. \A i \in G : columns[i] = D[i].aod.columns
      OBVIOUS
    <3>2. columns[f] = D[f].aod.columns
      OBVIOUS
    <3> HIDE DEF columns, D, G
    <3>3. ColumnsNeeded(D, G) = Total(columns, G)
      BY <1>2, <3>1, ColumnsTotal
    <3> QED BY <2>2, <2>3, <3>2, <3>3
  <2>5. ReadoutNeeded(D, G) =< MaxReadout
    <3>1. \A i \in G : readout[i] = D[i].aod.readout
      OBVIOUS
    <3>2. readout[f] = D[f].aod.readout
      OBVIOUS
    <3> HIDE DEF readout, D, G
    <3>3. ReadoutNeeded(D, G) = Total(readout, G)
      BY <1>2, <3>1, ReadoutTotal
    <3> QED BY <2>2, <2>3, <3>2, <3>3
  <2>6. AodFits(D, G)
    BY Zenon, <2>4 DEF AodFits, Bands, Neighbours, ColumnsNeeded
  <2>7. \A a \in Aods : AodFits(D, {i \in G : D[i].aod.aod = a})
    BY <1>2, <2>6, PartFitsAod
  <2>8. ASSUME NEW c \in Channels
        PROVE  ReadoutNeeded(D, {i \in G : D[i].aod.channel = c}) =< MaxReadout
    <3> DEFINE part == {i \in G : D[i].aod.channel = c}
    <3>1. part \in SUBSET G
      OBVIOUS
    <3> HIDE DEF part, D, G
    <3>2. ReadoutNeeded(D, part) =< MaxReadout
      BY <1>2, <2>2, <2>5, <3>1, NeedsGrow
    <3> QED BY <3>2 DEF part
  <2>9. SharedCapacity(D, G)
    BY Zenon, <1>4, <2>7, <2>8 DEF SharedCapacity, ReadoutNeeded
  <2>10. \A i \in Sharers(D, G), j \in G : D[i].aod.aod \notin D[j].claims
    BY <1>1, <1>2
  <2>11. D[f].mode # "profile" /\ D[f].mode # "exclusive"
    OBVIOUS
  <2>12. \A i \in G : Alike(D, f, i)
    BY DEF Alike
  <2>13. Compatible(D, f, G)
    BY Zenon, <1>2, <2>1, <2>9, <2>10, <2>11, <2>12 DEF Compatible
  <2>14. ~Contradictory(f)
    BY <1>1, <1>4 DEF Contradictory, SharedClaims
  <2> QED BY <2>13, <2>14
<1> QED BY <1>3, <1>4

\* Every frontier has a greedy batch: the scan comes to its end, if it is begun.
LEMMA GreedyExists ==
  ASSUME NEW F \in SUBSET Nodes, IsFiniteSet(F), F # {}, ~Contradictory(First(F))
  PROVE  \E S \in SUBSET F : Greedy(F, S)
<1> DEFINE f == First(F)
           Fits(S, n) == Compatible(Claimed, f, {m \in S : Precedes(m, n)} \cup {n})
           Scanned(T, S) == /\ S \subseteq T /\ f \in S
                            /\ \A n \in T \ {f} : n \in S <=> Fits(S, n)
           Prefix(T) == f \in T /\ \A n \in T, m \in F : Precedes(m, n) => m \in T
           Left == {F \ T : T \in {T \in SUBSET F : Prefix(T) /\ \E S : Scanned(T, S)}}
<1>1. f \in F /\ \A n \in F \ {f} : Precedes(f, n)
  BY FirstIn
<1>12. ~Contradictory(f)
  OBVIOUS
<1> HIDE DEF f
<1>2. F \ {f} \in Left
  <2>1. Scanned({f}, {f})
    OBVIOUS
  <2>2. Prefix({f})
    <3>1. \A m \in F : ~Precedes(m, f)
      BY <1>1, ScanOrder
    <3> QED BY <3>1
  <2>3. {f} \in SUBSET F
    BY <1>1
  <2> HIDE DEF Scanned, Prefix
  <2> QED BY <2>1, <2>2, <2>3
<1>3. PICK t \in Left : \A u \in Left : u \subseteq t => u = t
  <2>1. Left \in SUBSET (SUBSET F)
    OBVIOUS
  <2> HIDE DEF Left
  <2> QED BY <1>2, <2>1, LeastSet
<1>10. PICK T \in SUBSET F : t = F \ T /\ Prefix(T) /\ \E S : Scanned(T, S)
  <2> HIDE DEF Scanned, Prefix
  <2> QED BY <1>3
<1>11. PICK S : Scanned(T, S)
  <2> HIDE DEF Scanned
  <2> QED BY <1>10
<1>4. t = F \ T /\ Prefix(T) /\ Scanned(T, S)
  BY <1>10, <1>11
<1>5. ASSUME t # {} PROVE FALSE
  <2> DEFINE n == First(t)
             S2 == IF Fits(S, n) THEN S \cup {n} ELSE S
             T2 == T \cup {n}
  <2>1. t \in SUBSET Nodes /\ IsFiniteSet(t)
    BY <1>4, FS_Subset
  <2>2. n \in F \ T /\ \A m \in t \ {n} : Precedes(n, m)
    BY <1>4, <1>5, <2>1, FirstIn
  <2>3. S \subseteq T /\ f \in T /\ n # f /\ n \notin S
    BY <1>4, <2>2
  <2> HIDE DEF n
  <2>4. Prefix(T2)
    <3>1. \A m \in F : Precedes(m, n) => m \in T2
      BY <1>4, <2>2, ScanOrder
    <3> QED BY <1>4, <3>1
  <2>5. Scanned(T2, S2)
    <3>1. \A m \in T : {x \in S2 : Precedes(x, m)} = {x \in S : Precedes(x, m)}
      <4>1. \A m \in T : ~Precedes(n, m)
        BY <1>4, <2>2
      <4> HIDE DEF Fits
      <4> QED BY <4>1
    <3>2. {x \in S2 : Precedes(x, n)} = {x \in S : Precedes(x, n)}
      <4>1. ~Precedes(n, n)
        BY <2>2, ScanOrder
      <4> HIDE DEF Fits
      <4> QED BY <4>1
    <3>3. \A m \in T2 : Fits(S2, m) <=> Fits(S, m)
      BY <3>1, <3>2
    <3>4. \A m \in T \ {f} : m \in S2 <=> Fits(S2, m)
      <4> SUFFICES ASSUME NEW m \in T \ {f} PROVE m \in S2 <=> m \in S
        BY <1>4, <3>3
      <4>1. m # n
        BY <2>2
      <4> QED BY <4>1
    <3>5. n \in S2 <=> Fits(S2, n)
      <4>1. Fits(S2, n) <=> Fits(S, n)
        BY <3>3
      <4> HIDE DEF Fits
      <4> QED BY <4>1, <2>3
    <3>6. S2 \subseteq T2 /\ f \in S2
      BY <1>4
    <3> HIDE DEF S2, Fits
    <3> QED BY <3>4, <3>5, <3>6
  <2>6. F \ T2 \in Left
    <3>1. T2 \in SUBSET F
      BY <2>2
    <3> HIDE DEF Scanned, Prefix, T2, S2
    <3> QED BY <2>4, <2>5, <3>1
  <2>7. F \ T2 \subseteq t /\ F \ T2 # t
    BY <1>4, <2>2
  <2> HIDE DEF Left, T2
  <2> QED BY <1>3, <2>6, <2>7
<1>6. T = F
  BY <1>4, <1>5
<1>7. f \in Nodes
  BY <1>1
<1>8. Claimed[f].mode = "shared" => Compatible(Claimed, f, {f})
  BY <1>7, <1>12, AloneFits
<1>9. Greedy(F, S)
  BY <1>4, <1>6, <1>8 DEF Greedy, f
<1> QED BY <1>9 DEF Greedy

\* A cancelled call blocks, and what waits for a blocked call is blocked.
LEMMA BlockedIsClosed ==
  ASSUME TypeOK
  PROVE  /\ Cancelled \subseteq Blocked
         /\ \A n \in Known : after[n] \cap Blocked # {} => n \in Blocked
BY DEF TypeOK, Blocked

\* The invariant, with no node running and no gate closed, is NeverStuck.
LEMMA NotStuck == ASSUME SchedulerInv PROVE NeverStuck
<1> DEFINE ready == Frontier(MaxTime)
           admits == \E S \in SUBSET ready : Choice(MaxTime, S)
           refuses == \E n \in ready : /\ Contradictory(n)
                                       /\ \A m \in ready \ {n} : Precedes(n, m)
<1> SUFFICES ASSUME Running = {}, \A g \in Gates : released[g] # Never
             PROVE  /\ (Known \ (Completed \cup Blocked) # {}) <=> (admits \/ refuses)
                    /\ ~(admits /\ refuses)
  BY Zenon DEF NeverStuck
<1> USE DEF SchedulerInv, CallsInOrder
<1>1. /\ \A n \in Completed : completed[n] =< MaxTime
      /\ \A g \in Gates : released[g] =< MaxTime
      /\ MaxTime \in Time
  BY SchedulerAssumption DEF TypeOK, Completed, TimeOrNever, Time, Never
<1>2. MayAdmit(MaxTime)
  BY <1>1 DEF MayAdmit
<1>3. ASSUME ready # {} PROVE Known \ (Completed \cup Blocked) # {}
  <2>1. PICK n \in ready : TRUE
    BY <1>3
  <2>2. n \in Known /\ n \notin Completed /\ n \notin Cancelled
        /\ \A m \in after[n] : completed[m] =< MaxTime
    BY <2>1 DEF Frontier
  <2> DEFINE U == Known \ (Completed \cup {n})
  <2>3. Cancelled \subseteq U
    BY <2>2 DEF TypeOK
  <2>4. ASSUME NEW m \in Known, m \notin U PROVE after[m] \cap U = {}
    <3>1. \A x \in after[m] : x \in Nodes
      BY Shape DEF TypeOK
    <3>2. CASE m = n
      BY <1>1, <2>2, <3>1, <3>2, EndedBefore
    <3>3. CASE m \in Completed
      <4>1. m \in Started /\ StartOf(m) \in Time
        BY <3>3, BatchOfStarted DEF StartedCalls
      <4>2. \A x \in after[m] : completed[x] =< StartOf(m)
        BY <4>1 DEF PrerequisitesMet
      <4>3. \A x \in after[m] : x \in Completed
        BY <3>1, <4>1, <4>2, EndedBefore
      <4> QED BY <4>3
    <3> QED BY <2>4, <3>2, <3>3
  <2>5. n \notin Blocked
    <3>1. U \in SUBSET Known /\ n \notin U
      OBVIOUS
    <3> HIDE DEF U
    <3> QED BY <2>3, <2>4, <3>1 DEF Blocked
  <2> QED BY <2>2, <2>5
<1>4. ASSUME Known \ (Completed \cup Blocked) # {}
      PROVE  ready # {}
  <2> DEFINE W == Known \ (Completed \cup Blocked)
  <2>1. PICK n \in W : after[n] \cap W = {}
    <3>1. W \in (SUBSET Known) \ {{}}
      BY <1>4
    <3>2. {n \in W : after[n] \cap W = {}} # {}
      BY <3>1 DEF Acyclic
    <3> QED BY <3>2
  <2>2. after[n] \subseteq Completed
    <3>1. after[n] \subseteq Known
      BY DEF Acyclic
    <3>2. after[n] \cap Blocked = {}
      BY BlockedIsClosed
    <3> QED BY <2>1, <3>1, <3>2
  <2>3. n \in Frontier(MaxTime)
    <3>1. n \in Nodes /\ n \in Known \ (Running \cup Completed \cup Cancelled)
      BY Shape, BlockedIsClosed
    <3>2. Declared[n].notBefore =< MaxTime /\ Declared[n].gates \subseteq Gates
      BY <3>1, SchedulerAssumption DEF Time
    <3> QED BY <1>1, <2>2, <3>1, <3>2 DEF Frontier
  <2> QED BY <2>3
<1>5. ready \in SUBSET Nodes /\ IsFiniteSet(ready)
  BY FrontierFinite
<1> HIDE DEF ready
<1>6. ASSUME ready # {} PROVE refuses <=> Contradictory(First(ready))
  <2>1. First(ready) \in ready /\ \A n \in ready \ {First(ready)} : Precedes(First(ready), n)
    BY <1>5, <1>6, FirstIn
  <2>2. ASSUME NEW n \in ready, \A m \in ready \ {n} : Precedes(n, m) PROVE n = First(ready)
    BY <1>5, <2>1, <2>2, ScanOrder
  <2> QED BY <2>1, <2>2
<1>7. ASSUME ready # {} PROVE admits <=> ~Contradictory(First(ready))
  <2>1. admits <=> \E S \in SUBSET ready : Greedy(ready, S)
    BY <1>2, <1>7 DEF Choice, ready
  <2>2. First(ready) \in Nodes
    BY <1>5, <1>7, FirstIn
  <2>3. Contradictory(First(ready)) => \A S : ~Greedy(ready, S)
    <3>1. Contradictory(First(ready)) => Claimed[First(ready)].mode = "shared"
      BY DEF Contradictory
    <3> QED BY <2>2, <3>1, AloneFits DEF Greedy
  <2>4. ~Contradictory(First(ready)) => \E S \in SUBSET ready : Greedy(ready, S)
    BY <1>5, <1>7, GreedyExists
  <2> QED BY <2>1, <2>3, <2>4
<1>8. admits \/ refuses => ready # {}
  BY DEF Choice, ready
<1> QED BY <1>3, <1>4, <1>6, <1>7, <1>8

\* The graph never locks up: with everything published and nothing running, a
\* call is left that waits for no cancelled one exactly when some batch can
\* start, or the first ready call is a joint one that names codes other than its
\* own, which admit of components.py refuses until it is cancelled.
THEOREM SchedulerNeverStuck == Spec => []NeverStuck
<1> QED BY NotStuck, SchedulerInvariant, PTL

=============================================================================
