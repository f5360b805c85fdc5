------------------------- MODULE ComponentScheduler -------------------------
(***************************************************************************)
(* The component scheduler: a growing graph of component calls, batches    *)
(* admitted from its frontier, and their progress                          *)
(* (modules/logical_compiler/src/scheduling/components.py).                *)
(*                                                                         *)
(* Callers pass every time.  A rejected call raises and changes nothing,   *)
(* hence is no step.  The caller's hold on a proposal between admit and    *)
(* commit_admission is the variable proposal: anything may be called in    *)
(* between.                                                                *)
(***************************************************************************)
EXTENDS ComponentCompatibility, Sequences

CONSTANTS
  Nodes,          \* node identities, numbered in the order of their names
  Gates,          \* event and token identities
  Reasons,        \* cancellation reasons
  Declared,       \* [Nodes -> node declarations], what callers may submit
  MaxTime,        \* bound on every time a caller passes
  MaxSubmission,  \* bound on the nodes of one add call
  None            \* the code's None and absent dictionary entries

Time == 0..MaxTime
Never == MaxTime + 1       \* float("inf"): no entry yet
TimeOrNever == 0..Never

\* The declarations, as the compatibility rule reads them.
Claimed == [n \in Nodes |-> Declared[n].spec]

ASSUME SchedulerAssumption ==
  /\ Nodes \subseteq Nat /\ MaxTime \in Nat /\ MaxSubmission \in Nat
  /\ None \notin Nodes /\ None \notin Reasons
  /\ \A n \in Nodes :
       /\ Declared[n].after \subseteq Nodes
       /\ Declared[n].gates \subseteq Gates
       /\ Declared[n].notBefore \in Time /\ Declared[n].priority \in Int
       /\ Declared[n].spec.patches \subseteq Patches
       /\ Declared[n].spec.mode = "shared" =>
            /\ Declared[n].spec.aod \in SharedClaims
            /\ Declared[n].spec.aod.aod \notin Declared[n].spec.claims

VARIABLES
  submitted,   \* _nodes, in submission order
  after,       \* after_calls of the stored nodes
  lastPatch,   \* _last_patch
  running,     \* _running: start, or Never
  completed,   \* _completed: end, or Never
  cancelled,   \* _cancelled: reason, or None
  released,    \* _events and _tokens: release time, or Never
  admissions,  \* _admissions
  revision,    \* _revision
  proposal     \* what the caller holds from admit, or None

graph == <<submitted, after, lastPatch>>
progress == <<running, completed, cancelled>>
vars == <<graph, progress, released, admissions, revision, proposal>>

Known == {submitted[i] : i \in DOMAIN submitted}
Running == {n \in Nodes : running[n] # Never}
Completed == {n \in Nodes : completed[n] # Never}
Cancelled == {n \in Nodes : cancelled[n] # None}

Batches == [nodes : SUBSET Nodes, start : Time, revision : Nat]

TypeOK ==
  /\ submitted \in Seq(Nodes)
  /\ after \in [Nodes -> SUBSET Nodes]
  /\ lastPatch \in [Patches -> Nodes \cup {None}]
  /\ running \in [Nodes -> TimeOrNever]
  /\ completed \in [Nodes -> TimeOrNever]
  /\ cancelled \in [Nodes -> Reasons \cup {None}]
  /\ released \in [Gates -> TimeOrNever]
  /\ admissions \in Seq(Batches)
  /\ revision \in Nat
  /\ proposal \in Batches \cup {None}
  /\ Running \cup Completed \cup Cancelled \subseteq Known
  /\ Running \cap Completed = {} /\ Running \cap Cancelled = {}
  /\ Completed \cap Cancelled = {}

Init ==
  /\ submitted = <<>>
  /\ after = [n \in Nodes |-> {}]
  /\ lastPatch = [p \in Patches |-> None]
  /\ running = [n \in Nodes |-> Never]
  /\ completed = [n \in Nodes |-> Never]
  /\ cancelled = [n \in Nodes |-> None]
  /\ released = [g \in Gates |-> Never]
  /\ admissions = <<>>
  /\ revision = 0
  /\ proposal = None

-----------------------------------------------------------------------------
(* Growing the graph.                                                      *)

PatchesOf(n) == Declared[n].spec.patches

\* The latest node on patch p among seq's first k, or what was last before it.
LastOn(p, seq, k) ==
  LET on == {i \in 1..k : p \in PatchesOf(seq[i])}
  IN  IF on = {} THEN lastPatch[p] ELSE seq[CHOOSE i \in on : \A j \in on : j =< i]

\* Variant: predecessors are looked up before the submission, not within it.
PredecessorsBefore(seq, k) ==
  Declared[seq[k]].after
    \cup ({LastOn(p, seq, 0) : p \in PatchesOf(seq[k])} \ {None})

\* Explicit predecessors and the previous node of every patch.
Predecessors(seq, k) ==
  Declared[seq[k]].after
    \cup ({LastOn(p, seq, k - 1) : p \in PatchesOf(seq[k])} \ {None})

\* Variant: predecessors must exist, but may form a cycle.
AcyclicUnchecked(nodes, pred) == \A n \in nodes : pred[n] \subseteq nodes

\* The graph has every predecessor and no cycle: Kahn's count reaches them all.
Acyclic(nodes, pred) ==
  /\ \A n \in nodes : pred[n] \subseteq nodes
  /\ \A S \in (SUBSET nodes) \ {{}} : {n \in S : pred[n] \cap S = {}} # {}

Add(seq) ==
  LET new == {seq[i] : i \in DOMAIN seq}
      pred == [n \in Nodes |->
                IF n \in new
                THEN Predecessors(seq, CHOOSE i \in DOMAIN seq : seq[i] = n)
                ELSE after[n]]
  IN  /\ seq # <<>>
      /\ Cardinality(new) = Len(seq) /\ new \cap Known = {}
      /\ Acyclic(Known \cup new, pred)
      /\ submitted' = submitted \o seq
      /\ after' = pred
      /\ lastPatch' = [p \in Patches |-> LastOn(p, seq, Len(seq))]
      /\ revision' = revision + 1
      /\ UNCHANGED <<progress, released, admissions, proposal>>

-----------------------------------------------------------------------------
(* The frontier and its batch.                                             *)

Precedes(m, n) ==
  \/ Declared[m].priority < Declared[n].priority
  \/ Declared[m].priority = Declared[n].priority /\ m < n

\* Variant: a prerequisite only has to be known, not to lie in the past.
FrontierKnown(now) ==
  {n \in Known \ (Running \cup Completed \cup Cancelled) :
     /\ Declared[n].notBefore =< now
     /\ \A m \in after[n] : completed[m] # Never
     /\ \A g \in Declared[n].gates : released[g] # Never}

Frontier(now) ==
  {n \in Known \ (Running \cup Completed \cup Cancelled) :
     /\ Declared[n].notBefore =< now
     /\ \A m \in after[n] : completed[m] =< now
     /\ \A g \in Declared[n].gates : released[g] =< now}

First(F) == CHOOSE a \in F : \A n \in F \ {a} : Precedes(a, n)

\* Variant: the scan stops at the first node that does not fit.
GreedyStops(F, S) ==
  /\ S \subseteq F /\ First(F) \in S
  /\ \A n \in F \ {First(F)} :
       n \in S <=> /\ Compatible(Claimed, First(F), {m \in S : Precedes(m, n)} \cup {n})
                   /\ {m \in F : Precedes(m, n)} \subseteq S

\* S is the greedy batch of a frontier F: the first node anchors it, and every
\* later one is in exactly if it fits those that came in before it.
Greedy(F, S) ==
  /\ S \subseteq F /\ First(F) \in S
  /\ \A n \in F \ {First(F)} :
       n \in S <=> Compatible(Claimed, First(F), {m \in S : Precedes(m, n)} \cup {n})
  \* INVALID_SHARED_AOD_DECLARATION
  /\ Claimed[First(F)].mode = "shared" => Compatible(Claimed, First(F), {First(F)})

\* Variant: a batch may join one that is still running.
MayAdmitRunning(now) == \A n \in Completed : completed[n] =< now

MayAdmit(now) ==
  /\ Running = {}
  /\ \A n \in Completed : completed[n] =< now        \* SCHEDULE_TIME_REVERSED

Choice(now, S) ==
  MayAdmit(now) /\ Frontier(now) # {} /\ Greedy(Frontier(now), S)

\* admit changes nothing in the scheduler: the caller holds the proposal.
Admit(now) ==
  \E S \in SUBSET Frontier(now) :
    /\ Choice(now, S)
    /\ proposal' = [nodes |-> S, start |-> now, revision |-> revision]
    /\ UNCHANGED <<graph, progress, released, admissions, revision>>

CommitAdmission ==
  /\ proposal # None
  /\ proposal.revision = revision                     \* STALE_ADMISSION
  /\ Choice(proposal.start, proposal.nodes)           \* INVALID_ADMISSION
  /\ running' = [n \in Nodes |->
                  IF n \in proposal.nodes THEN proposal.start ELSE running[n]]
  /\ admissions' = Append(admissions, proposal)
  /\ revision' = revision + 1
  /\ UNCHANGED <<graph, completed, cancelled, released, proposal>>

-----------------------------------------------------------------------------
(* Progress.                                                               *)

MarkCompleted(n, end) ==
  /\ n \in Running /\ n \notin Completed
  /\ end >= running[n]                                \* COMPLETION_BEFORE_START
  /\ completed' = [completed EXCEPT ![n] = end]
  /\ running' = [running EXCEPT ![n] = Never]
  /\ revision' = revision + 1
  /\ UNCHANGED <<graph, cancelled, released, admissions, proposal>>

\* Variant: only a completed node is too late to cancel.
CancelRunningToo(nodes, reason) ==
  /\ nodes \subseteq Known \ Completed
  /\ \A n \in nodes : cancelled[n] \in {None, reason}
  /\ ~(nodes \subseteq Cancelled)
  /\ cancelled' = [n \in Nodes |-> IF n \in nodes THEN reason ELSE cancelled[n]]
  /\ revision' = revision + 1
  /\ UNCHANGED <<graph, running, completed, released, admissions, proposal>>

\* Cancelling again with the same reason changes nothing.
CancelPending(nodes, reason) ==
  /\ nodes \subseteq Known \ (Running \cup Completed)
  /\ \A n \in nodes : cancelled[n] \in {None, reason}
  /\ ~(nodes \subseteq Cancelled)
  /\ cancelled' = [n \in Nodes |-> IF n \in nodes THEN reason ELSE cancelled[n]]
  /\ revision' = revision + 1
  /\ UNCHANGED <<graph, running, completed, released, admissions, proposal>>

\* Variant: a release is no new revision.
ReleaseQuietly(g, ready) ==
  /\ released[g] = Never
  /\ released' = [released EXCEPT ![g] = ready]
  /\ UNCHANGED <<graph, progress, admissions, revision, proposal>>

\* release_event and release_token; a repeated release changes nothing.
Release(g, ready) ==
  /\ released[g] = Never
  /\ released' = [released EXCEPT ![g] = ready]
  /\ revision' = revision + 1
  /\ UNCHANGED <<graph, progress, admissions, proposal>>

Next ==
  \/ \E k \in 1..MaxSubmission : \E seq \in [1..k -> Nodes] : Add(seq)
  \/ \E now \in Time : Admit(now)
  \/ CommitAdmission
  \/ \E n \in Nodes, end \in Time : MarkCompleted(n, end)
  \/ \E nodes \in SUBSET Nodes, reason \in Reasons : CancelPending(nodes, reason)
  \/ \E g \in Gates, ready \in Time : Release(g, ready)

Spec == Init /\ [][Next]_vars
-----------------------------------------------------------------------------
(* What the scheduler promises.                                            *)

Started == UNION {admissions[k].nodes : k \in DOMAIN admissions}

StartOf(n) == admissions[CHOOSE k \in DOMAIN admissions : n \in admissions[k].nodes].start

\* Calls on one patch run in the order they were submitted, however submissions,
\* cancellations and batches interleave: the later one starts when the earlier
\* one is over, and never if the earlier one was cancelled.  Only the edge from
\* the patch's latest call is stored.
PatchOrder ==
  \A i, j \in DOMAIN submitted :
    (/\ i < j
     /\ PatchesOf(submitted[i]) \cap PatchesOf(submitted[j]) # {}
     /\ submitted[j] \in Started)
      => completed[submitted[i]] =< StartOf(submitted[j])

\* At the start of a call its explicit and inferred predecessors have really
\* ended, and its events and tokens have really been released; what happens
\* later to any of them cannot change that.
PrerequisitesMet ==
  \A n \in Started :
    /\ \A m \in after[n] : completed[m] =< StartOf(n)
    /\ \A g \in Declared[n].gates : released[g] =< StartOf(n)

\* Batches follow one another: all of one ends before the next starts, only the
\* last one can be running, and a call is in one batch at most.
LockstepBatches ==
  /\ \A k, l \in DOMAIN admissions : k < l =>
       \A n \in admissions[k].nodes :
         n \notin admissions[l].nodes /\ completed[n] =< admissions[l].start
  /\ Running # {} => Running \subseteq admissions[Len(admissions)].nodes

\* Calls start in the order their patches, predecessors and batches demand.
CallsInOrder == TypeOK /\ PatchOrder /\ PrerequisitesMet /\ LockstepBatches

\* A committed batch is inclusion-maximal: no other call of the frontier fits
\* the whole of it, although each was only compared with what came before it.
BatchMaximal ==
  [][admissions' # admissions =>
       LET batch == admissions'[Len(admissions')]
           ready == Frontier(batch.start) IN
       /\ batch.nodes # {} /\ batch.nodes \subseteq ready
       /\ \A a \in batch.nodes, n \in ready \ batch.nodes :
            ~Compatible(Claimed, a, batch.nodes \cup {n})]_vars

\* A proposal of the current revision is still the scheduler's own choice:
\* every operation that could change the choice makes the proposal stale.
HeldProposalFresh ==
  (proposal # None /\ proposal.revision = revision)
    => Choice(proposal.start, proposal.nodes)

\* Cancelled calls and everything that waits for them, however indirectly.
Blocked ==
  {n \in Known :
     \A U \in SUBSET Known :
       (/\ Cancelled \subseteq U
        /\ \A m \in Known : (after[m] \cap U # {}) => m \in U)
         => n \in U}

\* A joint call that is not of a code it names itself: its declaration is
\* accepted, but it is no batch, not even alone.
Contradictory(n) ==
  LET s == Claimed[n] IN
  s.mode = "shared" /\ s.aod.codes # {} /\ s.code \notin s.aod.codes

\* With all readiness published and nothing running, some call is neither done
\* nor behind a cancellation exactly when there is a batch to admit, or else the
\* first ready call contradicts itself and keeps every other one waiting until
\* it is cancelled.  Apart from that the graph never locks up, and cancelling
\* one line leaves the others ready.
NeverStuck ==
  (Running = {} /\ \A g \in Gates : released[g] # Never) =>
    LET ready == Frontier(MaxTime)
        admits == \E S \in SUBSET ready : Choice(MaxTime, S)
        refuses == \E n \in ready : /\ Contradictory(n)
                                    /\ \A m \in ready \ {n} : Precedes(n, m)
    IN  /\ (Known \ (Completed \cup Blocked) # {}) <=> (admits \/ refuses)
        /\ ~(admits /\ refuses)
=============================================================================
