-------------------------- MODULE CompilationLoop --------------------------
(* The outer loop of the physical compiler (compiler.py), its layer selector *)
(* (scheduling/asap.py) and its preview of the next CZ layer                 *)
(* (scheduling/lookahead.py).  The loop owns time and dependency progress;   *)
(* a strategy lowers each layer to actions and completes all of it, which is *)
(* all that is said of it here: some transport before, between and after.    *)
EXTENDS PhysicalCircuit, FiniteSetsExt, SequencesExt

CONSTANTS
  Limits,       \* of a layer: [cz, measure]
  Transport,    \* durations of the transport around an operation
  NoLayer       \* no CZ layer was previewed

ASSUME LoopAssumption == Transport \subseteq Nat

VARIABLES
  limit,        \* the selector's limits
  ready,        \* operations whose predecessors are finished
  unmet,        \* unfinished predecessors of each operation (remaining)
  clock,        \* time_us
  records,      \* value, end and availability of each bit measured (results)
  decisions,    \* status, start and end of each operation (operations)
  following,    \* [layer, exact]: the CZ layer previewed last, and whether no
                \* bit was on its way when the layer it was previewed for ended
  chosen        \* the layer lowered last

compilation == <<limit, ready, unmet, clock, records, decisions, following, chosen>>

Rotations == {"rx", "ry", "rz", "u", "global_ry"}
Metadata == {"barrier", "global_phase"}

Nothing == [x \in {} |-> 0]

CompilationInit ==
  /\ limit \in Limits
  /\ unmet = [n \in Nodes |-> Cardinality(Predecessors(n))]
  /\ ready = {n \in Nodes : Predecessors(n) = {}}
  /\ clock = 0 /\ chosen = {}
  /\ records = Nothing /\ decisions = Nothing
  /\ following = [layer |-> NoLayer, exact |-> FALSE]

\* The bit an operation asks for was recorded, and is available now.
Recorded(n) == Conditioned(n) => Asked(n) \in DOMAIN records
\* Variant: a recorded bit is used at once.
AvailableAtOnce(n) == Recorded(n)

\* Variant: a bit is used only after the instant it is available at.
AvailableAfter(n) == Conditioned(n) => Recorded(n) /\ records[Asked(n)].at < clock

Available(n) == Conditioned(n) => Recorded(n) /\ records[Asked(n)].at =< clock

Enabled(n) == Conditioned(n) => records[Asked(n)].value = Wants(n)

-----------------------------------------------------------------------------
(* The selector.                                                             *)

\* The operations on disjoint qubits, lowest first, up to a count.
Disjoint(ns, capacity) ==
  LET picked[n \in ns] ==
        LET layer == {m \in ns : m < n /\ picked[m]}
        IN  /\ Cardinality(layer) < capacity
            /\ \A m \in layer : circuit.ops[m].qubits \cap circuit.ops[n].qubits = {}
  IN  {n \in ns : picked[n]}

\* Local rotations go before a CZ layer.
First(ns) ==
  LET rotations == {n \in ns : Name(n) \in Rotations}
  IN  IF Name(Min(ns)) = "cz" /\ rotations # {} THEN Min(rotations) ELSE Min(ns)

Capacity(name, ns) ==
  IF name = "cz" THEN limit.cz ELSE IF name = "measure" THEN limit.measure ELSE Cardinality(ns)

Select(ns) ==
  LET name == Name(First(ns)) IN
  IF name \in (Rotations \ {"global_ry"}) \cup {"reset", "cz", "measure"}
  THEN Disjoint({n \in ns : Name(n) = name}, Capacity(name, ns))
  ELSE {Min(ns)}

-----------------------------------------------------------------------------
(* The preview of the next CZ layer: the loop run on in a copy of its        *)
(* frontier, until a layer of CZ gates, or until it cannot be known.         *)

\* ns are finished too, after those gone before in the copy.
Passed(s, ns) ==
  LET gone == s.gone \cup ns
      fresh == UNION {Successors(n) : n \in ns}
  IN  [s EXCEPT !.gone = gone,
                !.frontier = (@ \ ns) \cup
                  {m \in fresh : Cardinality(Predecessors(m) \cap gone) = unmet[m]}]

Closed(s, layer) == [s EXCEPT !.open = FALSE, !.layer = layer]

\* The layer that comes next in the copy, once nothing is left to skip.
Foreseen(s) ==
  LET layer == Select(s.frontier)
      names == {Name(n) : n \in layer}
  IN  IF names = {"cz"} THEN Closed(s, layer)
      ELSE IF names \subseteq Rotations THEN Passed(s, layer)
      ELSE Closed(s, NoLayer)

\* Variant: the branches not taken are not passed over.
LookOnUntaken(s) ==
  LET passed == {n \in s.frontier : Name(n) \in Metadata} IN
  IF ~s.open THEN s
  ELSE IF s.frontier = {} \/ \E n \in s.frontier : ~Recorded(n) THEN Closed(s, NoLayer)
  ELSE IF passed # {} THEN Passed(s, passed)
  ELSE Foreseen(s)

LookOn(s) ==
  LET passed == {n \in s.frontier : Name(n) \in Metadata \/ ~Enabled(n)} IN
  IF ~s.open THEN s
  ELSE IF s.frontier = {} \/ \E n \in s.frontier : ~Recorded(n) THEN Closed(s, NoLayer)
  ELSE IF passed # {} THEN Passed(s, passed)
  ELSE Foreseen(s)

\* Each round finishes an operation or ends, so the circuit bounds the rounds.
\* (The copy is kept in a set of one, so that each round is evaluated once.)
NextCZLayer(layer) ==
  LET start == [frontier |-> ready, gone |-> {}, open |-> TRUE, layer |-> NoLayer]
      ends == FoldLeft(LAMBDA copy, op : {LookOn(s) : s \in copy},
                       {Passed(start, layer)}, circuit.ops)
  IN  (CHOOSE s \in ends : TRUE).layer

-----------------------------------------------------------------------------
(* The loop.                                                                 *)

TimeReady == {n \in ready : Available(n)}

Pending == {records[Asked(n)].at : n \in {m \in ready : Recorded(m) /\ ~Available(m)}}

\* Variant: what was ready and not finished is forgotten.
FinishReplacing(ns) ==
  /\ unmet' = [m \in Nodes |-> unmet[m] - Cardinality(Predecessors(m) \cap ns)]
  /\ ready' = {m \in Nodes : Predecessors(m) \cap ns # {} /\ unmet'[m] = 0}

\* The operations finish, and what waited only for them is ready.
Finish(ns) ==
  /\ unmet' = [m \in Nodes |-> unmet[m] - Cardinality(Predecessors(m) \cap ns)]
  /\ ready' = (ready \ ns) \cup {m \in Nodes : Predecessors(m) \cap ns # {} /\ unmet'[m] = 0}

\* Nothing is lowered for a branch not taken, a barrier or a global phase.
Unlowered(n) == ~Enabled(n) \/ Name(n) \in Metadata

FinishMetadata ==
  LET ns == {n \in TimeReady : Unlowered(n)} IN
  /\ ns # {}
  /\ decisions' = Joined([n \in ns |->
       [status |-> IF Enabled(n) THEN "metadata" ELSE "skipped", start |-> clock, end |-> clock]],
       decisions)
  /\ Finish(ns)
  /\ UNCHANGED <<limit, clock, records, following, chosen>>

WaitUntil ==
  /\ TimeReady = {} /\ Pending # {}
  /\ clock' = Min(Pending)
  /\ UNCHANGED <<limit, ready, unmet, records, decisions, following, chosen>>

\* A layer is lowered and committed.  lead is when each operation's own
\* actions begin in the fragment, tail what follows the last of them.
Lower(layer, lead, tail) ==
  LET end(n) == clock + lead[n] + Lasts(n) IN
  /\ decisions' = Joined([n \in layer |->
       [status |-> "emitted", start |-> clock + lead[n], end |-> end(n)]], decisions)
  /\ records' = Joined([r \in {Result(n) : n \in layer \cap Measurements} |->
       LET n == CHOOSE m \in layer : Result(m) = r
       IN  [value |-> bits[n], end |-> end(n), at |-> end(n) + pace.latency]], records)
  /\ clock' = Max({clock} \cup {end(n) : n \in layer}) + tail
  /\ following' = IF \E n \in layer : Name(n) = "cz"
                  THEN [layer |-> NextCZLayer(layer),
                        exact |-> \A r \in DOMAIN records : records[r].at =< clock']
                  ELSE following
  /\ chosen' = layer
  /\ Finish(layer)
  /\ UNCHANGED limit

\* The operations of a layer act together, or in batches if they measure.
LowerLayer ==
  /\ TimeReady # {} /\ \A n \in TimeReady : ~Unlowered(n)
  /\ \E layer \in {Select(TimeReady)} : \E lead \in [layer -> Transport], tail \in Transport :
       /\ \A m, n \in layer : Name(n) # "measure" => lead[m] = lead[n]
       /\ Lower(layer, lead, tail)

CompilationStep == FinishMetadata \/ WaitUntil \/ LowerLayer

Compiled == ready = {}
=============================================================================
