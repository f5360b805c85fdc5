---------------------------- MODULE TimingChecks ----------------------------
(* The independent timing checks of a compiled result (validation_timing.py):*)
(* it derives when each operation's actions ran (spans) and when each        *)
(* measurement's ended (measured) from the program, and compares them with   *)
(* the circuit and with the result's own decisions and records.              *)
EXTENDS PhysicalCircuit

Expected(n, r) ==
  IF Conditioned(n) /\ r.records[Asked(n)].value # Wants(n) THEN "skipped"
  ELSE IF Name(n) \in {"barrier", "global_phase"} THEN "metadata" ELSE "emitted"

\* Variant: what an operation without actions reads is forgotten behind it.
HandOnUnread(on, n, r) ==
  LET incoming == UNION {on[m].after : m \in Predecessors(n)}
      conditions == IF Conditioned(n) THEN {Asked(n)} ELSE {}
  IN  [incoming |-> incoming, conditions |-> conditions,
       after |-> IF n \in DOMAIN r.spans THEN {n} ELSE incoming, awaits |-> {}]

\* Variant: the chain of dependencies breaks at an operation without actions.
HandOnActed(on, n, r) ==
  LET incoming == UNION {on[m].after : m \in Predecessors(n)}
      conditions == (IF Conditioned(n) THEN {Asked(n)} ELSE {})
                    \cup UNION {on[m].awaits : m \in Predecessors(n)}
  IN  [incoming |-> incoming, conditions |-> conditions,
       after |-> {n} \cap DOMAIN r.spans,
       awaits |-> IF n \in DOMAIN r.spans THEN {} ELSE conditions]

\* _dependencies goes through the operations in order.  One without actions
\* hands on to its successors the operations they must follow and the bits
\* they must await; one with actions only itself.
HandOn(on, n, r) ==
  LET incoming == UNION {on[m].after : m \in Predecessors(n)}
      conditions == (IF Conditioned(n) THEN {Asked(n)} ELSE {})
                    \cup UNION {on[m].awaits : m \in Predecessors(n)}
  IN  [incoming |-> incoming, conditions |-> conditions,
       after |-> IF n \in DOMAIN r.spans THEN {n} ELSE incoming,
       awaits |-> IF n \in DOMAIN r.spans THEN {} ELSE conditions]

HandedOn(r) == LET on[n \in Nodes] == HandOn(on, n, r) IN on

\* _feedback: the bit is there once it was read out and, if that was recorded
\* as later, once it was recorded to be.
HeardInTime(n, ref, r) ==
  /\ ref \in DOMAIN r.measured
  /\ r.spans[n].start >= r.measured[ref] + pace.latency
  /\ ref \in DOMAIN r.records => r.spans[n].start >= r.records[ref].at

DependenciesKept(r) ==
  LET on == HandedOn(r) IN
  \A n \in DOMAIN r.spans :
    /\ \A m \in on[n].incoming : r.spans[m].end =< r.spans[n].start
    /\ \A ref \in on[n].conditions : HeardInTime(n, ref, r)

\* _condition
DecidedAsRead(n, r) ==
  /\ Conditioned(n) => Asked(n) \in DOMAIN r.records
  /\ n \in DOMAIN r.decisions =>
       /\ r.decisions[n].status = Expected(n, r)
       /\ (n \in DOMAIN r.spans) <=> (Expected(n, r) = "emitted")

\* _operation_record
RecordedAsRun(n, r) ==
  /\ n \in DOMAIN r.decisions
  /\ n \in DOMAIN r.spans => /\ r.decisions[n].start = r.spans[n].start
                             /\ r.decisions[n].end = r.spans[n].end

\* _measurement_records
BitsRecorded(r) ==
  /\ DOMAIN r.records = DOMAIN r.measured
  /\ \A ref \in DOMAIN r.measured : r.records[ref].at >= r.measured[ref] + pace.latency

Accepts(r) ==
  /\ DependenciesKept(r)
  /\ \A n \in Nodes : DecidedAsRead(n, r) /\ RecordedAsRun(n, r)
  /\ BitsRecorded(r)
=============================================================================
