-------------------------- MODULE MCCompiledCircuit --------------------------
(* Circuits for CompiledCircuit: all short ones over a few operations on two *)
(* qubits and one classical bit, with and without result edges, and some     *)
(* longer ones around the preview of CZ layers.                              *)
EXTENDS CompiledCircuit

CONSTANT Bodies, Longer     \* lengths of the short circuits, which longer ones

Bit == 10

Gate(name, qubits) ==
  [name |-> name, qubits |-> qubits, wires |-> qubits, reads |-> 0, want |-> 1]
Readout(q) ==
  [name |-> "measure", qubits |-> {q}, wires |-> {q, Bit}, reads |-> 0, want |-> 1]
If(op, n, value) == [op EXCEPT !.reads = n, !.want = value]

Plain == {Gate("rz", {1}), Gate("cz", {1, 2}), Gate("barrier", {1, 2}), Readout(1), Readout(2)}
Branches ==
  {If(op, n, 1) : op \in {Gate("rz", {1}), Gate("reset", {2}), Gate("global_phase", {}), Readout(2)},
                  n \in 1..3}

Short == {ops \in UNION {[1..k -> Plain \cup Branches] : k \in Bodies} :
            /\ ops[1].name = "measure"
            /\ \A n \in DOMAIN ops : ops[n].reads # 0 =>
                 ops[n].reads < n /\ ops[ops[n].reads].name = "measure"}

\* CZ layers with rotations, a condition and a barrier between them; a
\* measurement on the way; more gates than a layer takes.
Long ==
  << <<Readout(3), Gate("cz", {1, 2}), Gate("rz", {1}), If(Gate("rx", {2}), 1, 0),
       Gate("barrier", {1, 2}), Gate("cz", {1, 2}), If(Gate("cz", {1, 3}), 1, 1)>>,
     <<Readout(3), Gate("cz", {1, 2}), If(Gate("cz", {1, 2}), 1, 0), Gate("rz", {1}),
       Readout(2), If(Gate("cz", {1, 3}), 5, 1)>>,
     <<Gate("cz", {1, 2}), Gate("cz", {3, 4}), Gate("rz", {1}), Gate("cz", {1, 3}),
       Readout(4), If(Gate("cz", {1, 2}), 5, 1), Gate("cz", {2, 3})>> >>

MCCircuits ==
  {[ops |-> ops, edges |-> Edges(ops, linked)] :
     ops \in Short \cup {Long[k] : k \in Longer}, linked \in BOOLEAN}

\* Those where a condition or a barrier comes between a measurement and another
\* operation.
MCAltered ==
  {c \in MCCircuits : /\ Len(c.ops) \in Bodies
                      /\ c.ops[2].name = "barrier" \/ c.ops[2].reads # 0
                      /\ c.ops[3].name # "measure"}

MCDurations ==
  {[rz |-> 1, rx |-> 1, cz |-> 2, reset |-> 1, measure |-> 2, barrier |-> 0, global_phase |-> 0]}
MCLimits == {[cz |-> c, measure |-> 1] : c \in {1, 2}}
=============================================================================
