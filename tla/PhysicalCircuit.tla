--------------------------- MODULE PhysicalCircuit ---------------------------
(* Circuits as the compiler, its checks and the feedback tester get them     *)
(* (physical_ir.py, frontend/dag.py): operations in native order, numbered   *)
(* from 1, and the edges between them.  An operation has a name, the qubits  *)
(* it acts on and the wires it is ordered by (its qubits, and the classical  *)
(* bit of a measurement).  A conditioned one reads the bit of an earlier     *)
(* measurement, named by that measurement and not by the classical bit it    *)
(* was stored in, and runs if the bit is the one it wants.                   *)
EXTENDS Naturals, Sequences, FiniteSets

CONSTANTS
  Circuits,     \* [ops, edges]
  Durations,    \* of the operations, by name
  Latencies     \* from the end of a measurement to its bit

\* Two dictionaries, the first before the second.
Joined(f, g) == [x \in DOMAIN f \cup DOMAIN g |-> IF x \in DOMAIN f THEN f[x] ELSE g[x]]

\* The operation reads nothing.
NoRead == 0

\* The two operations are neighbours on a wire.
Adjacent(ops, m, n) ==
  \E w \in ops[m].wires \cap ops[n].wires : \A k \in (m + 1)..(n - 1) : w \notin ops[k].wires

\* The importer adds an edge from a measurement to what reads it (linked); a
\* circuit built by hand need not have it.
Edges(ops, linked) ==
  {e \in (DOMAIN ops) \X (DOMAIN ops) :
     /\ e[1] < e[2]
     /\ Adjacent(ops, e[1], e[2]) \/ (linked /\ ops[e[2]].reads = e[1])}

\* What PhysicalDAG checks.  A measurement may be conditioned too; only the
\* QASM importer has none.
IsCircuit(c) ==
  /\ c.ops \in Seq({c.ops[n] : n \in DOMAIN c.ops})
  /\ \A n \in DOMAIN c.ops : c.ops[n].reads # NoRead =>
       c.ops[n].reads \in 1..(n - 1) /\ c.ops[c.ops[n].reads].name = "measure"
  /\ \A e \in c.edges : e[1] \in DOMAIN c.ops /\ e[2] \in DOMAIN c.ops /\ e[1] < e[2]

ASSUME CircuitAssumption ==
  /\ \A c \in Circuits : IsCircuit(c)
  /\ \A d \in Durations : \A c \in Circuits : \A n \in DOMAIN c.ops : d[c.ops[n].name] \in Nat
  /\ Latencies \subseteq Nat

VARIABLES
  circuit,      \* the circuit at hand
  bits,         \* what the backend answers for each measurement
  pace          \* [duration, latency] of the operations

input == <<circuit, bits, pace>>

Nodes == DOMAIN circuit.ops
Name(n) == circuit.ops[n].name
Measurements == {n \in Nodes : Name(n) = "measure"}
Predecessors(n) == {m \in Nodes : <<m, n>> \in circuit.edges}
Successors(n) == {m \in Nodes : <<n, m>> \in circuit.edges}
Lasts(n) == pace.duration[Name(n)]

\* Variant: under the classical bit it is written to.
ResultByWire(n) ==
  CHOOSE m \in Measurements : /\ circuit.ops[m].wires \ circuit.ops[m].qubits
                                   = circuit.ops[n].wires \ circuit.ops[n].qubits
                              /\ \A k \in Measurements :
                                   circuit.ops[k].wires \ circuit.ops[k].qubits
                                     = circuit.ops[n].wires \ circuit.ops[n].qubits => m =< k

\* Under which identity a measurement's bit is kept.
Result(n) == n

Conditioned(n) == circuit.ops[n].reads # NoRead
Asked(n) == Result(circuit.ops[n].reads)
Wants(n) == circuit.ops[n].want

\* FakeBackend answers by measurement, whenever it is asked.
InputInit ==
  /\ circuit \in Circuits
  /\ bits \in [Measurements -> {0, 1}]
  /\ pace \in [duration : Durations, latency : Latencies]
=============================================================================
