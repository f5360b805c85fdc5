------------------------- MODULE DependencyProgress -------------------------
(* What every reader of a circuit promises about it, without times: an       *)
(* operation is done only after the operations before it and, if it is       *)
(* conditioned, after its bit was heard; it acts exactly if the bit is the   *)
(* one it wants; and a bit is heard only after its measurement.              *)
EXTENDS Naturals, Sequences

VARIABLES
  circuit, bits,
  done,     \* operations that are over
  acted,    \* those of them on a branch that was taken
  heard     \* measurements whose bit was delivered

progress == <<circuit, bits, done, acted, heard>>

Nodes == DOMAIN circuit.ops
Reads(n) == circuit.ops[n].reads
Taken(n) == Reads(n) = 0 \/ bits[Reads(n)] = circuit.ops[n].want
Predecessors(n) == {m \in Nodes : <<m, n>> \in circuit.edges}

Init == done = {} /\ acted = {} /\ heard = {}

\* Operations of one instant may end together, one after another.
Advance ==
  /\ done \subseteq done' /\ done' \subseteq Nodes
  /\ heard \subseteq heard' /\ heard' \subseteq {m \in done' : circuit.ops[m].name = "measure"}
  /\ \A n \in done' \ done : /\ Predecessors(n) \subseteq done
                             /\ Reads(n) # 0 => Reads(n) \in heard
  /\ acted' = acted \cup {n \in done' \ done : Taken(n)}
  /\ UNCHANGED <<circuit, bits>>

Safe == Init /\ [][Advance]_progress
=============================================================================
