-------------------------- MODULE MCTransportBatch --------------------------
(* Two members side by side on a strip four wide and two high.             *)
EXTENDS TransportBatch

P(x, y) == [x |-> x, y |-> y]
Box(x1, x2, y1, y2) == [x1 |-> x1, x2 |-> x2, y1 |-> y1, y2 |-> y2]

MCSites == {"s1", "s2", "s3", "s4"}
MCSiteAt == [s \in MCSites |-> CASE s = "s1" -> P(0, 0) [] s = "s2" -> P(1, 1)
                                 [] s = "s3" -> P(2, 0) [] s = "s4" -> P(3, 1)]
MCCapacity == [a \in Aods |-> [rows |-> 1, columns |-> 2]]
MCSpacing == [a \in Aods |-> 1]
MCWorkspace == [a \in Aods |-> Box(0, 3, 0, 1)]

NoLines == [i \in {} |-> 0]
Stored(i) == CASE i = "a1" -> "s1" [] i = "a2" -> "s3" [] i = "a3" -> "s4"
MCEntry ==
  {[atoms |-> [i \in Atoms |-> [pos |-> SiteAt[Stored(i)], holder |-> SLM(Stored(i))]],
    grids |-> [a \in Aods |-> [rows |-> NoLines, columns |-> NoLines]]]}

Two(x, y) == [m \in Members |-> IF m = 1 THEN x ELSE y]

Half(shared, aods, ids) ==
  [shared |-> shared, atoms |-> Two({"a1"}, {"a2"}), aods |-> aods,
   spaces |-> Two({Box(0, 1, 0, 1)}, {Box(2, 3, 0, 1)}),
   band |-> Two([lo |-> 0, hi |-> 1, rows |-> 1, columns |-> 1],
                [lo |-> 2, hi |-> 3, rows |-> 1, columns |-> 1]),
   ids |-> ids]

MCDeclared ==
  {Half(FALSE, Two({"d1"}, {"d2"}), Two(LocalIds, LocalIds)),
   Half(TRUE, Two({"d1"}, {"d1"}), Two({0}, {0})),
   Half(TRUE, Two({"d2"}, {"d2"}), Two({0}, {0}))}
=============================================================================
