-------------------------- MODULE MCFactorySupply --------------------------
(* Small instances of FactorySupply. *)
EXTENDS FactorySupply

CONSTANTS p1, p2, c1, c2

OneConsumer == {c1}
TwoProducers == {p1, p2}
TwoConsumers == {c1, c2}
OneRole == {"W"}
=============================================================================
