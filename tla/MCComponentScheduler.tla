------------------------ MODULE MCComponentScheduler ------------------------
(* Four calls on three patches.  1 waits for an event; 2 needs both patches *)
(* of 1 and 4 and waits explicitly for 4; 4 fits with 1.  3 is scanned      *)
(* between them, but is not of the code its joint claim is open to.         *)
EXTENDS ComponentScheduler

Band(lo, hi) ==
  [aod |-> "a1", grid |-> "g", limits |-> "l", lo |-> lo, hi |-> hi, columns |-> 1,
   channel |-> "ch", readout |-> 0, family |-> NoFamily, member |-> 0, codes |-> {}]

Misnamed == [Band(0, 4) EXCEPT !.family = "f1", !.codes = {"c2"}]

Shared(patches, aod) ==
  [mode |-> "shared", code |-> "c1", component |-> "k", patches |-> patches, claims |-> {},
   waveform |-> "u", aod |-> aod]

Alone(patches) ==
  [mode |-> "exclusive", code |-> "c1", component |-> "k", patches |-> patches, claims |-> {},
   waveform |-> "v", aod |-> NoClaim]

Node(spec, preds, gates, notBefore, priority) ==
  [spec |-> spec, after |-> preds, gates |-> gates, notBefore |-> notBefore,
   priority |-> priority]

MCColumns == 0..4

MCDeclared ==
  <<Node(Shared({"p1"}, Band(0, 1)), {}, {"g1"}, 0, 1),
    Node(Alone({"p1", "p2"}), {4}, {}, 0, 0),
    Node(Shared({"p3"}, Misnamed), {}, {}, 0, 1),
    Node(Shared({"p2"}, Band(4, 4)), {}, {}, 1, 1)>>
=============================================================================
