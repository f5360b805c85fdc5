----------------------- MODULE MCJointCalibrationCache -----------------------
(* Two producers of one key and a reader, or two producers of two keys.      *)
EXTENDS JointCalibrationCache

CONSTANTS p1, p2, r, k1, k2

MCRequests == {[w \in {p1, p2, r} |-> k1], [w \in {p1, p2} |-> IF w = p1 THEN k1 ELSE k2]}
=============================================================================
