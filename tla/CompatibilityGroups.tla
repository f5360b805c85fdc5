------------------------ MODULE CompatibilityGroups ------------------------
(***************************************************************************)
(* The batching rule over every small group of declarations: a group grows *)
(* one declaration at a time, and the invariants compare the rule with     *)
(* what the scheduler and the physical execution expect of it.             *)
(***************************************************************************)
EXTENDS ComponentCompatibility, Sequences

CONSTANTS
  Declarations,   \* the declarations code owners make
  MaxGroup        \* bound on the size of a group

ASSUME GroupsAssumption ==
  /\ MaxGroup \in Nat
  /\ \A d \in Declarations : d.mode = "shared" => d.aod \in SharedClaims

VARIABLE group    \* the members, in the order they were proposed

Declaration(mode, code, component, patches, claims, waveform, aod) ==
  [mode |-> mode, code |-> code, component |-> component, patches |-> patches,
   claims |-> claims, waveform |-> waveform, aod |-> aod]

Members == DOMAIN group

GroupInit == group = <<>>

Propose(d) == Len(group) < MaxGroup /\ group' = Append(group, d)

GroupNext == \E d \in Declarations : Propose(d)

GroupSpec == GroupInit /\ [][GroupNext]_group

-----------------------------------------------------------------------------
\* Part of a compatible group is compatible, whichever member the code happens
\* to compare the others with.  The scheduler's greedy scan needs it to be
\* maximal: what did not fit an earlier, smaller batch does not fit the final one.
SubgroupsCompatible ==
  (Members # {} /\ Compatible(group, 1, Members)) =>
    \A H \in SUBSET Members, a \in Members : a \in H => Compatible(group, a, H)

\* A reference for sharing one AOD: whatever the order of the bands, every two
\* of them are Spacing apart, all columns fit together, everybody agrees on the
\* grid, and nobody in the group holds that AOD exclusively.
SharersFitDevice ==
  (Members # {} /\ Compatible(group, 1, Members) /\ Joint(group, Members) = {}) =>
    LET S(a) == {i \in Sharers(group, Members) : group[i].aod.aod = a} IN
    \A a \in Aods :
      /\ MapThenSumSet(LAMBDA i : group[i].aod.columns, S(a)) =< MaxColumns
      /\ \A i, j \in S(a) : i # j =>
           /\ group[i].aod.grid = group[j].aod.grid
           /\ \/ group[i].aod.lo - group[j].aod.hi >= Spacing
              \/ group[j].aod.lo - group[i].aod.hi >= Spacing
      /\ S(a) # {} => \A j \in Members : a \notin group[j].claims

\* A group the code accepts is sound in all its parts and fits its devices.
GroupsSound == SubgroupsCompatible /\ SharersFitDevice
=============================================================================
