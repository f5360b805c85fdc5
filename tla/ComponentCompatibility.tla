----------------------- MODULE ComponentCompatibility -----------------------
(***************************************************************************)
(* When declared component calls may run in one lockstep batch             *)
(* (modules/logical_compiler/src/scheduling/compatibility.py, over the     *)
(* declarations of modules/codes/contracts/parallel.py).                   *)
(*                                                                         *)
(* A group is a set G of call identities and D gives each its declaration. *)
(* The code compares every member with the first one; the first is the     *)
(* parameter a here.  Row trajectory and peak rows of a claim are only     *)
(* compared for equality, so one label, grid, stands for both.  So do      *)
(* declared limits and spacing compare, as limits; the capacities they     *)
(* imply are constants.                                                    *)
(***************************************************************************)
EXTENDS Integers, FiniteSets, FiniteSetsExt

CONSTANTS
  Patches,      \* patch identities
  Claims,       \* exclusive resources (AODs among them) and cells of closed space
  Aods,         \* AOD identities
  Grids,        \* labels for row trajectories with their peak rows
  Limits,       \* labels for the limits a claim declares of its AOD
  Channels,     \* readout channels
  Codes,        \* code identities
  JointFamilies,\* joint trace families
  NoFamily,     \* the code's None for a claim outside every joint family
  NoClaim,      \* the code's None for a call that shares no AOD
  MaxColumns,   \* column capacity of an AOD
  MaxReadout,   \* atoms a readout channel takes at once
  Spacing,      \* least distance of neighbouring column bands
  Columns       \* column coordinates

Modes == {"independent", "shared", "local", "exclusive", "profile"}

\* A claim on a shared AOD: a band of columns, how many of them, and the
\* readout it needs; member is the identity within a joint family, codes are
\* those the family is open to, if they are named (the code of the call itself
\* need not be).
SharedClaims ==
  {s \in [aod : Aods, grid : Grids, limits : Limits, lo : Columns, hi : Columns,
          columns : 1..MaxColumns, channel : Channels, readout : 0..MaxReadout,
          family : JointFamilies \cup {NoFamily}, member : Nat, codes : SUBSET Codes] :
     s.lo =< s.hi /\ (s.family = NoFamily => s.codes = {})}

ASSUME CompatibilityAssumption ==
  /\ MaxColumns \in Nat /\ MaxReadout \in Nat /\ Spacing \in Nat
  /\ Columns \subseteq Int /\ Aods \subseteq Claims
  /\ NoFamily \notin JointFamilies /\ NoClaim \notin SharedClaims

-----------------------------------------------------------------------------
\* Two calls that name a patch, a resource or a cell of space in common.
Pair(x, y) ==
  /\ x.patches \cap y.patches = {}
  /\ x.claims \cap y.claims = {}

Disjoint(D, G) == \A i, j \in G : i # j => Pair(D[i], D[j])

\* r follows l directly in the order of the lower ends of their bands.
Neighbours(D, G, l, r) ==
  /\ l # r /\ D[l].aod.lo =< D[r].aod.lo
  /\ ~\E m \in G : D[l].aod.lo < D[m].aod.lo /\ D[m].aod.lo < D[r].aod.lo

Bands(D, G) ==
  \A l, r \in G : Neighbours(D, G, l, r) =>
    D[r].aod.lo > D[l].aod.hi /\ D[r].aod.lo - D[l].aod.hi >= Spacing

\* Variant: columns are limited one claim at a time.
AodFitsPairwise(D, G) ==
  /\ \A i, j \in G : D[i].aod.grid = D[j].aod.grid /\ D[i].aod.limits = D[j].aod.limits
  /\ \A i, j \in G : i # j => D[i].aod.columns + D[j].aod.columns =< MaxColumns
  /\ Bands(D, G)

\* The sharers of one AOD.
AodFits(D, G) ==
  /\ \A i, j \in G : D[i].aod.grid = D[j].aod.grid /\ D[i].aod.limits = D[j].aod.limits
  /\ MapThenSumSet(LAMBDA i : D[i].aod.columns, G) =< MaxColumns
  /\ Bands(D, G)

\* A joint family is a proposal for one joint trace: members must be distinct
\* and agree; capacities are left to the execution that replays the trace.
SharedCapacity(D, G) ==
  IF \E i \in G : D[i].aod.family # NoFamily
  THEN /\ \A i, j \in G : D[i].aod.family = D[j].aod.family
       /\ \A i, j \in G : i # j => D[i].aod.member # D[j].aod.member
       /\ \A i, j \in G : /\ D[i].aod.codes = D[j].aod.codes
                          /\ D[i].aod.aod = D[j].aod.aod
                          /\ D[i].aod.limits = D[j].aod.limits
                          /\ D[i].aod.channel = D[j].aod.channel
  ELSE /\ \A a \in Aods : AodFits(D, {i \in G : D[i].aod.aod = a})
       /\ \A c \in Channels :
            MapThenSumSet(LAMBDA i : D[i].aod.readout,
                          {i \in G : D[i].aod.channel = c}) =< MaxReadout

Sharers(D, G) == {i \in G : D[i].mode = "shared"}

Joint(D, G) == {i \in Sharers(D, G) : D[i].aod.family # NoFamily}

\* Variant: the code of the first call is looked up, not that of the member.
OfJointCodeFirst(D, a, i) ==
  IF D[i].aod.codes # {} THEN D[a].code \in D[i].aod.codes ELSE D[i].code = D[a].code

\* Variant: whoever names codes is taken to be of one of them.
OfJointCodeNamed(D, a, i) == D[i].aod.codes # {} \/ D[i].code = D[a].code

\* The call is of a code its joint claim names, or else of the code of call a.
OfJointCode(D, a, i) ==
  IF D[i].aod.codes # {} THEN D[i].code \in D[i].aod.codes ELSE D[i].code = D[a].code

\* Outside joint families, a call goes with a only if it is the same component
\* of the same code for as many patches, or a local one of it.
Alike(D, a, i) ==
  /\ D[i].mode = D[a].mode /\ D[i].code = D[a].code /\ D[i].waveform = D[a].waveform
  /\ Cardinality(D[i].patches) = Cardinality(D[a].patches)
  /\ D[a].mode # "local" => D[i].component = D[a].component

\* Variant: a joint group is judged by its joint members alone.
CompatibleJointOnly(D, a, G) ==
  CASE G = {} -> FALSE
    [] Joint(D, G) # {} ->
         /\ \A i \in Joint(D, G) : OfJointCode(D, a, i)
         /\ \A i \in G : D[i].waveform = D[a].waveform
         /\ Disjoint(D, G)
         /\ SharedCapacity(D, Joint(D, G))
    [] Joint(D, G) = {} /\ D[a].mode = "profile" ->
         (\A i \in G : D[i].mode = "profile") /\ Disjoint(D, G)
    [] Joint(D, G) = {} /\ D[a].mode = "exclusive" -> Cardinality(G) = 1
    [] OTHER ->
         /\ \A i \in G : Alike(D, a, i)
         /\ Disjoint(D, G)
         /\ \A i \in Sharers(D, G), j \in G : D[i].aod.aod \notin D[j].claims
         /\ SharedCapacity(D, Sharers(D, G))

\* compatible_specs, for a group with first member a.
Compatible(D, a, G) ==
  CASE G = {} -> FALSE
    [] Joint(D, G) # {} ->
         /\ Joint(D, G) = G
         /\ \A i \in G : OfJointCode(D, a, i) /\ D[i].waveform = D[a].waveform
         /\ Disjoint(D, G)
         /\ SharedCapacity(D, G)
    [] Joint(D, G) = {} /\ D[a].mode = "profile" ->
         (\A i \in G : D[i].mode = "profile") /\ Disjoint(D, G)
    [] Joint(D, G) = {} /\ D[a].mode = "exclusive" -> Cardinality(G) = 1
    [] OTHER ->
         /\ \A i \in G : Alike(D, a, i)
         /\ Disjoint(D, G)
         /\ \A i \in Sharers(D, G), j \in G : D[i].aod.aod \notin D[j].claims
         /\ SharedCapacity(D, Sharers(D, G))
=============================================================================
