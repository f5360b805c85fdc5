----------------------- MODULE MCCompatibilityGroups -----------------------
(* Declarations of every mode on three patches, four columns wide.         *)
EXTENDS CompatibilityGroups

Shares(patches, claims, aod) == Declaration("shared", "c1", "k", patches, claims, "u", aod)

Band(aod, grid, lo, hi, columns, readout) ==
  [aod |-> aod, grid |-> grid, limits |-> "l", lo |-> lo, hi |-> hi, columns |-> columns,
   channel |-> "ch", readout |-> readout, family |-> NoFamily, member |-> 0, codes |-> {}]

MCColumns == 0..4
MCClaims == {"cell", "a1", "a2"}

Plain ==
  {Declaration(mode, "c1", "k", {p}, claims, "u", NoClaim) :
     mode \in {"independent", "exclusive", "profile"}, p \in {1, 2},
     claims \in {{}, {"cell"}, {"a1"}}}
  \cup {Declaration("local", "c1", k, {p}, {}, w, NoClaim) :
          k \in {"x", "z"}, p \in {1, 2}, w \in {"u", "w"}}
  \cup {Declaration("independent", "c1", "k", {1, 3}, {"a2"}, "u", NoClaim),
        Declaration("independent", "c1", "h", {2}, {}, "u", NoClaim),
        Declaration("independent", "c2", "k", {2}, {}, "u", NoClaim)}

Sharing ==
  {Shares({p}, {}, Band("a1", "g", band[1], band[2], need[1], need[2])) :
     p \in {1, 2, 3}, need \in {<<1, 0>>, <<2, 0>>, <<1, 2>>},
     band \in {<<0, 0>>, <<0, 1>>, <<2, 2>>, <<3, 4>>, <<4, 4>>}}
  \cup {Shares({3}, {"cell", "a1"}, Band("a2", "g", 3, 4, 1, 2)),
        Shares({3}, {}, Band("a1", "h", 3, 4, 1, 0)),
        Shares({3}, {}, [Band("a1", "g", 3, 4, 1, 0) EXCEPT !.limits = "m"])}

\* Members of a joint trace, of one code or open to named ones; among them some
\* that are not of a code they name.
InFamily(family, member, codes) ==
  [Band("a1", "g", 0, 4, 1, 0) EXCEPT !.family = family, !.member = member, !.codes = codes]

JointTrace ==
  {Declaration("shared", c, "k", {p}, {}, "u", InFamily(f, k, {})) :
     c \in Codes, p \in {1, 2, 4}, f \in JointFamilies, k \in {1, 2}}
  \cup {Declaration("shared", c, k, {p}, {}, "u", InFamily("f1", p, codes)) :
          c \in Codes, k \in {"k", "h"}, p \in {1, 2}, codes \in {{"c1"}, {"c1", "c2"}}}
  \cup {Shares({4}, {}, [InFamily("f1", 4, {}) EXCEPT !.grid = "h"]),
        Shares({4}, {}, [InFamily("f1", 4, {}) EXCEPT !.limits = "m"])}

MCDeclarations == Plain \cup Sharing \cup JointTrace
=============================================================================
