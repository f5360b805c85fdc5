-------------------------- MODULE MCCaseExpansion --------------------------
(***************************************************************************)
(* Three root calls under every acyclic order of numbered roots.  One or    *)
(* two of them carry an event whose branches end, retry after a repair, or   *)
(* deliver after a nested event of the same kind, so that retries,          *)
(* recursion, results later than exits, missing components, ill-bound steps *)
(* and both budgets all occur.                                              *)
(***************************************************************************)
EXTENDS CaseExpansion

CONSTANT none

Step(component, roles) == [component |-> component, roles |-> roles]

Branch(key, transition, steps) ==
  [key |-> key, transition |-> transition, steps |-> steps]

Body(exit) == [roles |-> {"a"}, exit |-> exit, ready |-> none, branches |-> {}]

Test(ready, branches) ==
  [roles |-> {"a", "b"}, exit |-> 1, ready |-> ready, branches |-> branches]

Pass == Branch("pass", "continue", <<>>)
Again == Branch("again", "retry", <<Step("plain", {"a"}), Step("plain", {"b"})>>)
Nested == Branch("nested", "deliver",
                 <<Step("plain", {"b"}), Step("test", {"a", "b"})>>)
Missing == Branch("missing", "continue", <<Step("absent", {"a"})>>)
IllBound == Branch("illbound", "continue", <<Step("plain", {"c"})>>)

Catalogs ==
  {"plain" :> Body(exit) @@ "test" :> Test(ready, branches) :
     exit \in {0, 1}, ready \in {0, 2},
     branches \in {{Pass, Again}, {Pass, Again, Nested}, {Pass, Missing, IllBound}}}

Orders ==
  {after \in [1..3 -> SUBSET (1..2)] : \A r \in 1..3 : after[r] \subseteq 1..(r - 1)}

\* "loose" calls the test with too few participants.
RootOf(kind, after) ==
  [component |-> IF kind = "loose" THEN "test" ELSE kind, after |-> after,
   attempts |-> 2, roles |-> IF kind = "test" THEN {"a", "b"} ELSE {"a"}]

Kinds == {<<"plain", "test", "plain">>, <<"test", "plain", "test">>,
          <<"plain", "absent", "test">>, <<"test", "loose", "plain">>}

MCCases ==
  {[roots |-> [r \in 1..3 |-> RootOf(kinds[r], after[r])],
    catalog |-> catalog, limit |-> limit] :
     kinds \in Kinds, after \in Orders, catalog \in Catalogs, limit \in {3, 8}}
=============================================================================
