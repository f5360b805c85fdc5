----------------------------- MODULE AtomMotion -----------------------------
(***************************************************************************)
(* Atom layouts and the checked transport of atoms by AOD lines            *)
(* (modules/physical_compiler: state.py, motion.py, replay.py).            *)
(*                                                                         *)
(* A layout gives every atom a position and a trap, and every AOD its      *)
(* active lines: rows carry y, columns carry x.  Line identities need not  *)
(* follow spatial order.  An AOD without recorded lines has an empty grid. *)
(* Coordinates are integers: two of them are the same or differ, and the   *)
(* code's tolerance of 1e-9 is left out.                                   *)
(***************************************************************************)
EXTENDS Integers, FiniteSets

CONSTANTS
  Atoms,       \* atom identities
  Sites,       \* SLM sites
  Aods,        \* AOD identities
  SiteAt,      \* position of each site
  Capacity,    \* of each AOD: [rows, columns], the most lines it can hold active
  Spacing,     \* of each AOD: least distance of neighbouring lines of an axis
  Workspace,   \* of each AOD: the region its lines stay in
  Rigid        \* the AODs whose lines move by one displacement

Point == [x : Int, y : Int]
Region == [x1 : Int, x2 : Int, y1 : Int, y2 : Int]

ASSUME DeviceAssumption ==
  /\ SiteAt \in [Sites -> Point]
  /\ Capacity \in [Aods -> [rows : Nat, columns : Nat]]
  /\ Spacing \in [Aods -> Nat]
  /\ Workspace \in [Aods -> Region]
  /\ Rigid \subseteq Aods

\* Active lines of one axis: the coordinate of each line identity.
IsLines(f) == /\ DOMAIN f \subseteq Nat /\ IsFiniteSet(DOMAIN f)
              /\ f \in [DOMAIN f -> Int]

Holders == [kind : {"slm"}, site : Sites]
           \cup [kind : {"aod"}, aod : Aods, row : Nat, column : Nat]
SLM(s) == [kind |-> "slm", site |-> s]
AOD(a, r, c) == [kind |-> "aod", aod |-> a, row |-> r, column |-> c]

IsLayout(L) ==
  /\ L = [atoms |-> L.atoms, grids |-> L.grids]
  /\ L.atoms \in [Atoms -> [pos : Point, holder : Holders]]
  /\ DOMAIN L.grids = Aods
  /\ \A a \in Aods : /\ L.grids[a] = [rows |-> L.grids[a].rows, columns |-> L.grids[a].columns]
                     /\ IsLines(L.grids[a].rows) /\ IsLines(L.grids[a].columns)

Cross(g, r, c) == [x |-> g.columns[c], y |-> g.rows[r]]

\* Some active intersection of g lies at p.
Traps(g, p) == /\ \E r \in DOMAIN g.rows : g.rows[r] = p.y
               /\ \E c \in DOMAIN g.columns : g.columns[c] = p.x

-----------------------------------------------------------------------------
\* validate_grid: capacity, workspace, and distinct lines that keep their distance.
Spaced(lines, gap) ==
  \A i, j \in DOMAIN lines :
    i # j /\ lines[i] =< lines[j] => lines[i] < lines[j] /\ lines[j] - lines[i] >= gap

Between(lines, lo, hi) == \A i \in DOMAIN lines : lo =< lines[i] /\ lines[i] =< hi

ValidGrid(a, g) ==
  /\ Cardinality(DOMAIN g.rows) =< Capacity[a].rows
  /\ Cardinality(DOMAIN g.columns) =< Capacity[a].columns
  /\ Between(g.rows, Workspace[a].y1, Workspace[a].y2)
  /\ Between(g.columns, Workspace[a].x1, Workspace[a].x2)
  /\ Spaced(g.rows, Spacing[a]) /\ Spaced(g.columns, Spacing[a])

InSlm(L, i) == L.atoms[i].holder.kind = "slm"
CarriedBy(L, i, a) == L.atoms[i].holder.kind = "aod" /\ L.atoms[i].holder.aod = a

\* _holder_position: the trap exists and the atom is where it is.
AtHolder(L, i) ==
  LET h == L.atoms[i].holder IN
  IF InSlm(L, i)
  THEN L.atoms[i].pos = SiteAt[h.site]
  ELSE /\ h.row \in DOMAIN L.grids[h.aod].rows
       /\ h.column \in DOMAIN L.grids[h.aod].columns
       /\ L.atoms[i].pos = Cross(L.grids[h.aod], h.row, h.column)

\* validate_layout.
ValidLayout(L) ==
  /\ \A a \in Aods : ValidGrid(a, L.grids[a])
  /\ \A i \in Atoms : AtHolder(L, i)
  /\ \A i, j \in Atoms : i # j => /\ L.atoms[i].holder # L.atoms[j].holder
                                  /\ L.atoms[i].pos # L.atoms[j].pos
  /\ \A i \in Atoms, a \in Aods : InSlm(L, i) => ~Traps(L.grids[a], L.atoms[i].pos)

-----------------------------------------------------------------------------
\* A transport action: the lines of one AOD afterwards, and what it does to the
\* atoms it names: at[i] is the intersection a load binds, the position a move
\* targets, or the site a store releases to.
Kinds == {"load", "move", "store"}

Keeps(old, new) == DOMAIN old \subseteq DOMAIN new /\ \A i \in DOMAIN old : new[i] = old[i]

SameOrder(old, new) ==
  /\ DOMAIN old = DOMAIN new
  /\ \A i, j \in DOMAIN old : old[i] < old[j] <=> new[i] < new[j]

Translated(old, new) ==
  \A i, j \in DOMAIN old : new[i] - old[i] = new[j] - old[j]

\* _check_grid_change and _check_rigid_change.
LinesChange(L, s) ==
  LET old == L.grids[s.aod]
      new == s.grid
  IN
  /\ ValidGrid(s.aod, new)
  /\ s.kind = "move" => SameOrder(old.rows, new.rows) /\ SameOrder(old.columns, new.columns)
  /\ s.kind = "load" => Keeps(old.rows, new.rows) /\ Keeps(old.columns, new.columns)
  /\ s.kind = "store" => Keeps(new.rows, old.rows) /\ Keeps(new.columns, old.columns)
  /\ s.aod \in Rigid =>
       /\ s.kind = "move" => Translated(old.rows, new.rows) /\ Translated(old.columns, new.columns)
       /\ s.kind = "load" /\ (\E i \in Atoms : CarriedBy(L, i, s.aod)) =>
            DOMAIN new.rows = DOMAIN old.rows /\ DOMAIN new.columns = DOMAIN old.columns

Named(s) == DOMAIN s.at

\* _check_ghosts: no SLM atom under the lines, those being loaded excepted.
NoGhosts(L, g, loaded) ==
  \A i \in Atoms \ loaded : InSlm(L, i) => ~Traps(g, L.atoms[i].pos)

Active(g, h) == h.row \in DOMAIN g.rows /\ h.column \in DOMAIN g.columns

\* Variant: a move looks for occupied places, not for SLM atoms under its lines.
MoveWithoutGhosts(L, s) ==
  LET carried == {i \in Atoms : CarriedBy(L, i, s.aod)}
      Destination(i) == Cross(s.grid, L.atoms[i].holder.row, L.atoms[i].holder.column)
  IN
  /\ Named(s) \subseteq carried
  /\ \A i \in carried :
       /\ Destination(i) = IF i \in Named(s) THEN s.at[i] ELSE L.atoms[i].pos
       /\ \A j \in Atoms \ carried : L.atoms[j].pos # Destination(i)

CheckMove(L, s) ==
  LET carried == {i \in Atoms : CarriedBy(L, i, s.aod)}
      Destination(i) == Cross(s.grid, L.atoms[i].holder.row, L.atoms[i].holder.column)
  IN
  /\ Named(s) \subseteq carried
  /\ \A i \in carried :
       /\ Destination(i) = IF i \in Named(s) THEN s.at[i] ELSE L.atoms[i].pos
       /\ \A j \in Atoms \ carried : L.atoms[j].pos # Destination(i)
  /\ NoGhosts(L, s.grid, {})

CheckLoad(L, s) ==
  /\ \A i \in Named(s) :
       /\ InSlm(L, i)
       /\ Active(s.grid, s.at[i])
       /\ L.atoms[i].pos = Cross(s.grid, s.at[i].row, s.at[i].column)
       /\ \A j \in Named(s) : i # j => s.at[i] # s.at[j]
       /\ \A j \in Atoms : L.atoms[j].holder # AOD(s.aod, s.at[i].row, s.at[i].column)
  /\ NoGhosts(L, s.grid, Named(s))

CheckStore(L, s) ==
  /\ \A i \in Named(s) :
       /\ CarriedBy(L, i, s.aod)
       /\ L.atoms[i].pos = SiteAt[s.at[i]]
       /\ \A j \in Named(s) : i # j => s.at[i] # s.at[j]
       /\ \A j \in Atoms : L.atoms[j].holder # SLM(s.at[i])
       /\ \A a \in Aods \ {s.aod} : ~Traps(L.grids[a], L.atoms[i].pos)
  /\ \A i \in Atoms :
       CarriedBy(L, i, s.aod) => (i \in Named(s) <=> ~Active(s.grid, L.atoms[i].holder))

\* _check_action, for one transport action and the layout its step starts from.
Checked(L, s) ==
  /\ LinesChange(L, s)
  /\ s.kind = "move" => CheckMove(L, s)
  /\ s.kind = "load" => CheckLoad(L, s)
  /\ s.kind = "store" => CheckStore(L, s)

\* apply_step: every action of the step acts on the layout the step starts from.
Carried(L, s, i) ==
  CASE s.kind = "load" -> [pos |-> L.atoms[i].pos, holder |-> AOD(s.aod, s.at[i].row, s.at[i].column)]
    [] s.kind = "move" -> [pos |-> s.at[i], holder |-> L.atoms[i].holder]
    [] s.kind = "store" -> [pos |-> SiteAt[s.at[i]], holder |-> SLM(s.at[i])]

Apply(L, steps) ==
  [atoms |-> [i \in Atoms |->
     IF \E s \in steps : i \in Named(s)
     THEN Carried(L, CHOOSE s \in steps : i \in Named(s), i) ELSE L.atoms[i]],
   grids |-> [a \in Aods |->
     IF \E s \in steps : s.aod = a THEN (CHOOSE s \in steps : s.aod = a).grid ELSE L.grids[a]]]
=============================================================================
