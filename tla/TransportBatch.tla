--------------------------- MODULE TransportBatch ---------------------------
(***************************************************************************)
(* Lockstep composition of component calls that transport atoms            *)
(* (modules/logical_compiler: protocols/physical.py, parallel_physical.py, *)
(* shared_grid.py).  A context owns the world.  A single call commits its  *)
(* own checked steps.  An admitted wave first runs every member alone from *)
(* the context's world (lone), merges the members' steps into world, and   *)
(* re-checks the merge; it is committed whole or leaves the context as it  *)
(* was.  Members drive AODs of their own, or share one: then they share    *)
(* its rows and each has columns of its own.                               *)
(***************************************************************************)
EXTENDS AtomMotion

CONSTANTS
  Members,    \* members of a wave, numbered in the order of the admission
  LocalIds,   \* line identities a component's own program uses
  Xs, Ys,     \* coordinates programs put lines at
  Entry,      \* the layouts a context may start with
  Declared,   \* waves the scheduler may admit
  NoWave,
  MaxSteps    \* bound on the transport steps of a behaviour

\* A wave: the atoms, AODs, closed regions and AOD columns each member declares.
Bands == [lo : Int, hi : Int, rows : Nat, columns : Nat]

IsWave(w) ==
  /\ w.shared \in BOOLEAN
  /\ w.atoms \in [Members -> SUBSET Atoms] /\ w.aods \in [Members -> SUBSET Aods]
  /\ \A m \in Members : w.spaces[m] \subseteq Region
  /\ w.band \in [Members -> Bands] /\ w.ids \in [Members -> SUBSET LocalIds]

ASSUME BatchAssumption ==
  /\ Members \subseteq Nat /\ IsFiniteSet(Members) /\ Members # {}
  /\ LocalIds \subseteq Nat /\ IsFiniteSet(LocalIds)
  /\ Xs \subseteq Int /\ Ys \subseteq Int
  /\ NoWave \notin Declared
  /\ \A w \in Declared : IsWave(w)
  /\ \A L \in Entry : IsLayout(L) /\ ValidLayout(L)

VARIABLES
  context,   \* the committed world
  wave,      \* the wave being built, or NoWave
  world,     \* the merged world so far
  lone,      \* the world of each member had it run alone
  failed,    \* the checks that refuse the wave; {} while it is being built
  steps      \* transport steps tried so far

vars == <<context, wave, world, lone, failed, steps>>

-----------------------------------------------------------------------------
Inside(r, p) == r.x1 =< p.x /\ p.x =< r.x2 /\ r.y1 =< p.y /\ p.y =< r.y2

Apart(r, q) == r.x2 < q.x1 \/ q.x2 < r.x1 \/ r.y2 < q.y1 \/ q.y2 < r.y1

\* The one AOD of a shared wave.
SharedAod(w, m) == CHOOSE a \in w.aods[m] : TRUE

\* compatible_specs and _shared_capacity, for the claims of one wave.
Compatible(w) ==
  /\ \A m, n \in Members : m # n =>
       /\ w.atoms[m] \cap w.atoms[n] = {}
       /\ \A r \in w.spaces[m], q \in w.spaces[n] : Apart(r, q)
       /\ ~w.shared => w.aods[m] \cap w.aods[n] = {}
  /\ w.shared =>
       \E a \in Aods :
         /\ \A m \in Members : w.aods[m] = {a} /\ w.band[m].rows =< Capacity[a].rows
         /\ Cardinality(UNION {{m} \X (1..w.band[m].columns) : m \in Members}) =< Capacity[a].columns
         /\ \A m, n \in Members : m # n =>
              \/ w.band[m].hi < w.band[n].lo /\ w.band[n].lo - w.band[m].hi >= Spacing[a]
              \/ w.band[n].hi < w.band[m].lo /\ w.band[m].lo - w.band[n].hi >= Spacing[a]

\* _check_envelope, for the atoms a member owns and one action of its program:
\* one region holds all lines the action leaves active, and each move whole.
Enveloped(w, m, L) ==
  \A i \in w.atoms[m] : \E r \in w.spaces[m] : Inside(r, L.atoms[i].pos)

\* Variant: only the moved atoms have to stay inside, empty lines need not.
MovesWithinSpace(w, m, L, s) ==
  /\ Enveloped(w, m, L)
  /\ s.kind = "move" =>
       \A i \in Named(s) : \E r \in w.spaces[m] :
         Inside(r, L.atoms[i].pos) /\ Inside(r, s.at[i])

WithinSpace(w, m, L, s) ==
  /\ Enveloped(w, m, L)
  /\ \E r \in w.spaces[m] :
       \A i \in DOMAIN s.grid.rows, j \in DOMAIN s.grid.columns : Inside(r, Cross(s.grid, i, j))
  /\ s.kind = "move" =>
       \A i \in Named(s) : \E r \in w.spaces[m] :
         Inside(r, L.atoms[i].pos) /\ Inside(r, s.at[i])

\* Variant: the atoms an action takes are not looked at.
OwnsAod(w, m, s) == s.aod \in w.aods[m]

\* _check_ownership.
Owns(w, m, s) == s.aod \in w.aods[m] /\ Named(s) \subseteq w.atoms[m]

\* make_mappings, the demand of one action.
WithinBand(w, m, s) ==
  /\ Cardinality(DOMAIN s.grid.rows) =< w.band[m].rows
  /\ Cardinality(DOMAIN s.grid.columns) =< w.band[m].columns
  /\ Between(s.grid.columns, w.band[m].lo, w.band[m].hi)

\* make_mappings, the identities: members in order, the columns of each in
\* order, take the next free number.
Before(w, m, c) ==
  {k \in Members \X LocalIds :
     k[2] \in w.ids[k[1]] /\ (k[1] < m \/ (k[1] = m /\ k[2] < c))}
Global(w, m, c) == Cardinality(Before(w, m, c))

\* _remap.
Remapped(w, m, lines) ==
  LET new == {Global(w, m, c) : c \in DOMAIN lines} IN
  [g \in new |-> lines[CHOOSE c \in DOMAIN lines : Global(w, m, c) = g]]

\* fuse_step: one write of the shared AOD.  Kind and rows are the same for all.
First == CHOOSE m \in Members : TRUE

Fused(w, s) ==
  LET ids == UNION {DOMAIN Remapped(w, m, s[m].grid.columns) : m \in Members}
      owner(g) == CHOOSE m \in Members : g \in DOMAIN Remapped(w, m, s[m].grid.columns)
      atoms == UNION {Named(s[m]) : m \in Members}
      mover(i) == CHOOSE m \in Members : i \in Named(s[m])
  IN
  [kind |-> s[First].kind, aod |-> s[First].aod,
   grid |-> [rows |-> s[First].grid.rows,
             columns |-> [g \in ids |-> Remapped(w, owner(g), s[owner(g)].grid.columns)[g]]],
   at |-> [i \in atoms |->
             IF s[First].kind = "load"
             THEN [s[mover(i)].at[i] EXCEPT !.column = Global(w, mover(i), @)]
             ELSE s[mover(i)].at[i]]]

Merged(w, s) == IF w.shared THEN {Fused(w, s)} ELSE {s[m] : m \in Members}

\* _projection of a world on a member, and project_member, which gives the
\* columns of a shared AOD their names in the member's own program back.
Seen(w, m, L) ==
  IF ~w.shared
  THEN [atoms |-> [i \in w.atoms[m] |-> L.atoms[i]],
        grids |-> [a \in w.aods[m] |-> L.grids[a]]]
  ELSE
  LET own == {c \in w.ids[m] : Global(w, m, c) \in DOMAIN L.grids[SharedAod(w, m)].columns}
      named(h) == AOD(h.aod, h.row, CHOOSE c \in w.ids[m] : Global(w, m, c) = h.column)
  IN
  [atoms |-> [i \in w.atoms[m] |->
      IF CarriedBy(L, i, SharedAod(w, m))
      THEN [pos |-> L.atoms[i].pos, holder |-> named(L.atoms[i].holder)] ELSE L.atoms[i]],
   grids |-> [a \in w.aods[m] |->
      [rows |-> L.grids[a].rows,
       columns |-> [c \in own |-> L.grids[a].columns[Global(w, m, c)]]]]]

Alone(w, m, L) == [atoms |-> [i \in w.atoms[m] |-> L.atoms[i]],
                   grids |-> [a \in w.aods[m] |-> L.grids[a]]]

-----------------------------------------------------------------------------
\* What a program may emit next from layout L with AOD a: its grid decides the
\* rest, for the checks refuse every other choice of atoms.
LinesOver(ids, coordinates) == UNION {[d -> coordinates] : d \in SUBSET ids}

Touched(L, kind, a, g) ==
  {i \in Atoms :
     CASE kind = "load" -> InSlm(L, i) /\ Traps(g, L.atoms[i].pos)
       [] kind = "move" -> CarriedBy(L, i, a)
       [] kind = "store" -> CarriedBy(L, i, a) /\ ~Active(g, L.atoms[i].holder)}

Outcome(L, kind, g, i) ==
  CASE kind = "load" ->
         CHOOSE h \in [row : DOMAIN g.rows, column : DOMAIN g.columns] :
           Cross(g, h.row, h.column) = L.atoms[i].pos
    [] kind = "move" -> Cross(g, L.atoms[i].holder.row, L.atoms[i].holder.column)
    [] kind = "store" -> CHOOSE s \in Sites : SiteAt[s] = L.atoms[i].pos

Action(L, kind, a, g) ==
  [kind |-> kind, aod |-> a, grid |-> g,
   at |-> [i \in Touched(L, kind, a, g) |-> Outcome(L, kind, g, i)]]

Reshaped(L, kind, a, ids) ==
  LET old == L.grids[a]
      Extended(lines, d, coordinates) == {new \in LinesOver(d, coordinates) : Keeps(lines, new)}
      Reduced(lines) == {[i \in d |-> lines[i]] : d \in SUBSET DOMAIN lines}
  IN
  CASE kind = "move" ->
         [rows : [DOMAIN old.rows -> Ys], columns : [DOMAIN old.columns -> Xs]]
    [] kind = "load" ->
         [rows : Extended(old.rows, LocalIds, Ys), columns : Extended(old.columns, ids, Xs)]
    [] kind = "store" -> [rows : Reduced(old.rows), columns : Reduced(old.columns)]

HasOutcome(L, kind, i) ==
  kind = "store" => \E s \in Sites : SiteAt[s] = L.atoms[i].pos

Candidates(L, a, ids) ==
  UNION {{Action(L, kind, a, g) :
    g \in {g \in Reshaped(L, kind, a, ids) :
             \A i \in Touched(L, kind, a, g) : HasOutcome(L, kind, i)}} : kind \in Kinds}

\* Equal signatures: the same kind of action over as many lines and atoms.
SameShape(s) ==
  \A m, n \in Members :
    /\ s[m].kind = s[n].kind
    /\ Cardinality(DOMAIN s[m].grid.rows) = Cardinality(DOMAIN s[n].grid.rows)
    /\ Cardinality(DOMAIN s[m].grid.columns) = Cardinality(DOMAIN s[n].grid.columns)
    /\ Cardinality(Named(s[m])) = Cardinality(Named(s[n]))

-----------------------------------------------------------------------------
Idle(L) == /\ context' = L /\ world' = L /\ lone' = [m \in Members |-> L]
           /\ wave' = NoWave /\ failed' = {}

Init ==
  /\ context \in Entry /\ world = context /\ lone = [m \in Members |-> context]
  /\ wave = NoWave /\ failed = {} /\ steps = 0

\* invoke: a single call commits what its program does, step by step.
Call(s) ==
  /\ wave = NoWave
  /\ Checked(context, s)
  /\ Idle(Apply(context, {s}))
  /\ steps < MaxSteps /\ steps' = steps + 1

\* _check_admission.
Admit(w) ==
  /\ wave = NoWave
  /\ Compatible(w)
  /\ \A m \in Members : Enveloped(w, m, context)
  /\ w.shared => \A m \in Members : \A a \in w.aods[m] :
       DOMAIN context.grids[a].rows = {} /\ DOMAIN context.grids[a].columns = {}
  /\ wave' = w
  /\ UNCHANGED <<context, world, lone, failed, steps>>

\* What stops a wave before its step is merged, and what the merge is checked for.
Unmergeable(s) ==
  {c \in {"ownership", "band", "rows"} :
     \/ c = "ownership" /\ \E m \in Members : ~Owns(wave, m, s[m])
     \/ c = "band" /\ wave.shared /\ \E m \in Members : ~WithinBand(wave, m, s[m])
     \/ c = "rows" /\ wave.shared /\ \E m, n \in Members : s[m].grid.rows # s[n].grid.rows}

Refusals(s, next) ==
  {c \in {"layout", "space", "entry", "exit", "motion"} :
     \/ c = "layout" /\ ~ValidLayout(next)
     \/ c = "space" /\ \E m \in Members : ~WithinSpace(wave, m, lone[m], s[m])
     \/ c = "entry" /\ \E m \in Members : Seen(wave, m, world) # Alone(wave, m, lone[m])
     \/ c = "exit" /\ \E m \in Members :
          Seen(wave, m, next) # Alone(wave, m, Apply(lone[m], {s[m]}))
     \/ c = "motion" /\ \E a \in Merged(wave, s) : ~Checked(world, a)}

\* build_batch: the next step of every member, merged and checked.
Compose(s) ==
  /\ wave # NoWave /\ failed = {}
  /\ SameShape(s)
  /\ \A m \in Members : /\ s[m].aod \in wave.aods[m]
                        /\ DOMAIN s[m].grid.columns \subseteq wave.ids[m]
                        /\ Checked(lone[m], s[m])
  /\ LET next == Apply(world, Merged(wave, s))
         stop == IF Unmergeable(s) # {} THEN Unmergeable(s) ELSE Refusals(s, next)
     IN
     /\ failed' = stop
     /\ IF stop = {}
        THEN world' = next /\ lone' = [m \in Members |-> Apply(lone[m], {s[m]})]
        ELSE UNCHANGED <<world, lone>>
  /\ steps < MaxSteps /\ steps' = steps + 1
  /\ UNCHANGED <<context, wave>>

\* invoke_batch: the whole wave takes effect, or nothing of it does.
Commit == wave # NoWave /\ failed = {} /\ Idle(world) /\ UNCHANGED steps
Refuse == failed # {} /\ Idle(context) /\ UNCHANGED steps

Programs(m) == UNION {Candidates(lone[m], a, wave.ids[m]) : a \in wave.aods[m]}

Next ==
  \/ /\ wave = NoWave /\ steps < MaxSteps
     /\ \E a \in Aods : \E s \in Candidates(context, a, LocalIds) : Call(s)
  \/ \E w \in Declared : Admit(w)
  \/ /\ wave # NoWave /\ failed = {} /\ steps < MaxSteps
     /\ \E s \in [Members -> UNION {Programs(m) : m \in Members}] : Compose(s)
  \/ Commit
  \/ Refuse

Spec == Init /\ [][Next]_vars

-----------------------------------------------------------------------------
\* Every world the context or a member computes with is a valid layout.
SoundLayouts ==
  /\ ValidLayout(context) /\ ValidLayout(world)
  /\ \A m \in Members : ValidLayout(lone[m])

\* A member's atoms and lines go exactly where they would have gone alone, and
\* what no member owns stays where the wave found it.
MembersUndisturbed ==
  wave # NoWave =>
    /\ \A m \in Members : Seen(wave, m, world) = Alone(wave, m, lone[m])
    /\ \A i \in Atoms : (\A m \in Members : i \notin wave.atoms[m])
         => world.atoms[i] = context.atoms[i]
    /\ \A a \in Aods : (\A m \in Members : a \notin wave.aods[m])
         => world.grids[a] = context.grids[a]

\* The declarations suffice: when every member keeps to its declared atoms,
\* AODs, columns and regions, no check of the merged world refuses the wave.
\* The one exception is rigid: members of a shared rigid AOD may ask for
\* different displacements, which no declaration excludes.
RefusedForCause ==
  failed \cap {"layout", "entry", "exit", "motion"} # {} =>
    \/ "space" \in failed
    \/ wave.shared /\ failed = {"motion"} /\ \A m \in Members : wave.aods[m] \subseteq Rigid
=============================================================================
