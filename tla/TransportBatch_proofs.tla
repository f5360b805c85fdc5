------------------------ MODULE TransportBatch_proofs ------------------------
(***************************************************************************)
(* First one action: the checks of motion.py establish for it what          *)
(* validate_layout asks of the layout it leads to, on every device.         *)
(* Then whole waves, for any declared ones: every world a context or a wave *)
(* computes with is a valid layout (a member's own run and a single call by  *)
(* CheckedKeepsValid, the merged world because it is validated before it is  *)
(* kept, and typed because the merged steps are transport actions again),    *)
(* and members do not disturb one another.                                  *)
(* Last what the declarations are enough for: worlds that members made       *)
(* within their declarations join to a valid layout (JoinValid), the merged  *)
(* world is their join (WaveInv), and an action on it that leads to a valid   *)
(* layout passes the checks (SafeIsChecked).                                *)
(***************************************************************************)
EXTENDS TransportBatch, FiniteSetTheorems, TLAPS

IsGrid(g) == /\ g = [rows |-> g.rows, columns |-> g.columns]
             /\ IsLines(g.rows) /\ IsLines(g.columns)

\* A transport action whose bindings name atoms, intersections and sites.
IsAction(s) ==
  /\ s.kind \in Kinds /\ s.aod \in Aods /\ IsGrid(s.grid)
  /\ Named(s) \subseteq Atoms
  /\ s.kind = "load" => \A i \in Named(s) : s.at[i] \in [row : Nat, column : Nat]
  /\ s.kind = "store" => \A i \in Named(s) : s.at[i] \in Sites

\* One action moves the atoms it names and the lines of its device, nothing else.
LEMMA ApplyOne ==
  ASSUME NEW L, NEW s
  PROVE /\ \A i \in Atoms :
             Apply(L, {s}).atoms[i] = IF i \in Named(s) THEN Carried(L, s, i) ELSE L.atoms[i]
        /\ \A a \in Aods :
             Apply(L, {s}).grids[a] = IF a = s.aod THEN s.grid ELSE L.grids[a]
<1>1. \A i \in Atoms : (\E t \in {s} : i \in Named(t)) <=> i \in Named(s)
  OBVIOUS
<1>2. \A i \in Atoms : i \in Named(s) => (CHOOSE t \in {s} : i \in Named(t)) = s
  OBVIOUS
<1>3. \A a \in Aods : (\E t \in {s} : t.aod = a) <=> a = s.aod
  OBVIOUS
<1>4. \A a \in Aods : a = s.aod => (CHOOSE t \in {s} : t.aod = a) = s
  OBVIOUS
<1> QED BY <1>1, <1>2, <1>3, <1>4 DEF Apply

\* Lines that keep their spacing are distinct.
LEMMA DistinctLines ==
  ASSUME NEW f, IsLines(f), NEW gap, Spaced(f, gap),
         NEW p \in DOMAIN f, NEW q \in DOMAIN f, f[p] = f[q]
  PROVE p = q
<1>1. f[p] \in Int /\ f[q] \in Int
  BY DEF IsLines
<1> QED BY <1>1 DEF Spaced

\* A move: carried atoms follow their lines, everything else stays.
LEMMA MoveKeepsValid ==
  ASSUME NEW L, IsLayout(L), ValidLayout(L),
         NEW s, IsAction(s), s.kind = "move", Checked(L, s)
  PROVE ValidLayout(Apply(L, {s}))
<1> DEFINE M == Apply(L, {s})
           a == s.aod
<1> HIDE DEF M
<1>0. \A i : Carried(L, s, i) = [pos |-> s.at[i], holder |-> L.atoms[i].holder]
  BY DEF Carried
<1>1. /\ \A i \in Atoms : M.atoms[i] = IF i \in Named(s)
                          THEN [pos |-> s.at[i], holder |-> L.atoms[i].holder] ELSE L.atoms[i]
      /\ \A b \in Aods : M.grids[b] = IF b = a THEN s.grid ELSE L.grids[b]
  BY <1>0, ApplyOne DEF M
<1>2. /\ ValidGrid(a, s.grid) /\ a \in Aods
      /\ CheckMove(L, s)
      /\ DOMAIN s.grid.rows = DOMAIN L.grids[a].rows
      /\ DOMAIN s.grid.columns = DOMAIN L.grids[a].columns
  BY DEF Checked, LinesChange, SameOrder, IsAction
<1>3. ASSUME NEW i \in Atoms
      PROVE /\ M.atoms[i].holder = L.atoms[i].holder
            /\ M.atoms[i].pos = IF i \in Named(s) THEN s.at[i] ELSE L.atoms[i].pos
  <2>1. CASE i \in Named(s)
    <3>1. M.atoms[i] = [pos |-> s.at[i], holder |-> L.atoms[i].holder]
      BY <2>1, <1>1
    <3> QED BY <3>1, <2>1
  <2>2. CASE i \notin Named(s)
    BY <2>2, <1>1
  <2> QED BY <2>1, <2>2
<1>4. \A i \in Atoms : CarriedBy(L, i, a) =>
        M.atoms[i].pos = Cross(s.grid, L.atoms[i].holder.row, L.atoms[i].holder.column)
  BY <1>2, <1>3 DEF CheckMove
<1>5. \A i \in Atoms : ~CarriedBy(L, i, a) => M.atoms[i] = L.atoms[i]
  BY <1>1, <1>2 DEF CheckMove
<1>6. \A b \in Aods : ValidGrid(b, M.grids[b])
  BY <1>1, <1>2 DEF ValidLayout
<1>7. \A i \in Atoms : AtHolder(M, i)
  <2> SUFFICES ASSUME NEW i \in Atoms PROVE AtHolder(M, i)
    OBVIOUS
  <2>1. AtHolder(L, i) /\ L.atoms[i].holder \in Holders
    BY DEF ValidLayout, IsLayout
  <2>2. CASE CarriedBy(L, i, a)
    <3>1. /\ M.atoms[i].holder = L.atoms[i].holder /\ M.grids[a] = s.grid
          /\ M.atoms[i].pos = Cross(s.grid, L.atoms[i].holder.row, L.atoms[i].holder.column)
      BY <2>2, <1>1, <1>2, <1>3, <1>4
    <3> QED BY <2>1, <2>2, <1>2, <3>1 DEF AtHolder, InSlm, CarriedBy
  <2>3. CASE ~CarriedBy(L, i, a)
    BY <2>1, <2>3, <1>1, <1>5 DEF AtHolder, InSlm, CarriedBy, Holders
  <2> QED BY <2>2, <2>3
<1>8. ASSUME NEW i \in Atoms, NEW j \in Atoms, i # j
      PROVE /\ M.atoms[i].holder # M.atoms[j].holder
            /\ M.atoms[i].pos # M.atoms[j].pos
  <2>1. M.atoms[i].holder # M.atoms[j].holder
    BY <1>3, <1>8 DEF ValidLayout
  <2>2. CASE CarriedBy(L, i, a) /\ CarriedBy(L, j, a)
    <3> DEFINE h == L.atoms[i].holder
               k == L.atoms[j].holder
    <3>1. /\ h \in Holders /\ k \in Holders /\ h # k
          /\ h.kind = "aod" /\ k.kind = "aod" /\ h.aod = a /\ k.aod = a
      BY <2>2, <1>8 DEF CarriedBy, ValidLayout, IsLayout
    <3>2. h.row # k.row \/ h.column # k.column
      BY <3>1 DEF Holders
    <3>3. /\ h.row \in DOMAIN s.grid.rows /\ k.row \in DOMAIN s.grid.rows
          /\ h.column \in DOMAIN s.grid.columns /\ k.column \in DOMAIN s.grid.columns
      BY <2>2, <1>2 DEF ValidLayout, AtHolder, InSlm, CarriedBy
    <3>4. /\ \A p, q \in DOMAIN s.grid.rows : p # q => s.grid.rows[p] # s.grid.rows[q]
          /\ \A p, q \in DOMAIN s.grid.columns : p # q => s.grid.columns[p] # s.grid.columns[q]
      BY <1>2, DistinctLines DEF ValidGrid, IsAction, IsGrid
    <3>5. s.grid.rows[h.row] # s.grid.rows[k.row] \/ s.grid.columns[h.column] # s.grid.columns[k.column]
      BY <3>2, <3>3, <3>4
    <3>6. Cross(s.grid, h.row, h.column) # Cross(s.grid, k.row, k.column)
      BY <3>5 DEF Cross
    <3> QED BY <3>6, <2>1, <2>2, <1>4
  <2>3. CASE CarriedBy(L, i, a) /\ ~CarriedBy(L, j, a)
    BY <2>1, <2>3, <1>2, <1>4, <1>5 DEF CheckMove
  <2>4. CASE ~CarriedBy(L, i, a) /\ CarriedBy(L, j, a)
    BY <2>1, <2>4, <1>2, <1>4, <1>5 DEF CheckMove
  <2>5. CASE ~CarriedBy(L, i, a) /\ ~CarriedBy(L, j, a)
    BY <2>1, <2>5, <1>5, <1>8 DEF ValidLayout
  <2> QED BY <2>2, <2>3, <2>4, <2>5
<1>9. ASSUME NEW i \in Atoms, NEW b \in Aods, InSlm(M, i)
      PROVE ~Traps(M.grids[b], M.atoms[i].pos)
  <2>1. ~CarriedBy(L, i, a) /\ InSlm(L, i) /\ M.atoms[i] = L.atoms[i]
    BY <1>3, <1>5, <1>9 DEF InSlm, CarriedBy
  <2> QED BY <2>1, <1>1, <1>2 DEF ValidLayout, CheckMove, NoGhosts
<1> QED BY <1>6, <1>7, <1>8, <1>9 DEF ValidLayout, M

\* A load: the atoms on the active intersections change trap, none changes place.
LEMMA LoadKeepsValid ==
  ASSUME NEW L, IsLayout(L), ValidLayout(L),
         NEW s, IsAction(s), s.kind = "load", Checked(L, s)
  PROVE ValidLayout(Apply(L, {s}))
<1> DEFINE M == Apply(L, {s})
           a == s.aod
           Bound(i) == AOD(a, s.at[i].row, s.at[i].column)
<1> HIDE DEF M
<1>0. \A i : Carried(L, s, i) = [pos |-> L.atoms[i].pos, holder |-> Bound(i)]
  BY DEF Carried
<1>1. /\ \A i \in Atoms : M.atoms[i] = IF i \in Named(s)
                          THEN [pos |-> L.atoms[i].pos, holder |-> Bound(i)] ELSE L.atoms[i]
      /\ \A b \in Aods : M.grids[b] = IF b = a THEN s.grid ELSE L.grids[b]
  BY <1>0, ApplyOne DEF M
<1>2. /\ ValidGrid(a, s.grid) /\ a \in Aods
      /\ CheckLoad(L, s)
      /\ Keeps(L.grids[a].rows, s.grid.rows) /\ Keeps(L.grids[a].columns, s.grid.columns)
  BY DEF Checked, LinesChange, IsAction
<1>3. ASSUME NEW i \in Atoms
      PROVE /\ M.atoms[i].pos = L.atoms[i].pos
            /\ i \in Named(s) => M.atoms[i].holder = Bound(i)
            /\ i \notin Named(s) => M.atoms[i] = L.atoms[i]
  <2>1. CASE i \in Named(s)
    <3>1. M.atoms[i] = [pos |-> L.atoms[i].pos, holder |-> Bound(i)]
      BY <2>1, <1>1
    <3> QED BY <3>1, <2>1
  <2>2. CASE i \notin Named(s)
    BY <2>2, <1>1
  <2> QED BY <2>1, <2>2
<1>4. \A i \in Atoms : Bound(i).kind = "aod" /\ Bound(i).aod = a
                       /\ Bound(i).row = s.at[i].row /\ Bound(i).column = s.at[i].column
  BY DEF AOD
<1> HIDE DEF Bound
<1>6. \A b \in Aods : ValidGrid(b, M.grids[b])
  BY <1>1, <1>2 DEF ValidLayout
<1>7. ASSUME NEW i \in Atoms PROVE AtHolder(M, i)
  <2>1. AtHolder(L, i) /\ L.atoms[i].holder \in Holders
    BY DEF ValidLayout, IsLayout
  <2>2. CASE i \in Named(s)
    <3>1. /\ s.at[i].row \in DOMAIN s.grid.rows /\ s.at[i].column \in DOMAIN s.grid.columns
          /\ L.atoms[i].pos = Cross(s.grid, s.at[i].row, s.at[i].column)
      BY <2>2, <1>2 DEF CheckLoad, Active
    <3>2. M.grids[a] = s.grid
      BY <1>1, <1>2
    <3> QED BY <3>1, <3>2, <2>2, <1>3, <1>4 DEF AtHolder, InSlm
  <2>3. CASE i \notin Named(s) /\ InSlm(L, i)
    BY <2>1, <2>3, <1>3 DEF AtHolder, InSlm
  <2>4. CASE i \notin Named(s) /\ CarriedBy(L, i, a)
    <3> DEFINE h == L.atoms[i].holder
    <3>1. /\ h.row \in DOMAIN L.grids[a].rows /\ h.column \in DOMAIN L.grids[a].columns
          /\ L.atoms[i].pos = Cross(L.grids[a], h.row, h.column)
      BY <2>1, <2>4 DEF AtHolder, InSlm, CarriedBy
    <3>2. /\ h.row \in DOMAIN s.grid.rows /\ h.column \in DOMAIN s.grid.columns
          /\ Cross(s.grid, h.row, h.column) = Cross(L.grids[a], h.row, h.column)
      BY <3>1, <1>2 DEF Keeps, Cross
    <3>3. M.grids[a] = s.grid
      BY <1>1, <1>2
    <3>4. M.atoms[i] = L.atoms[i]
      BY <2>4, <1>3
    <3>5. h.kind = "aod" /\ h.aod = a
      BY <2>4 DEF CarriedBy
    <3> HIDE DEF M, a, h
    <3>6. L.atoms[i].pos = Cross(s.grid, h.row, h.column)
      BY <3>1, <3>2
    <3> QED BY <3>2, <3>3, <3>4, <3>5, <3>6 DEF AtHolder, InSlm, h
  <2>5. CASE i \notin Named(s) /\ ~InSlm(L, i) /\ ~CarriedBy(L, i, a)
    BY <2>1, <2>5, <1>1, <1>3 DEF AtHolder, InSlm, CarriedBy, Holders
  <2> QED BY <2>2, <2>3, <2>4, <2>5
<1>8. ASSUME NEW i \in Atoms, NEW j \in Atoms, i # j
      PROVE /\ M.atoms[i].holder # M.atoms[j].holder
            /\ M.atoms[i].pos # M.atoms[j].pos
  <2>1. M.atoms[i].pos # M.atoms[j].pos
    BY <1>3, <1>8 DEF ValidLayout
  <2>2. \A k \in Named(s) : \A l \in Atoms : L.atoms[l].holder # Bound(k)
    BY <1>2 DEF CheckLoad, Bound
  <2>3. CASE i \in Named(s) /\ j \in Named(s)
    <3>1. s.at[i] # s.at[j] /\ Active(s.grid, s.at[i]) /\ Active(s.grid, s.at[j])
      BY <2>3, <1>2, <1>8 DEF CheckLoad
    <3>2. s.at[i].row # s.at[j].row \/ s.at[i].column # s.at[j].column
      BY <3>1, <2>3 DEF IsAction
    <3>3. Bound(i) # Bound(j)
      BY <3>2, <1>4
    <3> QED BY <3>3, <2>1, <2>3, <1>3
  <2>4. CASE i \in Named(s) /\ j \notin Named(s)
    BY <2>1, <2>2, <2>4, <1>3
  <2>5. CASE i \notin Named(s) /\ j \in Named(s)
    BY <2>1, <2>2, <2>5, <1>3
  <2>6. CASE i \notin Named(s) /\ j \notin Named(s)
    BY <2>1, <2>6, <1>3, <1>8 DEF ValidLayout
  <2> QED BY <2>3, <2>4, <2>5, <2>6
<1>9. ASSUME NEW i \in Atoms, NEW b \in Aods, InSlm(M, i)
      PROVE ~Traps(M.grids[b], M.atoms[i].pos)
  <2>1. i \notin Named(s) /\ InSlm(L, i)
    BY <1>3, <1>4, <1>9 DEF InSlm
  <2> QED BY <2>1, <1>1, <1>2, <1>3 DEF ValidLayout, CheckLoad, NoGhosts
<1> QED BY <1>6, <1>7, <1>8, <1>9 DEF ValidLayout, M

\* A store: the atoms whose intersections go are in their sites, nobody moves.
LEMMA StoreKeepsValid ==
  ASSUME NEW L, IsLayout(L), ValidLayout(L),
         NEW s, IsAction(s), s.kind = "store", Checked(L, s)
  PROVE ValidLayout(Apply(L, {s}))
<1> DEFINE M == Apply(L, {s})
           a == s.aod
           To(i) == SLM(s.at[i])
<1> HIDE DEF M
<1>0. \A i : Carried(L, s, i) = [pos |-> SiteAt[s.at[i]], holder |-> To(i)]
  BY DEF Carried
<1> HIDE DEF To
<1>1. /\ \A i \in Atoms : M.atoms[i] = IF i \in Named(s)
                          THEN [pos |-> SiteAt[s.at[i]], holder |-> To(i)] ELSE L.atoms[i]
      /\ \A b \in Aods : M.grids[b] = IF b = a THEN s.grid ELSE L.grids[b]
  BY <1>0, ApplyOne DEF M
<1>2. /\ ValidGrid(a, s.grid) /\ a \in Aods
      /\ CheckStore(L, s)
      /\ Keeps(s.grid.rows, L.grids[a].rows) /\ Keeps(s.grid.columns, L.grids[a].columns)
  BY DEF Checked, LinesChange, IsAction
<1>3. ASSUME NEW i \in Atoms
      PROVE /\ M.atoms[i].pos = L.atoms[i].pos
            /\ i \in Named(s) => M.atoms[i].holder = To(i) /\ L.atoms[i].pos = SiteAt[s.at[i]]
            /\ i \notin Named(s) => M.atoms[i] = L.atoms[i]
  <2>1. CASE i \in Named(s)
    <3>1. M.atoms[i] = [pos |-> SiteAt[s.at[i]], holder |-> To(i)]
      BY <2>1, <1>1
    <3>2. L.atoms[i].pos = SiteAt[s.at[i]]
      BY <2>1, <1>2 DEF CheckStore
    <3> QED BY <3>1, <3>2, <2>1
  <2>2. CASE i \notin Named(s)
    BY <2>2, <1>1
  <2> QED BY <2>1, <2>2
<1>4. \A i \in Atoms : To(i).kind = "slm" /\ To(i).site = s.at[i]
  BY DEF SLM, To
<1>5. \A p : Traps(s.grid, p) => Traps(L.grids[a], p)
  BY <1>2 DEF Traps, Keeps
<1>6. \A b \in Aods : ValidGrid(b, M.grids[b])
  BY <1>1, <1>2 DEF ValidLayout
<1>7. ASSUME NEW i \in Atoms PROVE AtHolder(M, i)
  <2>1. AtHolder(L, i) /\ L.atoms[i].holder \in Holders
    BY DEF ValidLayout, IsLayout
  <2>2. CASE i \in Named(s)
    BY <2>2, <1>3, <1>4 DEF AtHolder, InSlm
  <2>3. CASE i \notin Named(s) /\ InSlm(L, i)
    BY <2>1, <2>3, <1>3 DEF AtHolder, InSlm
  <2>4. CASE i \notin Named(s) /\ CarriedBy(L, i, a)
    <3> DEFINE h == L.atoms[i].holder
    <3>1. L.atoms[i].pos = Cross(L.grids[a], h.row, h.column)
      BY <2>1, <2>4 DEF AtHolder, InSlm, CarriedBy
    <3>2. h.row \in DOMAIN s.grid.rows /\ h.column \in DOMAIN s.grid.columns
      BY <2>4, <1>2 DEF CheckStore, Active
    <3>3. Cross(s.grid, h.row, h.column) = Cross(L.grids[a], h.row, h.column)
      BY <3>2, <1>2 DEF Keeps, Cross
    <3> QED BY <3>1, <3>2, <3>3, <2>4, <1>1, <1>2, <1>3 DEF AtHolder, InSlm, CarriedBy
  <2>5. CASE i \notin Named(s) /\ ~InSlm(L, i) /\ ~CarriedBy(L, i, a)
    BY <2>1, <2>5, <1>1, <1>3 DEF AtHolder, InSlm, CarriedBy, Holders
  <2> QED BY <2>2, <2>3, <2>4, <2>5
<1>8. ASSUME NEW i \in Atoms, NEW j \in Atoms, i # j
      PROVE /\ M.atoms[i].holder # M.atoms[j].holder
            /\ M.atoms[i].pos # M.atoms[j].pos
  <2>1. M.atoms[i].pos # M.atoms[j].pos
    BY <1>3, <1>8 DEF ValidLayout
  <2>2. \A k \in Named(s) : \A l \in Atoms : L.atoms[l].holder # To(k)
    BY <1>2 DEF CheckStore, To
  <2>3. CASE i \in Named(s) /\ j \in Named(s)
    <3>1. s.at[i] # s.at[j]
      BY <2>3, <1>2, <1>8 DEF CheckStore
    <3> QED BY <3>1, <2>1, <2>3, <1>3, <1>4
  <2>4. CASE i \in Named(s) /\ j \notin Named(s)
    BY <2>1, <2>2, <2>4, <1>3
  <2>5. CASE i \notin Named(s) /\ j \in Named(s)
    BY <2>1, <2>2, <2>5, <1>3
  <2>6. CASE i \notin Named(s) /\ j \notin Named(s)
    BY <2>1, <2>6, <1>3, <1>8 DEF ValidLayout
  <2> QED BY <2>3, <2>4, <2>5, <2>6
<1>9. ASSUME NEW i \in Atoms, NEW b \in Aods, InSlm(M, i)
      PROVE ~Traps(M.grids[b], M.atoms[i].pos)
  <2>1. CASE i \notin Named(s)
    BY <2>1, <1>1, <1>3, <1>5, <1>9 DEF ValidLayout, InSlm
  <2>2. CASE i \in Named(s) /\ b # a
    BY <2>2, <1>1, <1>2, <1>3 DEF CheckStore
  <2>3. CASE i \in Named(s) /\ b = a
    <3> DEFINE h == L.atoms[i].holder
    <3>1. /\ h.row \in DOMAIN L.grids[a].rows /\ h.column \in DOMAIN L.grids[a].columns
          /\ L.atoms[i].pos = Cross(L.grids[a], h.row, h.column)
      BY <2>3, <1>2 DEF CheckStore, CarriedBy, ValidLayout, AtHolder, InSlm
    <3>2. ~Active(s.grid, h)
      BY <2>3, <1>2 DEF CheckStore
    <3>3. /\ \A p, q \in DOMAIN L.grids[a].rows : L.grids[a].rows[p] = L.grids[a].rows[q] => p = q
          /\ \A p, q \in DOMAIN L.grids[a].columns :
               L.grids[a].columns[p] = L.grids[a].columns[q] => p = q
      BY <1>2, DistinctLines DEF ValidLayout, ValidGrid, IsLayout
    <3>4. ASSUME Traps(s.grid, L.atoms[i].pos) PROVE FALSE
      <4>1. PICK r \in DOMAIN s.grid.rows, c \in DOMAIN s.grid.columns :
              s.grid.rows[r] = L.atoms[i].pos.y /\ s.grid.columns[c] = L.atoms[i].pos.x
        BY <3>4 DEF Traps
      <4>2. /\ r \in DOMAIN L.grids[a].rows /\ L.grids[a].rows[r] = L.grids[a].rows[h.row]
            /\ c \in DOMAIN L.grids[a].columns /\ L.grids[a].columns[c] = L.grids[a].columns[h.column]
        <5>1. /\ L.atoms[i].pos.x = L.grids[a].columns[h.column]
              /\ L.atoms[i].pos.y = L.grids[a].rows[h.row]
          BY <3>1 DEF Cross
        <5> QED BY <5>1, <4>1, <1>2 DEF Keeps
      <4>3. r = h.row /\ c = h.column
        BY <4>2, <3>1, <3>3
      <4> QED BY <4>1, <4>3, <3>2 DEF Active
    <3> QED BY <3>4, <2>3, <1>1, <1>2, <1>3
  <2> QED BY <2>1, <2>2, <2>3
<1> QED BY <1>6, <1>7, <1>8, <1>9 DEF ValidLayout, M

\* A checked action leads from layouts to layouts.
LEMMA CheckedKeepsLayout ==
  ASSUME NEW L, IsLayout(L), ValidLayout(L),
         NEW s, IsAction(s), Checked(L, s)
  PROVE IsLayout(Apply(L, {s}))
<1> DEFINE M == Apply(L, {s})
<1>1. M = [atoms |-> M.atoms, grids |-> M.grids] /\ DOMAIN M.grids = Aods
  BY DEF Apply
<1>2. ASSUME NEW b \in Aods
      PROVE /\ M.grids[b] = [rows |-> M.grids[b].rows, columns |-> M.grids[b].columns]
            /\ IsLines(M.grids[b].rows) /\ IsLines(M.grids[b].columns)
  <2>1. M.grids[b] = s.grid \/ M.grids[b] = L.grids[b]
    BY ApplyOne
  <2> HIDE DEF M
  <2> QED BY <2>1 DEF IsLayout, IsAction, IsGrid
<1>3. ASSUME NEW i \in Atoms
      PROVE M.atoms[i] \in [pos : Point, holder : Holders]
  <2>0. L.atoms[i] \in [pos : Point, holder : Holders]
    BY DEF IsLayout
  <2>1. CASE i \notin Named(s)
    BY <2>0, <2>1, ApplyOne
  <2>2. CASE i \in Named(s)
    <3>1. M.atoms[i] = Carried(L, s, i)
      BY <2>2, ApplyOne
    <3>2. CASE s.kind = "load"
      <4>1. s.aod \in Aods /\ s.at[i].row \in Nat /\ s.at[i].column \in Nat
        BY <2>2, <3>2 DEF IsAction
      <4>2. AOD(s.aod, s.at[i].row, s.at[i].column) \in Holders
        BY <4>1 DEF AOD, Holders
      <4> QED BY <4>2, <3>1, <3>2, <2>0 DEF Carried
    <3>3. CASE s.kind = "move"
      <4>1. /\ s.at[i] = Cross(s.grid, L.atoms[i].holder.row, L.atoms[i].holder.column)
            /\ CarriedBy(L, i, s.aod)
        BY <2>2, <3>3 DEF Checked, CheckMove
      <4>2. /\ L.atoms[i].holder.row \in DOMAIN s.grid.rows
            /\ L.atoms[i].holder.column \in DOMAIN s.grid.columns
        BY <4>1, <3>3 DEF Checked, LinesChange, SameOrder, ValidLayout, AtHolder, InSlm, CarriedBy
      <4>3. s.at[i] \in Point
        BY <4>1, <4>2 DEF IsAction, IsGrid, IsLines, Cross, Point
      <4> QED BY <4>3, <3>1, <3>3, <2>0 DEF Carried
    <3>4. CASE s.kind = "store"
      <4>1. s.at[i] \in Sites
        BY <2>2, <3>4 DEF IsAction
      <4>2. SiteAt[s.at[i]] \in Point /\ SLM(s.at[i]) \in Holders
        BY <4>1, DeviceAssumption DEF SLM, Holders
      <4> QED BY <4>2, <3>1, <3>4 DEF Carried
    <3> QED BY <3>2, <3>3, <3>4 DEF IsAction, Kinds
  <2> QED BY <2>1, <2>2
<1>4. M.atoms \in [Atoms -> [pos : Point, holder : Holders]]
  <2>1. M.atoms = [i \in Atoms |-> M.atoms[i]]
    BY DEF Apply
  <2> HIDE DEF M
  <2> QED BY <2>1, <1>3
<1> HIDE DEF M
<1>5. IsLayout(M)
  BY <1>1, <1>2, <1>4 DEF IsLayout
<1> QED BY <1>5 DEF M

\* The checks of one transport action, on any device and from any valid layout,
\* admit only actions that lead to a valid layout: no two atoms share a trap or
\* a place, every atom is where its trap is, no SLM atom is under active lines.
THEOREM CheckedKeepsValid ==
  ASSUME NEW L, IsLayout(L), ValidLayout(L),
         NEW s, IsAction(s), Checked(L, s)
  PROVE IsLayout(Apply(L, {s})) /\ ValidLayout(Apply(L, {s}))
  BY CheckedKeepsLayout, MoveKeepsValid, LoadKeepsValid, StoreKeepsValid DEF IsAction, Kinds

-----------------------------------------------------------------------------
\* The layouts are well formed and the wave is a declared one.
WellFormed ==
  /\ IsLayout(context) /\ IsLayout(world)
  /\ \A m \in Members : IsLayout(lone[m])
  /\ wave # NoWave => wave \in Declared

\* Between waves nothing is left of one.
AtRest == wave = NoWave => world = context /\ \A m \in Members : lone[m] = context

BatchInv == WellFormed /\ SoundLayouts /\ AtRest

-----------------------------------------------------------------------------
\* Lines over finite sets of identities are lines.
LEMMA ReducedLines ==
  ASSUME NEW f, IsLines(f), NEW d \in SUBSET DOMAIN f
  PROVE IsLines([i \in d |-> f[i]])
<1>1. IsFiniteSet(d)
  BY FS_Subset DEF IsLines
<1> QED BY <1>1 DEF IsLines

\* Lines over finitely many identities are lines.
LEMMA NewLines ==
  ASSUME NEW ids \in SUBSET Nat, IsFiniteSet(ids),
         NEW coordinates \in SUBSET Int, NEW f \in LinesOver(ids, coordinates)
  PROVE IsLines(f)
<1>1. PICK d \in SUBSET ids : f \in [d -> coordinates]
  BY DEF LinesOver
<1>2. IsFiniteSet(d)
  BY FS_Subset
<1> QED BY <1>1, <1>2 DEF IsLines

\* A program's grid is a grid.
LEMMA ReshapedIsGrid ==
  ASSUME NEW L, IsLayout(L), NEW a \in Aods, NEW ids \in SUBSET LocalIds,
         NEW kind \in Kinds, NEW g \in Reshaped(L, kind, a, ids)
  PROVE IsGrid(g)
<1> DEFINE old == L.grids[a]
<1>0. /\ IsLines(old.rows) /\ IsLines(old.columns)
      /\ Xs \subseteq Int /\ Ys \subseteq Int
      /\ LocalIds \in SUBSET Nat /\ IsFiniteSet(LocalIds)
      /\ ids \in SUBSET Nat /\ IsFiniteSet(ids)
  BY BatchAssumption, FS_Subset DEF IsLayout
<1>1. CASE kind = "move"
  <2>1. /\ g = [rows |-> g.rows, columns |-> g.columns]
        /\ g.rows \in [DOMAIN old.rows -> Ys] /\ g.columns \in [DOMAIN old.columns -> Xs]
    BY <1>1 DEF Reshaped
  <2> QED BY <2>1, <1>0 DEF IsGrid, IsLines
<1>2. CASE kind = "load"
  <2>1. /\ g = [rows |-> g.rows, columns |-> g.columns]
        /\ g.rows \in LinesOver(LocalIds, Ys) /\ g.columns \in LinesOver(ids, Xs)
    BY <1>2 DEF Reshaped
  <2> QED BY <2>1, <1>0, NewLines DEF IsGrid
<1>3. CASE kind = "store"
  <2>1. /\ g = [rows |-> g.rows, columns |-> g.columns]
        /\ \E d \in SUBSET DOMAIN old.rows : g.rows = [i \in d |-> old.rows[i]]
        /\ \E d \in SUBSET DOMAIN old.columns : g.columns = [i \in d |-> old.columns[i]]
    BY <1>3 DEF Reshaped
  <2> QED BY <2>1, <1>0, ReducedLines DEF IsGrid
<1> QED BY <1>1, <1>2, <1>3 DEF Kinds

\* What a program emits is an action: it names an intersection for each atom it
\* loads and a site for each one it stores.
LEMMA CandidateIsAction ==
  ASSUME NEW L, IsLayout(L), NEW a \in Aods, NEW ids \in SUBSET LocalIds,
         NEW s \in Candidates(L, a, ids)
  PROVE IsAction(s)
<1>0. PICK kind \in Kinds : \E g \in Reshaped(L, kind, a, ids) :
        /\ \A i \in Touched(L, kind, a, g) : HasOutcome(L, kind, i)
        /\ s = Action(L, kind, a, g)
  BY DEF Candidates
<1>1. PICK g \in Reshaped(L, kind, a, ids) :
        /\ \A i \in Touched(L, kind, a, g) : HasOutcome(L, kind, i)
        /\ s = Action(L, kind, a, g)
  BY <1>0
<1>2. IsGrid(g)
  BY ReshapedIsGrid
<1>3. /\ s.kind = kind /\ s.aod = a /\ s.grid = g
      /\ Named(s) = Touched(L, kind, a, g)
      /\ \A i \in Named(s) : s.at[i] = Outcome(L, kind, g, i)
  BY <1>1 DEF Action, Named
<1>4. Named(s) \subseteq Atoms
  BY <1>3 DEF Touched
<1>5. ASSUME kind = "load", NEW i \in Named(s)
      PROVE s.at[i] \in [row : Nat, column : Nat]
  <2>1. Traps(g, L.atoms[i].pos) /\ L.atoms[i].pos \in Point
    BY <1>3, <1>4, <1>5 DEF Touched, IsLayout
  <2>2. \E h \in [row : DOMAIN g.rows, column : DOMAIN g.columns] :
          Cross(g, h.row, h.column) = L.atoms[i].pos
    <3>1. PICK r \in DOMAIN g.rows, c \in DOMAIN g.columns :
            g.rows[r] = L.atoms[i].pos.y /\ g.columns[c] = L.atoms[i].pos.x
      BY <2>1 DEF Traps
    <3>2. Cross(g, r, c) = L.atoms[i].pos
      BY <3>1, <2>1 DEF Cross, Point
    <3> DEFINE h == [row |-> r, column |-> c]
    <3>3. h \in [row : DOMAIN g.rows, column : DOMAIN g.columns]
      OBVIOUS
    <3>4. Cross(g, h.row, h.column) = L.atoms[i].pos
      BY <3>2
    <3> QED BY <3>3, <3>4
  <2>3. s.at[i] \in [row : DOMAIN g.rows, column : DOMAIN g.columns]
    <3>1. s.at[i] = CHOOSE h \in [row : DOMAIN g.rows, column : DOMAIN g.columns] :
                      Cross(g, h.row, h.column) = L.atoms[i].pos
      BY <1>3, <1>5 DEF Outcome
    <3> QED BY <3>1, <2>2
  <2>4. DOMAIN g.rows \subseteq Nat /\ DOMAIN g.columns \subseteq Nat
    BY <1>2 DEF IsGrid, IsLines
  <2> QED BY <2>3, <2>4
<1>6. ASSUME kind = "store", NEW i \in Named(s)
      PROVE s.at[i] \in Sites
  <2>1. \E site \in Sites : SiteAt[site] = L.atoms[i].pos
    BY <1>1, <1>3, <1>6 DEF HasOutcome
  <2>2. s.at[i] = CHOOSE site \in Sites : SiteAt[site] = L.atoms[i].pos
    BY <1>3, <1>6 DEF Outcome
  <2> QED BY <2>1, <2>2
<1> QED BY <1>1, <1>2, <1>3, <1>4, <1>5, <1>6 DEF IsAction

-----------------------------------------------------------------------------
\* The numbers make_mappings gives to columns are natural.
LEMMA GlobalIsNat ==
  ASSUME NEW w, NEW m, NEW c PROVE Global(w, m, c) \in Nat
<1>1. IsFiniteSet(Members \X LocalIds)
  BY BatchAssumption, FS_Product
<1>2. Before(w, m, c) \in SUBSET (Members \X LocalIds)
  BY DEF Before
<1>3. IsFiniteSet(Before(w, m, c))
  BY <1>1, <1>2, FS_Subset
<1> QED BY <1>3, FS_CardinalityType DEF Global

\* Renumbered columns are lines with the same coordinates.
LEMMA RemappedLines ==
  ASSUME NEW w, NEW m, NEW f, IsLines(f)
  PROVE IsLines(Remapped(w, m, f))
<1> DEFINE new == {Global(w, m, c) : c \in DOMAIN f}
           number == [c \in DOMAIN f |-> Global(w, m, c)]
           named(g) == CHOOSE c \in DOMAIN f : Global(w, m, c) = g
<1>1. number \in Surjection(DOMAIN f, new)
  BY DEF Surjection
<1>2. IsFiniteSet(DOMAIN f) /\ f \in [DOMAIN f -> Int]
  BY DEF IsLines
<1>3. IsFiniteSet(new)
  <2> HIDE DEF new, number
  <2> QED BY <1>1, <1>2, FS_Surjection
<1>4. new \subseteq Nat
  BY GlobalIsNat
<1>5. \A g \in new : named(g) \in DOMAIN f
  OBVIOUS
<1>6. Remapped(w, m, f) = [g \in new |-> f[named(g)]]
  BY DEF Remapped
<1>7. \A g \in new : f[named(g)] \in Int
  <2> HIDE DEF new, named
  <2> QED BY <1>2, <1>5
<1> HIDE DEF new, named
<1> QED BY <1>3, <1>4, <1>6, <1>7 DEF IsLines

\* One write of a shared AOD is an action when the members' writes are.
LEMMA FusedIsAction ==
  ASSUME NEW w, NEW s, \A m \in Members : IsAction(s[m]), SameShape(s)
  PROVE IsAction(Fused(w, s))
<1> DEFINE columns(m) == Remapped(w, m, s[m].grid.columns)
           ids == UNION {DOMAIN columns(m) : m \in Members}
           owner(g) == CHOOSE m \in Members : g \in DOMAIN columns(m)
           atoms == UNION {Named(s[m]) : m \in Members}
           mover(i) == CHOOSE m \in Members : i \in Named(s[m])
           fused == [g \in ids |-> columns(owner(g))[g]]
           F == Fused(w, s)
<1>1. First \in Members
  BY BatchAssumption DEF First
<1>2. \A m \in Members : IsLines(columns(m))
  BY RemappedLines DEF IsAction, IsGrid
<1>3. \A g \in ids : owner(g) \in Members /\ g \in DOMAIN columns(owner(g))
  OBVIOUS
<1>4. \A i \in atoms : mover(i) \in Members /\ i \in Named(s[mover(i)])
  OBVIOUS
<1>5. IsLines(fused)
  <2> HIDE DEF columns, owner
  <2> DEFINE family == {DOMAIN columns(m) : m \in Members}
             domain == [m \in Members |-> DOMAIN columns(m)]
  <2>1. domain \in Surjection(Members, family)
    BY DEF Surjection
  <2>2. IsFiniteSet(family)
    <3> HIDE DEF family, domain
    <3> QED BY <2>1, BatchAssumption, FS_Surjection
  <2>3. \A d \in family : IsFiniteSet(d)
    BY <1>2 DEF IsLines
  <2>4. IsFiniteSet(UNION family)
    <3> HIDE DEF family
    <3> QED BY <2>2, <2>3, FS_UNION
  <2>5. ids \subseteq Nat
    BY <1>2 DEF IsLines
  <2>6. \A g \in ids : columns(owner(g))[g] \in Int
    <3> HIDE DEF ids
    <3> QED BY <1>2, <1>3 DEF IsLines
  <2>7. ids = UNION family
    OBVIOUS
  <2> HIDE DEF ids, family
  <2> QED BY <2>4, <2>5, <2>6, <2>7 DEF IsLines
<1>6. /\ F.kind = s[First].kind /\ F.aod = s[First].aod
      /\ F.grid = [rows |-> s[First].grid.rows, columns |-> fused]
      /\ Named(F) = atoms
  BY DEF Fused, Named
<1>7. \A i \in atoms :
        F.at[i] = IF s[First].kind = "load"
                  THEN [s[mover(i)].at[i] EXCEPT !.column = Global(w, mover(i), @)]
                  ELSE s[mover(i)].at[i]
  BY DEF Fused
<1> HIDE DEF F, fused, atoms, mover
<1>8. /\ F.kind \in Kinds /\ F.aod \in Aods
      /\ IsGrid(F.grid)
  <2>1. IsAction(s[First])
    BY <1>1
  <2>2. F.kind \in Kinds /\ F.aod \in Aods
    BY <1>6, <2>1 DEF IsAction
  <2>3. IsLines(s[First].grid.rows)
    BY <2>1 DEF IsAction, IsGrid
  <2>4. F.grid.rows = s[First].grid.rows /\ F.grid.columns = fused
    BY <1>6
  <2>5. F.grid = [rows |-> F.grid.rows, columns |-> F.grid.columns]
    BY <1>6, <2>4
  <2> QED BY <1>5, <2>2, <2>3, <2>4, <2>5 DEF IsGrid
<1>9. atoms \subseteq Atoms
  <2>1. \A m \in Members : Named(s[m]) \subseteq Atoms
    BY DEF IsAction
  <2> QED BY <2>1 DEF atoms
<1>10. ASSUME F.kind = "load", NEW i \in atoms
       PROVE F.at[i] \in [row : Nat, column : Nat]
  <2>1. s[mover(i)].at[i] \in [row : Nat, column : Nat]
    BY <1>1, <1>4, <1>6, <1>10 DEF SameShape, IsAction
  <2>2. F.at[i] = [s[mover(i)].at[i] EXCEPT
                     !.column = Global(w, mover(i), s[mover(i)].at[i].column)]
    BY <1>6, <1>7, <1>10
  <2> QED BY <2>1, <2>2, GlobalIsNat
<1>11. ASSUME F.kind = "store", NEW i \in atoms
       PROVE F.at[i] \in Sites
  <2>1. s[mover(i)].at[i] \in Sites
    BY <1>1, <1>4, <1>6, <1>11 DEF SameShape, IsAction
  <2> QED BY <2>1, <1>6, <1>7, <1>11
<1>12. IsAction(F)
  BY <1>6, <1>8, <1>9, <1>10, <1>11 DEF IsAction
<1> QED BY <1>12 DEF F

-----------------------------------------------------------------------------
\* A checked action leaves the atoms it names well formed.
LEMMA CarriedIsAtom ==
  ASSUME NEW L, IsLayout(L), ValidLayout(L),
         NEW s, IsAction(s), Checked(L, s), NEW i \in Named(s)
  PROVE Carried(L, s, i) \in [pos : Point, holder : Holders]
<1>1. i \in Atoms
  BY DEF IsAction
<1>2. Apply(L, {s}).atoms[i] = Carried(L, s, i)
  BY <1>1, ApplyOne
<1>3. IsLayout(Apply(L, {s}))
  BY CheckedKeepsValid
<1>4. Apply(L, {s}).atoms[i] \in [pos : Point, holder : Holders]
  <2> DEFINE M == Apply(L, {s})
  <2>1. M.atoms \in [Atoms -> [pos : Point, holder : Holders]]
    BY <1>3 DEF IsLayout
  <2> HIDE DEF M
  <2>2. M.atoms[i] \in [pos : Point, holder : Holders]
    BY <1>1, <2>1
  <2> QED BY <2>2 DEF M
<1> QED BY <1>2, <1>4

\* So do several of them at once, each checked against the same layout.
LEMMA TogetherKeepLayout ==
  ASSUME NEW L, IsLayout(L), ValidLayout(L), NEW S,
         \A s \in S : IsAction(s) /\ Checked(L, s)
  PROVE IsLayout(Apply(L, S))
<1> DEFINE M == Apply(L, S)
           mover(i) == CHOOSE s \in S : i \in Named(s)
           writer(a) == CHOOSE s \in S : s.aod = a
<1>1. /\ M = [atoms |-> M.atoms, grids |-> M.grids]
      /\ DOMAIN M.grids = Aods /\ DOMAIN M.atoms = Atoms
      /\ M.atoms = [i \in Atoms |-> M.atoms[i]]
  BY DEF Apply
<1>2. \A a \in Aods :
        M.grids[a] = IF \E s \in S : s.aod = a THEN writer(a).grid ELSE L.grids[a]
  BY DEF Apply
<1>3. \A i \in Atoms :
        M.atoms[i] = IF \E s \in S : i \in Named(s) THEN Carried(L, mover(i), i) ELSE L.atoms[i]
  BY DEF Apply
<1> HIDE DEF M
<1>4. ASSUME NEW a \in Aods PROVE IsGrid(M.grids[a])
  <2>1. CASE \E s \in S : s.aod = a
    <3>1. writer(a) \in S
      BY <2>1
    <3>2. M.grids[a] = writer(a).grid
      BY <1>2, <2>1
    <3> HIDE DEF writer
    <3> QED BY <3>1, <3>2 DEF IsAction
  <2>2. CASE ~\E s \in S : s.aod = a
    BY <1>2, <2>2 DEF IsLayout, IsGrid
  <2> QED BY <2>1, <2>2
<1>5. ASSUME NEW i \in Atoms PROVE M.atoms[i] \in [pos : Point, holder : Holders]
  <2>1. CASE \E s \in S : i \in Named(s)
    <3>1. mover(i) \in S /\ i \in Named(mover(i))
      BY <2>1
    <3>2. M.atoms[i] = Carried(L, mover(i), i)
      BY <1>3, <2>1
    <3> HIDE DEF mover
    <3> QED BY <3>1, <3>2, CarriedIsAtom
  <2>2. CASE ~\E s \in S : i \in Named(s)
    BY <1>3, <2>2 DEF IsLayout
  <2> QED BY <2>1, <2>2
<1>6. M.atoms \in [Atoms -> [pos : Point, holder : Holders]]
  BY <1>1, <1>5
<1>7. IsLayout(M)
  BY <1>1, <1>4, <1>6 DEF IsLayout, IsGrid
<1> QED BY <1>7 DEF M

-----------------------------------------------------------------------------
\* A context at rest keeps nothing of a wave.
LEMMA IdleKeepsInv ==
  ASSUME NEW L, IsLayout(L), ValidLayout(L), Idle(L)
  PROVE BatchInv'
<1>1. /\ context' = L /\ world' = L /\ wave' = NoWave
      /\ \A m \in Members : lone'[m] = L
  BY DEF Idle
<1> QED BY <1>1 DEF BatchInv, WellFormed, SoundLayouts, AtRest

\* A wave takes a step only from declared programs.
LEMMA ProgramIsAction ==
  ASSUME WellFormed, wave # NoWave, NEW m \in Members, NEW s \in Programs(m)
  PROVE IsAction(s)
<1>1. wave.aods \in [Members -> SUBSET Aods] /\ wave.ids \in [Members -> SUBSET LocalIds]
  BY BatchAssumption DEF WellFormed, IsWave
<1>2. PICK a \in wave.aods[m] : s \in Candidates(lone[m], a, wave.ids[m])
  BY DEF Programs
<1>3. a \in Aods /\ wave.ids[m] \in SUBSET LocalIds /\ IsLayout(lone[m])
  BY <1>1, <1>2 DEF WellFormed
<1> QED BY <1>2, <1>3, CandidateIsAction

\* A merged step of the wave, committed or refused, keeps the invariant.
LEMMA ComposeKeepsInv ==
  ASSUME BatchInv, wave # NoWave,
         NEW s \in [Members -> UNION {Programs(m) : m \in Members}], Compose(s)
  PROVE BatchInv'
<1> DEFINE next == Apply(world, Merged(wave, s))
           stop == IF Unmergeable(s) # {} THEN Unmergeable(s) ELSE Refusals(s, next)
<1>1. /\ context' = context /\ wave' = wave
      /\ SameShape(s)
      /\ \A m \in Members : Checked(lone[m], s[m])
      /\ IF stop = {}
         THEN world' = next /\ lone' = [m \in Members |-> Apply(lone[m], {s[m]})]
         ELSE UNCHANGED <<world, lone>>
  BY DEF Compose
<1>2. \A m \in Members : IsAction(s[m])
  <2> TAKE m \in Members
  <2>1. PICK n \in Members : s[m] \in Programs(n)
    OBVIOUS
  <2> QED BY <2>1, ProgramIsAction DEF BatchInv
<1>3. CASE stop # {}
  BY <1>1, <1>3 DEF BatchInv, WellFormed, SoundLayouts, AtRest
<1>4. CASE stop = {}
  <2>1. Refusals(s, next) = {}
    BY <1>4
  <2>2. ValidLayout(next)
    BY <2>1 DEF Refusals
  <2>3. \A a \in Merged(wave, s) : Checked(world, a)
    BY <2>1 DEF Refusals
  <2>4. \A a \in Merged(wave, s) : IsAction(a)
    <3>1. CASE wave.shared
      <4>1. Merged(wave, s) = {Fused(wave, s)}
        BY <3>1 DEF Merged
      <4> QED BY <1>1, <1>2, <4>1, FusedIsAction
    <3>2. CASE ~wave.shared
      BY <1>2, <3>2 DEF Merged
    <3> QED BY <3>1, <3>2
  <2>5. IsLayout(next)
    BY <2>3, <2>4, TogetherKeepLayout DEF BatchInv, WellFormed, SoundLayouts, AtRest
  <2>6. \A m \in Members : /\ IsLayout(Apply(lone[m], {s[m]}))
                           /\ ValidLayout(Apply(lone[m], {s[m]}))
    BY <1>1, <1>2, CheckedKeepsValid DEF BatchInv, WellFormed, SoundLayouts, AtRest
  <2>7. world' = next /\ \A m \in Members : lone'[m] = Apply(lone[m], {s[m]})
    BY <1>1, <1>4
  <2> HIDE DEF next
  <2> QED BY <1>1, <2>2, <2>5, <2>6, <2>7 DEF BatchInv, WellFormed, SoundLayouts, AtRest
<1> QED BY <1>3, <1>4

\* A context starts on a valid layout, with no wave.
LEMMA BatchInit == ASSUME Init PROVE BatchInv
<1>1. IsLayout(context) /\ ValidLayout(context)
  BY BatchAssumption DEF Init
<1>2. /\ world = context /\ wave = NoWave
      /\ \A m \in Members : lone[m] = context
  BY DEF Init
<1> QED BY <1>1, <1>2 DEF BatchInv, WellFormed, SoundLayouts, AtRest

\* Every step of a context keeps the invariant.
LEMMA BatchStep == ASSUME BatchInv, [Next]_vars PROVE BatchInv'
<1>1. ASSUME NEW a \in Aods, NEW s \in Candidates(context, a, LocalIds), Call(s)
      PROVE BatchInv'
  <2>1. IsAction(s)
    BY CandidateIsAction DEF BatchInv, WellFormed
  <2>2. /\ IsLayout(Apply(context, {s})) /\ ValidLayout(Apply(context, {s}))
    BY <1>1, <2>1, CheckedKeepsValid DEF Call, BatchInv, WellFormed, SoundLayouts, AtRest
  <2>3. Idle(Apply(context, {s}))
    BY <1>1 DEF Call
  <2> QED BY <2>2, <2>3, IdleKeepsInv
<1>2. ASSUME NEW w \in Declared, Admit(w)
      PROVE BatchInv'
  BY <1>2, BatchAssumption DEF Admit, BatchInv, WellFormed, SoundLayouts, AtRest
<1>3. ASSUME wave # NoWave,
             NEW s \in [Members -> UNION {Programs(m) : m \in Members}], Compose(s)
      PROVE BatchInv'
  BY <1>3, ComposeKeepsInv
<1>4. CASE Commit
  BY <1>4, IdleKeepsInv DEF Commit, BatchInv, WellFormed, SoundLayouts, AtRest
<1>5. CASE Refuse
  BY <1>5, IdleKeepsInv DEF Refuse, BatchInv, WellFormed, SoundLayouts, AtRest
<1>6. CASE UNCHANGED vars
  BY <1>6 DEF vars, BatchInv, WellFormed, SoundLayouts, AtRest
<1> QED BY <1>1, <1>2, <1>3, <1>4, <1>5, <1>6 DEF Next

\* Whatever calls and waves a context is given, committed, refused at any step
\* or left half merged: the committed world, the merged one and every member's
\* own are valid layouts.
THEOREM LayoutsAreSound == Spec => []SoundLayouts
<1>1. Init => BatchInv
  BY BatchInit
<1>2. BatchInv /\ [Next]_vars => BatchInv'
  BY BatchStep
<1>3. BatchInv => SoundLayouts
  BY DEF BatchInv
<1> QED BY <1>1, <1>2, <1>3, PTL DEF Spec

-----------------------------------------------------------------------------
(* Members do not disturb one another.                                       *)

\* In a world whose shared AOD is empty a member sees itself as it is.
LEMMA UntouchedAtEntry ==
  ASSUME NEW w \in Declared, Compatible(w), NEW L, IsLayout(L), ValidLayout(L),
         w.shared => \A m \in Members : \A a \in w.aods[m] :
           DOMAIN L.grids[a].rows = {} /\ DOMAIN L.grids[a].columns = {},
         NEW m \in Members
  PROVE  Seen(w, m, L) = Alone(w, m, L)
<1>1. CASE ~w.shared
  BY <1>1 DEF Seen, Alone
<1>2. CASE w.shared
  <2>1. PICK a \in Aods : w.aods[m] = {a}
    BY <1>2 DEF Compatible
  <2>2. SharedAod(w, m) = a
    BY <2>1 DEF SharedAod
  <2>3. DOMAIN L.grids[a].rows = {} /\ DOMAIN L.grids[a].columns = {}
    BY <1>2, <2>1
  <2>4. \A i \in Atoms : ~CarriedBy(L, i, a)
    BY <2>3 DEF ValidLayout, AtHolder, CarriedBy, InSlm
  <2>5. w.atoms[m] \subseteq Atoms
    BY BatchAssumption DEF IsWave
  <2> DEFINE own == {c \in w.ids[m] : Global(w, m, c) \in DOMAIN L.grids[SharedAod(w, m)].columns}
             columns == [c \in own |-> L.grids[a].columns[Global(w, m, c)]]
             named(h) == AOD(h.aod, h.row, CHOOSE c \in w.ids[m] : Global(w, m, c) = h.column)
             atoms == [i \in w.atoms[m] |->
                        IF CarriedBy(L, i, SharedAod(w, m))
                        THEN [pos |-> L.atoms[i].pos, holder |-> named(L.atoms[i].holder)]
                        ELSE L.atoms[i]]
             grids == [b \in w.aods[m] |-> [rows |-> L.grids[b].rows,
                        columns |-> [c \in own |-> L.grids[b].columns[Global(w, m, c)]]]]
  <2>6. own = {}
    BY <2>2, <2>3
  <2>7. columns = L.grids[a].columns
    <3>1. L.grids[a].columns = [c \in DOMAIN L.grids[a].columns |-> L.grids[a].columns[c]]
      BY DEF IsLayout, IsLines
    <3> QED BY <2>2, <2>3, <2>6, <3>1
  <2>8. atoms = [i \in w.atoms[m] |-> L.atoms[i]]
    BY <2>2, <2>4, <2>5
  <2>9. grids = [b \in w.aods[m] |-> L.grids[b]]
    <3>1. L.grids[a] = [rows |-> L.grids[a].rows, columns |-> columns]
      BY <2>7 DEF IsLayout
    <3> HIDE DEF own
    <3> QED BY <2>1, <3>1
  <2>10. Seen(w, m, L) = [atoms |-> atoms, grids |-> grids]
    <3> DEFINE apart == [atoms |-> [i \in w.atoms[m] |-> L.atoms[i]],
                         grids |-> [b \in w.aods[m] |-> L.grids[b]]]
               together == [atoms |-> atoms, grids |-> grids]
    <3>1. Seen(w, m, L) = IF ~w.shared THEN apart ELSE together
      BY DEF Seen
    <3> HIDE DEF apart, together
    <3>2. Seen(w, m, L) = together
      BY <1>2, <3>1
    <3> QED BY <3>2 DEF together
  <2> HIDE DEF atoms, grids
  <2> QED BY <2>8, <2>9, <2>10 DEF Alone
<1> QED BY <1>1, <1>2

\* A merged step names the members' atoms and drives their AODs only.
LEMMA MergedIsOwned ==
  ASSUME NEW w \in Declared, NEW s, \A m \in Members : Owns(w, m, s[m]),
         NEW t \in Merged(w, s)
  PROVE  /\ \E m \in Members : t.aod \in w.aods[m]
         /\ \A i \in Named(t) : \E m \in Members : i \in w.atoms[m]
<1>1. CASE ~w.shared
  <2>1. PICK m \in Members : t = s[m]
    BY <1>1 DEF Merged
  <2> QED BY <2>1 DEF Owns
<1>2. CASE w.shared
  <2>1. t = Fused(w, s)
    BY <1>2 DEF Merged
  <2>2. t.aod = s[First].aod /\ Named(t) = UNION {Named(s[m]) : m \in Members}
    BY <2>1 DEF Fused, Named
  <2>3. First \in Members
    BY BatchAssumption DEF First
  <2> QED BY <2>2, <2>3 DEF Owns
<1> QED BY <1>1, <1>2

\* A merged step leaves what no member owns, and each member's own, as it was.
LEMMA ComposeKeepsMembers ==
  ASSUME BatchInv, MembersUndisturbed,
         NEW s \in [Members -> UNION {Programs(m) : m \in Members}], Compose(s)
  PROVE  MembersUndisturbed'
<1> DEFINE next == Apply(world, Merged(wave, s))
           stop == IF Unmergeable(s) # {} THEN Unmergeable(s) ELSE Refusals(s, next)
<1>1. /\ wave # NoWave /\ context' = context /\ wave' = wave
      /\ IF stop = {}
         THEN world' = next /\ lone' = [m \in Members |-> Apply(lone[m], {s[m]})]
         ELSE UNCHANGED <<world, lone>>
  BY DEF Compose
<1>2. CASE stop # {}
  BY <1>1, <1>2 DEF MembersUndisturbed
<1>3. CASE stop = {}
  <2>1. Unmergeable(s) = {} /\ Refusals(s, next) = {}
    BY <1>3
  <2>2. \A m \in Members : Owns(wave, m, s[m])
    BY <2>1 DEF Unmergeable
  <2>3. \A m \in Members : Seen(wave, m, next) = Alone(wave, m, Apply(lone[m], {s[m]}))
    BY <2>1 DEF Refusals
  <2>4. \A t \in Merged(wave, s) :
          /\ \E m \in Members : t.aod \in wave.aods[m]
          /\ \A i \in Named(t) : \E m \in Members : i \in wave.atoms[m]
    BY <1>1, <2>2, MergedIsOwned DEF BatchInv, WellFormed
  <2>5. \A i \in Atoms : (\A m \in Members : i \notin wave.atoms[m])
          => next.atoms[i] = world.atoms[i]
    <3>1. \A i \in Atoms : (~\E t \in Merged(wave, s) : i \in Named(t))
            => next.atoms[i] = world.atoms[i]
      BY DEF Apply
    <3> HIDE DEF next
    <3> QED BY <2>4, <3>1
  <2>6. \A a \in Aods : (\A m \in Members : a \notin wave.aods[m])
          => next.grids[a] = world.grids[a]
    <3>1. \A a \in Aods : (~\E t \in Merged(wave, s) : t.aod = a)
            => next.grids[a] = world.grids[a]
      BY DEF Apply
    <3> HIDE DEF next
    <3> QED BY <2>4, <3>1
  <2>7. world' = next /\ \A m \in Members : lone'[m] = Apply(lone[m], {s[m]})
    BY <1>1, <1>3
  <2> HIDE DEF next
  <2>8. \A m \in Members : Seen(wave', m, world') = Alone(wave', m, lone'[m])
    BY <1>1, <2>3, <2>7
  <2>9. /\ \A i \in Atoms : (\A m \in Members : i \notin wave.atoms[m])
             => world.atoms[i] = context.atoms[i]
        /\ \A a \in Aods : (\A m \in Members : a \notin wave.aods[m])
             => world.grids[a] = context.grids[a]
    BY <1>1 DEF MembersUndisturbed
  <2> QED BY <1>1, <2>5, <2>6, <2>7, <2>8, <2>9 DEF MembersUndisturbed
<1> QED BY <1>2, <1>3

\* Every step of a context keeps MembersUndisturbed.
LEMMA MembersStep ==
  ASSUME BatchInv, MembersUndisturbed, [Next]_vars PROVE MembersUndisturbed'
<1>1. CASE wave' = NoWave
  BY <1>1 DEF MembersUndisturbed
<1>2. ASSUME NEW w \in Declared, Admit(w)
      PROVE MembersUndisturbed'
  <2>1. /\ Compatible(w) /\ wave' = w /\ context' = context /\ world' = world /\ lone' = lone
        /\ w.shared => \A m \in Members : \A a \in w.aods[m] :
             DOMAIN context.grids[a].rows = {} /\ DOMAIN context.grids[a].columns = {}
    BY <1>2 DEF Admit
  <2>2. world = context /\ \A m \in Members : lone[m] = context
    BY <1>2 DEF Admit, BatchInv, AtRest
  <2>3. \A m \in Members : Seen(w, m, context) = Alone(w, m, context)
    BY <2>1, UntouchedAtEntry DEF BatchInv, WellFormed, SoundLayouts
  <2> QED BY <2>1, <2>2, <2>3 DEF MembersUndisturbed
<1>3. ASSUME NEW s \in [Members -> UNION {Programs(m) : m \in Members}], Compose(s)
      PROVE MembersUndisturbed'
  BY <1>3, ComposeKeepsMembers
<1>4. CASE UNCHANGED vars
  BY <1>4 DEF vars, MembersUndisturbed
<1>5. ASSUME NEW s, Call(s) PROVE wave' = NoWave
  BY <1>5 DEF Call, Idle
<1>6. (Commit \/ Refuse) => wave' = NoWave
  BY DEF Commit, Refuse, Idle
<1> QED BY <1>1, <1>2, <1>3, <1>4, <1>5, <1>6 DEF Next

\* In every wave, for any declarations: a member's atoms and lines go exactly
\* where they would have gone alone, and what no member owns is left in place.
THEOREM WavesLeaveMembersAlone == Spec => []MembersUndisturbed
<1>1. Init => BatchInv /\ MembersUndisturbed
  BY BatchInit DEF Init, MembersUndisturbed
<1>2. BatchInv /\ MembersUndisturbed /\ [Next]_vars => BatchInv' /\ MembersUndisturbed'
  BY BatchStep, MembersStep
<1> QED BY <1>1, <1>2, PTL DEF Spec

-----------------------------------------------------------------------------
(* What the declarations are enough for.                                     *)

\* The number a column of a member's program has in the merged world.
Col(w, m, c) == IF w.shared THEN Global(w, m, c) ELSE c

\* An atom as the merged world has it.
Renamed(w, m, atom) ==
  IF atom.holder.kind = "aod" /\ atom.holder.aod \in w.aods[m]
  THEN [pos |-> atom.pos,
        holder |-> AOD(atom.holder.aod, atom.holder.row, Col(w, m, atom.holder.column))]
  ELSE atom

GridWithin(w, m, g) ==
  \E r \in w.spaces[m] :
    \A i \in DOMAIN g.rows, j \in DOMAIN g.columns : Inside(r, Cross(g, i, j))

\* A member's own world k has left alone what the member does not own of the
\* context's world C, and keeps to the declared regions, columns and band.
OnOwn(w, C, m, k) ==
  /\ IsLayout(k) /\ ValidLayout(k)
  /\ \A i \in Atoms \ w.atoms[m] : k.atoms[i] = C.atoms[i]
  /\ \A a \in Aods \ w.aods[m] : k.grids[a] = C.grids[a]
  /\ Enveloped(w, m, k)
  /\ \A a \in w.aods[m] : k.grids[a] = C.grids[a] \/ GridWithin(w, m, k.grids[a])
  /\ \A i \in w.atoms[m] :
       k.atoms[i].holder.kind = "aod" /\ k.atoms[i].holder.aod \notin w.aods[m]
         => k.atoms[i] = C.atoms[i]
  /\ w.shared => \A a \in w.aods[m] :
       /\ DOMAIN k.grids[a].columns \subseteq w.ids[m]
       /\ Cardinality(DOMAIN k.grids[a].columns) =< w.band[m].columns
       /\ Between(k.grids[a].columns, w.band[m].lo, w.band[m].hi)

\* W joins the worlds K of the members: each one's atoms and columns, renamed,
\* over rows common to those who share an AOD, and the rest of C.
JoinOf(w, C, K, W) ==
  /\ \A i \in Atoms : (\A m \in Members : i \notin w.atoms[m]) => W.atoms[i] = C.atoms[i]
  /\ \A a \in Aods : (\A m \in Members : a \notin w.aods[m]) => W.grids[a] = C.grids[a]
  /\ \A m \in Members : \A i \in w.atoms[m] : W.atoms[i] = Renamed(w, m, K[m].atoms[i])
  /\ \A m \in Members : \A a \in w.aods[m] :
       /\ W.grids[a].rows = K[m].grids[a].rows
       /\ \A c \in DOMAIN K[m].grids[a].columns :
            /\ Col(w, m, c) \in DOMAIN W.grids[a].columns
            /\ W.grids[a].columns[Col(w, m, c)] = K[m].grids[a].columns[c]
  /\ \A a \in Aods : (\E m \in Members : a \in w.aods[m]) =>
       \A g \in DOMAIN W.grids[a].columns :
         \E m \in Members : /\ a \in w.aods[m]
                            /\ \E c \in DOMAIN K[m].grids[a].columns : g = Col(w, m, c)

\* The context's world lets the wave start.
MayStart(w, C) ==
  /\ Compatible(w)
  /\ w.shared => \A m \in Members : \A a \in w.aods[m] :
       DOMAIN C.grids[a].rows = {} /\ DOMAIN C.grids[a].columns = {}

\* make_mappings numbers the columns in order.
LEMMA NumbersGrow ==
  ASSUME NEW w, NEW m \in Members, NEW n \in Members,
         NEW c \in w.ids[m], NEW d \in w.ids[n],
         w.ids \in [Members -> SUBSET LocalIds],
         m < n \/ (m = n /\ c < d)
  PROVE  Global(w, m, c) < Global(w, n, d)
<1>1. Members \subseteq Nat /\ LocalIds \subseteq Nat
  BY BatchAssumption
<1>2. c \in LocalIds /\ d \in LocalIds
  OBVIOUS
<1>3. Before(w, m, c) \in SUBSET Before(w, n, d)
  <2> SUFFICES ASSUME NEW k \in Members \X LocalIds, k \in Before(w, m, c)
               PROVE k \in Before(w, n, d)
    BY DEF Before
  <2>1. /\ k[1] \in Nat /\ k[2] \in Nat /\ m \in Nat /\ n \in Nat /\ c \in Nat /\ d \in Nat
        /\ k[2] \in w.ids[k[1]] /\ (k[1] < m \/ (k[1] = m /\ k[2] < c))
    BY <1>1, <1>2 DEF Before
  <2>2. k[1] < n \/ (k[1] = n /\ k[2] < d)
    BY <2>1
  <2> QED BY <2>1, <2>2 DEF Before
<1>4. <<m, c>> \in Before(w, n, d)
  BY <1>2 DEF Before
<1>5. <<m, c>> \notin Before(w, m, c)
  BY <1>1, <1>2 DEF Before
<1>6. IsFiniteSet(Before(w, n, d))
  <2>1. IsFiniteSet(Members \X LocalIds)
    BY BatchAssumption, FS_Product
  <2>2. Before(w, n, d) \in SUBSET (Members \X LocalIds)
    BY DEF Before
  <2> QED BY <2>1, <2>2, FS_Subset
<1>7. /\ Cardinality(Before(w, m, c)) =< Cardinality(Before(w, n, d))
      /\ Cardinality(Before(w, m, c)) # Cardinality(Before(w, n, d))
  BY <1>3, <1>4, <1>5, <1>6, FS_Subset
<1> QED BY <1>7, GlobalIsNat DEF Global

\* No two columns get the same number.
LEMMA NumbersDiffer ==
  ASSUME NEW w, NEW m \in Members, NEW n \in Members,
         NEW c \in w.ids[m], NEW d \in w.ids[n],
         w.ids \in [Members -> SUBSET LocalIds],
         Global(w, m, c) = Global(w, n, d)
  PROVE  m = n /\ c = d
<1>1. /\ m \in Nat /\ n \in Nat /\ c \in Nat /\ d \in Nat
  BY BatchAssumption
<1>2. Global(w, m, c) \in Nat /\ Global(w, n, d) \in Nat
  BY GlobalIsNat
<1>3. ~(m < n \/ (m = n /\ c < d))
  BY <1>2, NumbersGrow
<1>4. ~(n < m \/ (n = m /\ d < c))
  BY <1>2, NumbersGrow
<1> QED BY <1>1, <1>3, <1>4

\* The members' worlds are their own and W joins them.
Joined(w, C, K, W) ==
  /\ IsWave(w) /\ MayStart(w, C)
  /\ IsLayout(C) /\ ValidLayout(C) /\ IsLayout(W)
  /\ \A m \in Members : OnOwn(w, C, m, K[m])
  /\ JoinOf(w, C, K, W)

\* No point is inside two regions that are apart.
LEMMA ApartPoints ==
  ASSUME NEW r \in Region, NEW q \in Region, Apart(r, q), NEW p \in Point,
         Inside(r, p), Inside(q, p)
  PROVE  FALSE
<1>1. /\ p.x \in Int /\ p.y \in Int
      /\ r.x1 \in Int /\ r.x2 \in Int /\ r.y1 \in Int /\ r.y2 \in Int
      /\ q.x1 \in Int /\ q.x2 \in Int /\ q.y1 \in Int /\ q.y2 \in Int
  BY DEF Region, Point
<1> QED BY <1>1 DEF Apart, Inside

\* Regions of two members hold no common point.
LEMMA RegionsApart ==
  ASSUME NEW w, IsWave(w), Compatible(w),
         NEW m \in Members, NEW n \in Members, m # n,
         NEW p \in Point, NEW r \in w.spaces[m], NEW q \in w.spaces[n],
         Inside(r, p), Inside(q, p)
  PROVE  FALSE
<1>1. r \in Region /\ q \in Region /\ Apart(r, q)
  BY DEF IsWave, Compatible
<1> QED BY <1>1, ApartPoints

\* An AOD two members declare is shared by all, and it starts empty.
LEMMA SharedByAll ==
  ASSUME NEW w, NEW C, MayStart(w, C), w.shared
  PROVE  \E a \in Aods :
           /\ \A m \in Members : w.aods[m] = {a} /\ w.band[m].rows =< Capacity[a].rows
           /\ Cardinality(UNION {{m} \X (1..w.band[m].columns) : m \in Members}) =< Capacity[a].columns
           /\ \A m, n \in Members : m # n =>
                \/ w.band[m].hi < w.band[n].lo /\ w.band[n].lo - w.band[m].hi >= Spacing[a]
                \/ w.band[n].hi < w.band[m].lo /\ w.band[m].lo - w.band[n].hi >= Spacing[a]
           /\ DOMAIN C.grids[a].rows = {} /\ DOMAIN C.grids[a].columns = {}
<1>1. PICK a \in Aods :
        /\ \A m \in Members : w.aods[m] = {a} /\ w.band[m].rows =< Capacity[a].rows
        /\ Cardinality(UNION {{m} \X (1..w.band[m].columns) : m \in Members}) =< Capacity[a].columns
        /\ \A m, n \in Members : m # n =>
             \/ w.band[m].hi < w.band[n].lo /\ w.band[n].lo - w.band[m].hi >= Spacing[a]
             \/ w.band[n].hi < w.band[m].lo /\ w.band[m].lo - w.band[n].hi >= Spacing[a]
  BY DEF MayStart, Compatible
<1>2. PICK m \in Members : TRUE
  BY BatchAssumption
<1>3. a \in w.aods[m]
  BY <1>1
<1>4. DOMAIN C.grids[a].rows = {} /\ DOMAIN C.grids[a].columns = {}
  BY <1>3 DEF MayStart
<1> QED BY <1>1, <1>4

\* What the join traps, the lines of one member trap.
LEMMA JoinTraps ==
  ASSUME NEW w, NEW C, NEW K, NEW W, Joined(w, C, K, W),
         NEW a \in Aods, NEW d \in Members, a \in w.aods[d], NEW p, Traps(W.grids[a], p)
  PROVE  \E n \in Members : a \in w.aods[n] /\ Traps(K[n].grids[a], p)
<1>1. PICK r \in DOMAIN W.grids[a].rows, g \in DOMAIN W.grids[a].columns :
        W.grids[a].rows[r] = p.y /\ W.grids[a].columns[g] = p.x
  BY DEF Traps
<1>2. PICK n \in Members : /\ a \in w.aods[n]
                           /\ \E c \in DOMAIN K[n].grids[a].columns : g = Col(w, n, c)
  BY <1>1 DEF Joined, JoinOf
<1>3. PICK c \in DOMAIN K[n].grids[a].columns : g = Col(w, n, c)
  BY <1>2
<1>4. /\ W.grids[a].rows = K[n].grids[a].rows
      /\ W.grids[a].columns[g] = K[n].grids[a].columns[c]
  BY <1>2, <1>3 DEF Joined, JoinOf
<1>5. Traps(K[n].grids[a], p)
  BY <1>1, <1>3, <1>4 DEF Traps
<1> QED BY <1>2, <1>5

\* An AOD of one member has in the join the lines the member gave it.
LEMMA JoinPrivate ==
  ASSUME NEW w, NEW C, NEW K, NEW W, Joined(w, C, K, W), ~w.shared,
         NEW m \in Members, NEW a \in w.aods[m]
  PROVE  W.grids[a] = K[m].grids[a]
<1>1. a \in Aods
  BY DEF Joined, IsWave
<1>2. /\ IsGrid(W.grids[a]) /\ IsGrid(K[m].grids[a])
  BY <1>1 DEF Joined, OnOwn, IsLayout, IsGrid
<1>3. \A n \in Members : a \in w.aods[n] => n = m
  BY DEF Joined, MayStart, Compatible
<1>4. \A c : Col(w, m, c) = c
  BY DEF Col
<1>5. DOMAIN W.grids[a].columns = DOMAIN K[m].grids[a].columns
  <2>1. ASSUME NEW g \in DOMAIN W.grids[a].columns PROVE g \in DOMAIN K[m].grids[a].columns
    <3>1. PICK n \in Members : /\ a \in w.aods[n]
                               /\ \E c \in DOMAIN K[n].grids[a].columns : g = Col(w, n, c)
      BY <1>1 DEF Joined, JoinOf
    <3> QED BY <3>1, <1>3, <1>4
  <2>2. ASSUME NEW c \in DOMAIN K[m].grids[a].columns PROVE c \in DOMAIN W.grids[a].columns
    BY <1>4 DEF Joined, JoinOf
  <2> QED BY <2>1, <2>2
<1>6. \A c \in DOMAIN K[m].grids[a].columns :
        W.grids[a].columns[c] = K[m].grids[a].columns[c]
  BY <1>4 DEF Joined, JoinOf
<1>7. W.grids[a].columns = K[m].grids[a].columns
  BY <1>2, <1>5, <1>6 DEF IsGrid, IsLines
<1>8. W.grids[a].rows = K[m].grids[a].rows
  BY DEF Joined, JoinOf
<1> QED BY <1>2, <1>7, <1>8 DEF IsGrid

\* Sets that fit their bounds can be numbered within them.
LEMMA Numbered ==
  ASSUME NEW S, IsFiniteSet(S), NEW n \in Nat, Cardinality(S) =< n
  PROVE  \E f \in [S -> 1..n] : \A x, y \in S : f[x] = f[y] => x = y
<1>1. Cardinality(S) \in Nat
  BY FS_CardinalityType
<1>2. /\ IsFiniteSet(1..Cardinality(S))
      /\ Cardinality(1..Cardinality(S)) = Cardinality(S)
  <2>1. \A k \in Nat : IsFiniteSet(1..k) /\ Cardinality(1..k) = k
    <3> TAKE k \in Nat
    <3>1. 1 \in Int /\ k \in Int
      OBVIOUS
    <3>2. /\ IsFiniteSet(1..k)
          /\ Cardinality(1..k) = IF 1 > k THEN 0 ELSE k - 1 + 1
      BY <3>1, FS_Interval, Zenon
    <3> QED BY <3>2
  <2> QED BY <1>1, <2>1
<1>3. PICK f : f \in Bijection(S, 1..Cardinality(S))
  BY <1>2, FS_SameCardinalityBij DEF ExistsBijection
<1>4. f \in [S -> 1..Cardinality(S)] /\ \A x, y \in S : f[x] = f[y] => x = y
  BY <1>3 DEF Bijection, Injection, IsInjective
<1>5. f \in [S -> 1..n]
  BY <1>1, <1>4
<1> QED BY <1>4, <1>5

\* The pairs that count the declared columns are finitely many.
LEMMA DeclaredColumnsFinite ==
  ASSUME NEW w, IsWave(w)
  PROVE  IsFiniteSet(UNION {{m} \X (1..w.band[m].columns) : m \in Members})
<1> DEFINE pairs(m) == {m} \X (1..w.band[m].columns)
           family == {pairs(m) : m \in Members}
           which == [m \in Members |-> pairs(m)]
<1>1. which \in Surjection(Members, family)
  BY DEF Surjection
<1>2. IsFiniteSet(family)
  <2> HIDE DEF family, which
  <2> QED BY <1>1, BatchAssumption, FS_Surjection
<1>3. ASSUME NEW m \in Members PROVE IsFiniteSet(pairs(m))
  <2>1. w.band[m].columns \in Int
    BY DEF IsWave, Bands
  <2>2. IsFiniteSet(1..w.band[m].columns)
    BY <2>1, FS_Interval
  <2>3. IsFiniteSet({m})
    BY FS_Singleton
  <2> QED BY <2>2, <2>3, FS_Product
<1>4. \A d \in family : IsFiniteSet(d)
  BY <1>3
<1>5. IsFiniteSet(UNION family)
  <2> HIDE DEF family
  <2> QED BY <1>2, <1>4, FS_UNION
<1> QED BY <1>5

\* The columns of a shared AOD are no more than it can hold.
LEMMA JoinFits ==
  ASSUME NEW w, NEW C, NEW K, NEW W, Joined(w, C, K, W), w.shared,
         NEW a \in Aods, \A m \in Members : w.aods[m] = {a},
         Cardinality(UNION {{m} \X (1..w.band[m].columns) : m \in Members}) =< Capacity[a].columns
  PROVE  Cardinality(DOMAIN W.grids[a].columns) =< Capacity[a].columns
<1> DEFINE D == DOMAIN W.grids[a].columns
           E(m) == DOMAIN K[m].grids[a].columns
           P == UNION {{m} \X (1..w.band[m].columns) : m \in Members}
           number(m) == CHOOSE f \in [E(m) -> 1..w.band[m].columns] :
                          \A x, y \in E(m) : f[x] = f[y] => x = y
           home(g) == CHOOSE m \in Members : \E c \in E(m) : g = Col(w, m, c)
           local(g) == CHOOSE c \in E(home(g)) : g = Col(w, home(g), c)
           pair(g) == <<home(g), number(home(g))[local(g)]>>
           h == [g \in D |-> pair(g)]
<1>1. ASSUME NEW m \in Members
      PROVE /\ number(m) \in [E(m) -> 1..w.band[m].columns]
            /\ \A x, y \in E(m) : number(m)[x] = number(m)[y] => x = y
  <2>1. /\ IsFiniteSet(E(m)) /\ Cardinality(E(m)) =< w.band[m].columns
        /\ w.band[m].columns \in Nat
    <3>1. IsLayout(K[m]) /\ Cardinality(E(m)) =< w.band[m].columns
      BY DEF Joined, OnOwn
    <3>2. w.band[m].columns \in Nat
      BY DEF Joined, IsWave, Bands
    <3> QED BY <3>1, <3>2 DEF IsLayout, IsLines
  <2>2. \E f \in [E(m) -> 1..w.band[m].columns] : \A x, y \in E(m) : f[x] = f[y] => x = y
    <3> HIDE DEF E
    <3> QED BY <2>1, Numbered
  <2> QED BY <2>2
<1>2. ASSUME NEW g \in D
      PROVE /\ home(g) \in Members /\ local(g) \in E(home(g))
            /\ g = Col(w, home(g), local(g))
  <2>1. \E m \in Members : \E c \in E(m) : g = Col(w, m, c)
    <3>1. PICK d \in Members : TRUE
      BY BatchAssumption
    <3>2. a \in w.aods[d]
      BY <3>1
    <3> QED BY <3>2 DEF Joined, JoinOf
  <2>2. home(g) \in Members /\ \E c \in E(home(g)) : g = Col(w, home(g), c)
    <3> HIDE DEF E
    <3> QED BY <2>1
  <2> HIDE DEF home, E
  <2> QED BY <2>2
<1> HIDE DEF E, number, home, local
<1>3. \A g \in D : pair(g) \in P
  BY <1>1, <1>2
<1>4. ASSUME NEW g \in D, NEW k \in D, pair(g) = pair(k) PROVE g = k
  <2>1. home(g) = home(k) /\ number(home(g))[local(g)] = number(home(g))[local(k)]
    BY <1>4
  <2>2. local(g) = local(k)
    BY <1>1, <1>2, <2>1
  <2> QED BY <1>2, <2>1, <2>2
<1> HIDE DEF pair, P, D
<1>5. h \in Injection(D, P)
  BY <1>3, <1>4 DEF Injection, IsInjective
<1>6. IsFiniteSet(P)
  BY DeclaredColumnsFinite DEF Joined, P
<1>7. Cardinality(D) =< Cardinality(P) /\ IsFiniteSet(D)
  <2> HIDE DEF h
  <2> QED BY <1>5, <1>6, FS_Injection
<1>8. /\ Cardinality(D) \in Nat /\ Cardinality(P) \in Nat
      /\ Capacity[a].columns \in Nat
  BY <1>6, <1>7, FS_CardinalityType, DeviceAssumption
<1>9. Cardinality(P) =< Capacity[a].columns
  BY DEF P
<1> QED BY <1>7, <1>8, <1>9 DEF D

\* The columns of a shared AOD keep their distance, within and across members.
LEMMA JoinSpaced ==
  ASSUME NEW w, NEW C, NEW K, NEW W, Joined(w, C, K, W), w.shared,
         NEW a \in Aods, \A m \in Members : w.aods[m] = {a},
         \A m, n \in Members : m # n =>
           \/ w.band[m].hi < w.band[n].lo /\ w.band[n].lo - w.band[m].hi >= Spacing[a]
           \/ w.band[n].hi < w.band[m].lo /\ w.band[m].lo - w.band[n].hi >= Spacing[a]
  PROVE  Spaced(W.grids[a].columns, Spacing[a])
<1> SUFFICES ASSUME NEW g \in DOMAIN W.grids[a].columns, NEW k \in DOMAIN W.grids[a].columns,
                    g # k, W.grids[a].columns[g] =< W.grids[a].columns[k]
             PROVE  /\ W.grids[a].columns[g] < W.grids[a].columns[k]
                    /\ W.grids[a].columns[k] - W.grids[a].columns[g] >= Spacing[a]
  BY DEF Spaced
<1>0. \E m \in Members : a \in w.aods[m]
  BY BatchAssumption
<1>1. PICK m \in Members : \E c \in DOMAIN K[m].grids[a].columns : g = Col(w, m, c)
  BY <1>0 DEF Joined, JoinOf
<1>2. PICK c \in DOMAIN K[m].grids[a].columns : g = Col(w, m, c)
  BY <1>1
<1>3. PICK n \in Members : \E d \in DOMAIN K[n].grids[a].columns : k = Col(w, n, d)
  BY <1>0 DEF Joined, JoinOf
<1>4. PICK d \in DOMAIN K[n].grids[a].columns : k = Col(w, n, d)
  BY <1>3
<1> DEFINE x == K[m].grids[a].columns[c]
           y == K[n].grids[a].columns[d]
<1>5. W.grids[a].columns[g] = x /\ W.grids[a].columns[k] = y
  BY <1>2, <1>4 DEF Joined, JoinOf
<1>6. /\ w.band[m].lo =< x /\ x =< w.band[m].hi
      /\ w.band[n].lo =< y /\ y =< w.band[n].hi
  BY DEF Joined, OnOwn, Between
<1>7. /\ x \in Int /\ y \in Int /\ Spacing[a] \in Nat
      /\ w.band[m].lo \in Int /\ w.band[m].hi \in Int
      /\ w.band[n].lo \in Int /\ w.band[n].hi \in Int
  <2>1. IsLines(K[m].grids[a].columns) /\ IsLines(K[n].grids[a].columns)
    BY DEF Joined, OnOwn, IsLayout
  <2>2. w.band[m] \in Bands /\ w.band[n] \in Bands
    BY DEF Joined, IsWave
  <2> QED BY <2>1, <2>2, DeviceAssumption DEF IsLines, Bands
<1>8. CASE m = n
  <2>1. c # d
    BY <1>2, <1>4, <1>8
  <2>2. Spaced(K[m].grids[a].columns, Spacing[a])
    BY DEF Joined, OnOwn, ValidLayout, ValidGrid
  <2>3. x < y /\ y - x >= Spacing[a]
    BY <1>5, <1>8, <2>1, <2>2 DEF Spaced
  <2> QED BY <2>3, <1>5
<1>9. CASE m # n
  <2> HIDE DEF x, y
  <2>1. \/ w.band[m].hi < w.band[n].lo /\ w.band[n].lo - w.band[m].hi >= Spacing[a]
        \/ w.band[n].hi < w.band[m].lo /\ w.band[m].lo - w.band[n].hi >= Spacing[a]
    BY <1>9
  <2>2. x < y /\ y - x >= Spacing[a]
    BY <1>5, <1>6, <1>7, <2>1
  <2> QED BY <2>2, <1>5
<1> QED BY <1>8, <1>9

\* Every AOD of the join has a valid grid.
LEMMA JoinGrids ==
  ASSUME NEW w, NEW C, NEW K, NEW W, Joined(w, C, K, W), NEW a \in Aods
  PROVE  ValidGrid(a, W.grids[a])
<1>1. CASE \A m \in Members : a \notin w.aods[m]
  BY <1>1 DEF Joined, JoinOf, ValidLayout
<1>2. CASE ~w.shared /\ \E m \in Members : a \in w.aods[m]
  <2>1. PICK m \in Members : a \in w.aods[m]
    BY <1>2
  <2>2. W.grids[a] = K[m].grids[a]
    BY <1>2, <2>1, JoinPrivate
  <2> QED BY <2>2 DEF Joined, OnOwn, ValidLayout
<1>3. CASE w.shared /\ \E m \in Members : a \in w.aods[m]
  <2>1. MayStart(w, C)
    BY DEF Joined
  <2>2. /\ \A m \in Members : w.aods[m] = {a}
        /\ Cardinality(UNION {{m} \X (1..w.band[m].columns) : m \in Members}) =< Capacity[a].columns
        /\ \A m, n \in Members : m # n =>
             \/ w.band[m].hi < w.band[n].lo /\ w.band[n].lo - w.band[m].hi >= Spacing[a]
             \/ w.band[n].hi < w.band[m].lo /\ w.band[m].lo - w.band[n].hi >= Spacing[a]
    BY <1>3, <2>1, SharedByAll
  <2>3. /\ Cardinality(DOMAIN W.grids[a].columns) =< Capacity[a].columns
        /\ Spaced(W.grids[a].columns, Spacing[a])
    BY <1>3, <2>2, JoinFits, JoinSpaced
  <2>4. \A m \in Members : ValidGrid(a, K[m].grids[a]) /\ W.grids[a].rows = K[m].grids[a].rows
    BY <2>2 DEF Joined, OnOwn, ValidLayout, JoinOf
  <2>5. PICK m \in Members : TRUE
    BY BatchAssumption
  <2>6. /\ Cardinality(DOMAIN W.grids[a].rows) =< Capacity[a].rows
        /\ Between(W.grids[a].rows, Workspace[a].y1, Workspace[a].y2)
        /\ Spaced(W.grids[a].rows, Spacing[a])
    BY <2>4, <2>5 DEF ValidGrid
  <2>7. ASSUME NEW g \in DOMAIN W.grids[a].columns
        PROVE  /\ Workspace[a].x1 =< W.grids[a].columns[g]
               /\ W.grids[a].columns[g] =< Workspace[a].x2
    <3>1. PICK n \in Members : \E c \in DOMAIN K[n].grids[a].columns : g = Col(w, n, c)
      BY <1>3 DEF Joined, JoinOf
    <3>2. PICK c \in DOMAIN K[n].grids[a].columns : g = Col(w, n, c)
      BY <3>1
    <3>3. W.grids[a].columns[g] = K[n].grids[a].columns[c]
      BY <2>2, <3>2 DEF Joined, JoinOf
    <3> QED BY <2>4, <3>3 DEF ValidGrid, Between
  <2> QED BY <2>3, <2>6, <2>7 DEF ValidGrid, Between
<1> QED BY <1>1, <1>2, <1>3

\* A renamed atom is where it was, in a trap of the same kind.
LEMMA JoinOwned ==
  ASSUME NEW w, NEW C, NEW K, NEW W, Joined(w, C, K, W),
         NEW m \in Members, NEW i \in w.atoms[m]
  PROVE  /\ i \in Atoms
         /\ W.atoms[i] = Renamed(w, m, K[m].atoms[i])
         /\ K[m].atoms[i] \in [pos : Point, holder : Holders]
         /\ W.atoms[i].pos = K[m].atoms[i].pos
         /\ InSlm(W, i) <=> InSlm(K[m], i)
         /\ ~(K[m].atoms[i].holder.kind = "aod" /\ K[m].atoms[i].holder.aod \in w.aods[m])
              => W.atoms[i] = K[m].atoms[i]
         /\ K[m].atoms[i].holder.kind = "aod" /\ K[m].atoms[i].holder.aod \in w.aods[m]
              => /\ W.atoms[i].holder.kind = "aod"
                 /\ W.atoms[i].holder.aod = K[m].atoms[i].holder.aod
                 /\ W.atoms[i].holder.row = K[m].atoms[i].holder.row
                 /\ W.atoms[i].holder.column = Col(w, m, K[m].atoms[i].holder.column)
<1>1. i \in Atoms
  BY DEF Joined, IsWave
<1>2. W.atoms[i] = Renamed(w, m, K[m].atoms[i])
  BY DEF Joined, JoinOf
<1>3. K[m].atoms[i] \in [pos : Point, holder : Holders]
  BY <1>1 DEF Joined, OnOwn, IsLayout
<1> DEFINE atom == K[m].atoms[i]
<1>4. CASE atom.holder.kind = "aod" /\ atom.holder.aod \in w.aods[m]
  <2>1. W.atoms[i] = [pos |-> atom.pos,
                      holder |-> AOD(atom.holder.aod, atom.holder.row, Col(w, m, atom.holder.column))]
    BY <1>2, <1>4 DEF Renamed
  <2>2. /\ W.atoms[i].pos = atom.pos /\ W.atoms[i].holder.kind = "aod"
        /\ W.atoms[i].holder.aod = atom.holder.aod
        /\ W.atoms[i].holder.row = atom.holder.row
        /\ W.atoms[i].holder.column = Col(w, m, atom.holder.column)
    BY <2>1 DEF AOD
  <2> QED BY <1>1, <1>2, <1>3, <1>4, <2>2 DEF InSlm
<1>5. CASE ~(atom.holder.kind = "aod" /\ atom.holder.aod \in w.aods[m])
  <2>1. W.atoms[i] = atom
    BY <1>2, <1>5 DEF Renamed
  <2> QED BY <1>1, <1>2, <1>3, <1>5, <2>1 DEF InSlm
<1> QED BY <1>4, <1>5

\* An atom of the context that a member's world holds unmoved is on the lines of
\* the join as well.
LEMMA JoinHoldsUnmoved ==
  ASSUME NEW w, NEW C, NEW K, NEW W, Joined(w, C, K, W),
         NEW i \in Atoms, W.atoms[i] = C.atoms[i],
         \A n \in Members : i \in w.atoms[n] =>
           InSlm(C, i) \/ C.atoms[i].holder.aod \notin w.aods[n]
  PROVE  AtHolder(W, i)
<1> DEFINE h == C.atoms[i].holder
           b == h.aod
<1>1. AtHolder(C, i) /\ h \in Holders
  BY DEF Joined, ValidLayout, IsLayout
<1>2. CASE InSlm(C, i)
  BY <1>1, <1>2 DEF AtHolder, InSlm
<1>3. CASE ~InSlm(C, i)
  <2>1. h.kind = "aod" /\ b \in Aods
    BY <1>1, <1>3 DEF Holders, InSlm
  <2>2. CASE \A n \in Members : b \notin w.aods[n]
    <3>1. W.grids[b] = C.grids[b]
      BY <2>1, <2>2 DEF Joined, JoinOf
    <3> QED BY <1>1, <1>3, <3>1 DEF AtHolder, InSlm
  <2>3. CASE \E n \in Members : b \in w.aods[n]
    <3>1. PICK n \in Members : b \in w.aods[n]
      BY <2>3
    <3>2. i \notin w.atoms[n]
      BY <1>3, <3>1
    <3>3. CASE w.shared
      <4>1. DOMAIN C.grids[b].rows = {}
        BY <3>1, <3>3 DEF Joined, MayStart
      <4>2. h.row \in DOMAIN C.grids[b].rows
        BY <1>1, <1>3 DEF AtHolder
      <4> QED BY <4>1, <4>2
    <3>4. CASE ~w.shared
      <4>1. W.grids[b] = K[n].grids[b]
        BY <3>1, <3>4, JoinPrivate
      <4>2. K[n].atoms[i] = C.atoms[i] /\ AtHolder(K[n], i)
        BY <3>2 DEF Joined, OnOwn, ValidLayout
      <4> QED BY <1>3, <4>1, <4>2 DEF AtHolder, InSlm
    <3> QED BY <3>3, <3>4
  <2> QED BY <2>2, <2>3
<1> QED BY <1>2, <1>3

\* In the join every atom is where its trap is.
LEMMA JoinHolds ==
  ASSUME NEW w, NEW C, NEW K, NEW W, Joined(w, C, K, W), NEW i \in Atoms
  PROVE  AtHolder(W, i)
<1>1. CASE \A m \in Members : i \notin w.atoms[m]
  <2>1. W.atoms[i] = C.atoms[i]
    BY <1>1 DEF Joined, JoinOf
  <2> QED BY <1>1, <2>1, JoinHoldsUnmoved
<1>2. CASE \E m \in Members : i \in w.atoms[m]
  <2>1. PICK m \in Members : i \in w.atoms[m]
    BY <1>2
  <2> DEFINE atom == K[m].atoms[i]
             h == atom.holder
             b == h.aod
  <2>2. AtHolder(K[m], i)
    BY DEF Joined, OnOwn, ValidLayout
  <2>3. CASE InSlm(K[m], i)
    <3>1. W.atoms[i] = atom
      BY <2>1, <2>3, JoinOwned DEF InSlm
    <3> QED BY <2>2, <2>3, <3>1 DEF AtHolder, InSlm
  <2>4. CASE h.kind = "aod" /\ b \in w.aods[m]
    <3>1. /\ W.atoms[i].pos = atom.pos
          /\ W.atoms[i].holder.kind = "aod" /\ W.atoms[i].holder.aod = b
          /\ W.atoms[i].holder.row = h.row
          /\ W.atoms[i].holder.column = Col(w, m, h.column)
      BY <2>1, <2>4, JoinOwned
    <3>2. /\ h.row \in DOMAIN K[m].grids[b].rows /\ h.column \in DOMAIN K[m].grids[b].columns
          /\ atom.pos = Cross(K[m].grids[b], h.row, h.column)
      BY <2>2, <2>4 DEF AtHolder, InSlm
    <3>3. /\ W.grids[b].rows = K[m].grids[b].rows
          /\ Col(w, m, h.column) \in DOMAIN W.grids[b].columns
          /\ W.grids[b].columns[Col(w, m, h.column)] = K[m].grids[b].columns[h.column]
      BY <2>4, <3>2 DEF Joined, JoinOf
    <3>4. Cross(W.grids[b], h.row, Col(w, m, h.column)) = Cross(K[m].grids[b], h.row, h.column)
      BY <3>3 DEF Cross
    <3> QED BY <3>1, <3>2, <3>3, <3>4 DEF AtHolder, InSlm
  <2>5. CASE h.kind = "aod" /\ b \notin w.aods[m]
    <3>1. atom = C.atoms[i] /\ W.atoms[i] = atom
      BY <2>1, <2>5, JoinOwned DEF Joined, OnOwn
    <3>2. \A n \in Members : i \in w.atoms[n] => n = m
      BY <2>1 DEF Joined, MayStart, Compatible
    <3> QED BY <2>5, <3>1, <3>2, JoinHoldsUnmoved
  <2>6. InSlm(K[m], i) \/ h.kind = "aod"
    <3>1. atom \in [pos : Point, holder : Holders]
      BY <2>1, JoinOwned
    <3> QED BY <3>1 DEF Holders, InSlm
  <2> QED BY <2>3, <2>4, <2>5, <2>6
<1> QED BY <1>1, <1>2

\* A member's atom and one of another member, or of none, are not in one place.
LEMMA JoinApart ==
  ASSUME NEW w, NEW C, NEW K, NEW W, Joined(w, C, K, W),
         NEW m \in Members, NEW i \in w.atoms[m], NEW j \in Atoms, i # j
  PROVE  W.atoms[i].pos # W.atoms[j].pos
<1>1. i \in Atoms /\ W.atoms[i].pos = K[m].atoms[i].pos
  BY JoinOwned
<1>2. /\ ValidLayout(K[m]) /\ Enveloped(w, m, K[m])
      /\ j \notin w.atoms[m] => K[m].atoms[j] = C.atoms[j]
  BY DEF Joined, OnOwn
<1>3. K[m].atoms[i].pos # K[m].atoms[j].pos
  BY <1>1, <1>2 DEF ValidLayout
<1>4. CASE j \in w.atoms[m]
  <2>1. W.atoms[j].pos = K[m].atoms[j].pos
    BY <1>4, JoinOwned
  <2> QED BY <1>1, <1>3, <2>1
<1>5. CASE \A n \in Members : j \notin w.atoms[n]
  <2>1. W.atoms[j] = C.atoms[j]
    BY <1>5 DEF Joined, JoinOf
  <2> QED BY <1>1, <1>2, <1>3, <1>5, <2>1
<1>6. CASE j \notin w.atoms[m] /\ \E n \in Members : j \in w.atoms[n]
  <2>1. PICK n \in Members : j \in w.atoms[n]
    BY <1>6
  <2>2. /\ m # n /\ W.atoms[j].pos = K[n].atoms[j].pos
        /\ K[n].atoms[j].pos \in Point
    BY <1>6, <2>1, JoinOwned
  <2>3. PICK q \in w.spaces[n] : Inside(q, K[n].atoms[j].pos)
    BY <2>1 DEF Joined, OnOwn, Enveloped
  <2>4. PICK r \in w.spaces[m] : Inside(r, K[m].atoms[i].pos)
    BY <1>2 DEF Enveloped
  <2>5. IsWave(w) /\ Compatible(w)
    BY DEF Joined, MayStart
  <2>6. K[m].atoms[i].pos # K[n].atoms[j].pos
    <3> SUFFICES ASSUME K[m].atoms[i].pos = K[n].atoms[j].pos PROVE FALSE
      OBVIOUS
    <3>1. Inside(r, K[n].atoms[j].pos)
      BY <2>4
    <3> QED BY <2>2, <2>3, <2>5, <3>1, RegionsApart
  <2> QED BY <1>1, <2>2, <2>6
<1> QED BY <1>4, <1>5, <1>6

\* No two atoms of the join are in one trap or one place.
LEMMA JoinDistinct ==
  ASSUME NEW w, NEW C, NEW K, NEW W, Joined(w, C, K, W),
         NEW i \in Atoms, NEW j \in Atoms, i # j
  PROVE  /\ W.atoms[i].holder # W.atoms[j].holder
         /\ W.atoms[i].pos # W.atoms[j].pos
<1>1. W.atoms[i].pos # W.atoms[j].pos
  <2>1. CASE \E m \in Members : i \in w.atoms[m]
    BY <2>1, JoinApart
  <2>2. CASE \E m \in Members : j \in w.atoms[m]
    BY <2>2, JoinApart
  <2>3. CASE \A m \in Members : i \notin w.atoms[m] /\ j \notin w.atoms[m]
    <3>1. W.atoms[i] = C.atoms[i] /\ W.atoms[j] = C.atoms[j]
      BY <2>3 DEF Joined, JoinOf
    <3> QED BY <3>1 DEF Joined, ValidLayout
  <2> QED BY <2>1, <2>2, <2>3
<1>2. AtHolder(W, i) /\ AtHolder(W, j)
  BY JoinHolds
<1>3. W.atoms[i].holder = W.atoms[j].holder => W.atoms[i].pos = W.atoms[j].pos
  BY <1>2 DEF AtHolder, InSlm
<1> QED BY <1>1, <1>3

\* No atom in a site of the join is under active lines.
LEMMA JoinGhosts ==
  ASSUME NEW w, NEW C, NEW K, NEW W, Joined(w, C, K, W),
         NEW i \in Atoms, NEW a \in Aods, InSlm(W, i), Traps(W.grids[a], W.atoms[i].pos)
  PROVE  FALSE
<1> DEFINE p == W.atoms[i].pos
<1>0. /\ p \in Point
      /\ IsWave(w) /\ Compatible(w)
      /\ \A m \in Members : ValidLayout(K[m])
  BY DEF Joined, MayStart, OnOwn, IsLayout
<1>1. CASE \A n \in Members : a \notin w.aods[n]
  <2>1. W.grids[a] = C.grids[a]
    BY <1>1 DEF Joined, JoinOf
  <2>2. CASE \E m \in Members : i \in w.atoms[m]
    <3>1. PICK m \in Members : i \in w.atoms[m]
      BY <2>2
    <3>2. p = K[m].atoms[i].pos /\ InSlm(K[m], i)
      BY <3>1, JoinOwned
    <3>3. K[m].grids[a] = C.grids[a]
      BY <1>1 DEF Joined, OnOwn
    <3> QED BY <1>0, <2>1, <3>2, <3>3 DEF ValidLayout
  <2>3. CASE \A m \in Members : i \notin w.atoms[m]
    <3>1. W.atoms[i] = C.atoms[i]
      BY <2>3 DEF Joined, JoinOf
    <3> QED BY <2>1, <3>1 DEF Joined, ValidLayout, InSlm
  <2> QED BY <2>2, <2>3
<1>2. CASE \E d \in Members : a \in w.aods[d]
  <2>1. PICK n \in Members : a \in w.aods[n] /\ Traps(K[n].grids[a], p)
    BY <1>2, JoinTraps
  <2>2. CASE \A m \in Members : i \notin w.atoms[m]
    <3>1. K[n].atoms[i] = W.atoms[i]
      BY <2>2 DEF Joined, JoinOf, OnOwn
    <3> QED BY <1>0, <2>1, <3>1 DEF ValidLayout, InSlm
  <2>3. CASE \E m \in Members : i \in w.atoms[m]
    <3>1. PICK m \in Members : i \in w.atoms[m]
      BY <2>3
    <3>2. p = K[m].atoms[i].pos /\ InSlm(K[m], i)
      BY <3>1, JoinOwned
    <3>3. CASE m = n
      BY <1>0, <2>1, <3>2, <3>3 DEF ValidLayout
    <3>4. CASE m # n
      <4>1. K[n].grids[a] = C.grids[a] \/ GridWithin(w, n, K[n].grids[a])
        BY <2>1 DEF Joined, OnOwn
      <4>2. CASE K[n].grids[a] = C.grids[a]
        <5>1. CASE w.shared
          <6>1. DOMAIN C.grids[a].rows = {}
            BY <2>1, <5>1 DEF Joined, MayStart
          <6> QED BY <2>1, <4>2, <6>1 DEF Traps
        <5>2. CASE ~w.shared
          <6>1. a \notin w.aods[m]
            BY <1>0, <2>1, <3>4, <5>2 DEF Compatible
          <6>2. K[m].grids[a] = C.grids[a]
            BY <6>1 DEF Joined, OnOwn
          <6> QED BY <1>0, <2>1, <3>2, <4>2, <6>2 DEF ValidLayout
        <5> QED BY <5>1, <5>2
      <4>3. CASE GridWithin(w, n, K[n].grids[a])
        <5>1. PICK q \in w.spaces[n] :
                \A r \in DOMAIN K[n].grids[a].rows, c \in DOMAIN K[n].grids[a].columns :
                  Inside(q, Cross(K[n].grids[a], r, c))
          BY <4>3 DEF GridWithin
        <5>2. PICK r \in DOMAIN K[n].grids[a].rows, c \in DOMAIN K[n].grids[a].columns :
                K[n].grids[a].rows[r] = p.y /\ K[n].grids[a].columns[c] = p.x
          BY <2>1 DEF Traps
        <5>3. Inside(q, p)
          <6>1. Inside(q, Cross(K[n].grids[a], r, c))
            BY <5>1
          <6>2. Cross(K[n].grids[a], r, c).x = p.x /\ Cross(K[n].grids[a], r, c).y = p.y
            BY <5>2 DEF Cross
          <6> QED BY <6>1, <6>2 DEF Inside
        <5>4. PICK s \in w.spaces[m] : Inside(s, p)
          BY <3>1, <3>2 DEF Joined, OnOwn, Enveloped
        <5> QED BY <1>0, <3>4, <5>3, <5>4, RegionsApart
      <4> QED BY <4>1, <4>2, <4>3
    <3> QED BY <3>3, <3>4
  <2> QED BY <2>2, <2>3
<1> QED BY <1>1, <1>2

\* Worlds the members made within their declarations join to a valid layout,
\* whatever the members did and in however many steps.
THEOREM JoinValid ==
  ASSUME NEW w, NEW C, NEW K, NEW W, Joined(w, C, K, W)
  PROVE  ValidLayout(W)
  BY JoinGrids, JoinHolds, JoinDistinct, JoinGhosts DEF ValidLayout

-----------------------------------------------------------------------------
\* The parts of a trap.
LEMMA TrapParts ==
  /\ \A b, r, c : /\ AOD(b, r, c).kind = "aod" /\ AOD(b, r, c).aod = b
                  /\ AOD(b, r, c).row = r /\ AOD(b, r, c).column = c
  /\ \A t : SLM(t).kind = "slm" /\ SLM(t).site = t
  BY DEF AOD, SLM

\* What an action does to an atom it names, by the kind of action.
LEMMA NamedAtoms ==
  ASSUME NEW L, NEW s, IsAction(s), NEW i \in Named(s)
  PROVE  /\ Apply(L, {s}).atoms[i] = Carried(L, s, i)
         /\ s.kind = "move" => /\ Carried(L, s, i).pos = s.at[i]
                               /\ Carried(L, s, i).holder = L.atoms[i].holder
         /\ s.kind = "load" =>
              /\ Carried(L, s, i).pos = L.atoms[i].pos
              /\ Carried(L, s, i).holder = AOD(s.aod, s.at[i].row, s.at[i].column)
         /\ s.kind = "store" => /\ Carried(L, s, i).pos = SiteAt[s.at[i]]
                                /\ Carried(L, s, i).holder = SLM(s.at[i])
<1>1. i \in Atoms
  BY DEF IsAction
<1>2. Apply(L, {s}).atoms[i] = Carried(L, s, i)
  BY <1>1, ApplyOne
<1>3. CASE s.kind = "move"
  <2>1. Carried(L, s, i) = [pos |-> s.at[i], holder |-> L.atoms[i].holder]
    BY <1>3 DEF Carried
  <2> QED BY <1>2, <1>3, <2>1
<1>4. CASE s.kind = "load"
  <2>1. Carried(L, s, i)
          = [pos |-> L.atoms[i].pos, holder |-> AOD(s.aod, s.at[i].row, s.at[i].column)]
    BY <1>4 DEF Carried
  <2> QED BY <1>2, <1>4, <2>1
<1>5. CASE s.kind = "store"
  <2>1. Carried(L, s, i) = [pos |-> SiteAt[s.at[i]], holder |-> SLM(s.at[i])]
    BY <1>5 DEF Carried
  <2> QED BY <1>2, <1>5, <2>1
<1> QED BY <1>3, <1>4, <1>5 DEF IsAction, Kinds

\* An admitted member's step: its own atoms, an AOD of its own, within its
\* regions, its columns and its band.
Keeping(w, m, k, s) ==
  /\ IsAction(s) /\ Checked(k, s)
  /\ Owns(w, m, s) /\ WithinSpace(w, m, k, s)
  /\ DOMAIN s.grid.columns \subseteq w.ids[m]
  /\ w.shared => WithinBand(w, m, s)

\* Such a step leaves the member's world its own.
LEMMA StepOnOwn ==
  ASSUME NEW w, IsWave(w), NEW C, MayStart(w, C), NEW m \in Members,
         NEW k, OnOwn(w, C, m, k), NEW s, Keeping(w, m, k, s)
  PROVE  OnOwn(w, C, m, Apply(k, {s}))
<1> DEFINE N == Apply(k, {s})
<1> HIDE DEF N
<1>1. IsLayout(N) /\ ValidLayout(N)
  BY CheckedKeepsValid DEF OnOwn, Keeping, N
<1>2. /\ IsAction(s) /\ Checked(k, s) /\ s.aod \in w.aods[m] /\ Named(s) \subseteq w.atoms[m]
      /\ s.aod \in Aods /\ w.atoms[m] \subseteq Atoms /\ w.aods[m] \subseteq Aods
  BY DEF Keeping, Owns, IsWave
<1>3. /\ \A i \in Atoms : i \notin Named(s) => N.atoms[i] = k.atoms[i]
      /\ \A a \in Aods : N.grids[a] = IF a = s.aod THEN s.grid ELSE k.grids[a]
  BY ApplyOne DEF N
<1>4. \A i \in Atoms \ w.atoms[m] : N.atoms[i] = C.atoms[i]
  BY <1>2, <1>3 DEF OnOwn
<1>5. \A a \in Aods \ w.aods[m] : N.grids[a] = C.grids[a]
  BY <1>2, <1>3 DEF OnOwn
<1>6. ASSUME NEW i \in Named(s)
      PROVE /\ s.kind = "move" => N.atoms[i].pos = s.at[i]
            /\ s.kind # "move" => N.atoms[i].pos = k.atoms[i].pos
            /\ N.atoms[i].holder.kind = "aod" => N.atoms[i].holder.aod = s.aod
  <2>1. CASE s.kind = "move"
    <3>1. CarriedBy(k, i, s.aod)
      BY <1>2, <2>1 DEF Checked, CheckMove
    <3> QED BY <1>2, <2>1, <3>1, NamedAtoms DEF N, CarriedBy
  <2>2. CASE s.kind = "load"
    <3>1. N.atoms[i].holder = AOD(s.aod, s.at[i].row, s.at[i].column)
          /\ N.atoms[i].pos = k.atoms[i].pos
      BY <1>2, <2>2, NamedAtoms DEF N
    <3> QED BY <2>2, <3>1 DEF AOD
  <2>3. CASE s.kind = "store"
    <3>1. k.atoms[i].pos = SiteAt[s.at[i]]
      BY <1>2, <2>3 DEF Checked, CheckStore
    <3>2. N.atoms[i].holder = SLM(s.at[i]) /\ N.atoms[i].pos = SiteAt[s.at[i]]
      BY <1>2, <2>3, NamedAtoms DEF N
    <3> QED BY <2>3, <3>1, <3>2 DEF SLM
  <2> QED BY <1>2, <2>1, <2>2, <2>3 DEF IsAction, Kinds
<1>7. ASSUME NEW i \in w.atoms[m]
      PROVE \E r \in w.spaces[m] : Inside(r, N.atoms[i].pos)
  <2>1. \E r \in w.spaces[m] : Inside(r, k.atoms[i].pos)
    BY DEF OnOwn, Enveloped
  <2>2. CASE i \in Named(s) /\ s.kind = "move"
    <3>1. \E r \in w.spaces[m] : Inside(r, s.at[i])
      BY <2>2 DEF Keeping, WithinSpace
    <3> QED BY <1>6, <2>2, <3>1
  <2>3. CASE ~(i \in Named(s) /\ s.kind = "move")
    <3>1. N.atoms[i].pos = k.atoms[i].pos
      BY <1>2, <1>3, <1>6, <2>3
    <3> QED BY <2>1, <3>1
  <2> QED BY <2>2, <2>3
<1>8. ASSUME NEW a \in w.aods[m]
      PROVE N.grids[a] = C.grids[a] \/ GridWithin(w, m, N.grids[a])
  <2>1. CASE a = s.aod
    <3>1. N.grids[a] = s.grid
      BY <1>2, <1>3, <2>1
    <3>2. GridWithin(w, m, s.grid)
      BY DEF Keeping, WithinSpace, GridWithin
    <3> QED BY <3>1, <3>2
  <2>2. CASE a # s.aod
    <3>1. N.grids[a] = k.grids[a]
      BY <1>2, <1>3, <2>2
    <3> QED BY <3>1 DEF OnOwn
  <2> QED BY <2>1, <2>2
<1>9. ASSUME NEW i \in w.atoms[m],
             N.atoms[i].holder.kind = "aod", N.atoms[i].holder.aod \notin w.aods[m]
      PROVE N.atoms[i] = C.atoms[i]
  <2>1. i \notin Named(s)
    BY <1>2, <1>6, <1>9
  <2>2. N.atoms[i] = k.atoms[i]
    BY <1>2, <1>3, <2>1
  <2> QED BY <1>9, <2>2 DEF OnOwn
<1>10. ASSUME w.shared, NEW a \in w.aods[m]
       PROVE  /\ DOMAIN N.grids[a].columns \subseteq w.ids[m]
              /\ Cardinality(DOMAIN N.grids[a].columns) =< w.band[m].columns
              /\ Between(N.grids[a].columns, w.band[m].lo, w.band[m].hi)
  <2>1. a = s.aod
    <3>1. \E b \in Aods : w.aods[m] = {b}
      BY <1>10 DEF MayStart, Compatible
    <3> QED BY <1>2, <3>1
  <2>2. N.grids[a] = s.grid
    BY <1>2, <1>3, <2>1
  <2> QED BY <1>10, <2>2 DEF Keeping, WithinBand
<1>11. Enveloped(w, m, N)
  BY <1>7 DEF Enveloped
<1>12. OnOwn(w, C, m, N)
  BY <1>1, <1>4, <1>5, <1>8, <1>9, <1>10, <1>11 DEF OnOwn
<1> QED BY <1>12 DEF N

\* An action checks out when its lines change as they may, it names atoms of the
\* right kind, and it leads to a valid layout: the checks ask for no more.
THEOREM SafeIsChecked ==
  ASSUME NEW L, IsLayout(L), ValidLayout(L), NEW s, IsAction(s), LinesChange(L, s),
         s.kind = "load" => \A i \in Named(s) : InSlm(L, i),
         s.kind # "load" => \A i \in Named(s) : CarriedBy(L, i, s.aod),
         s.kind = "store" => \A i \in Named(s) : L.atoms[i].pos = SiteAt[s.at[i]],
         ValidLayout(Apply(L, {s}))
  PROVE  Checked(L, s)
<1> DEFINE N == Apply(L, {s})
           a == s.aod
<1>0. ValidLayout(N) /\ a \in Aods /\ s.kind \in Kinds /\ Named(s) \subseteq Atoms
  BY DEF IsAction
<1> HIDE DEF N
<1>1. /\ \A i \in Atoms : i \notin Named(s) => N.atoms[i] = L.atoms[i]
      /\ \A b \in Aods : N.grids[b] = IF b = a THEN s.grid ELSE L.grids[b]
  BY ApplyOne DEF N
<1>2. /\ \A i \in Atoms : AtHolder(N, i)
      /\ \A i, j \in Atoms : i # j => /\ N.atoms[i].holder # N.atoms[j].holder
                                      /\ N.atoms[i].pos # N.atoms[j].pos
      /\ \A i \in Atoms, b \in Aods : InSlm(N, i) => ~Traps(N.grids[b], N.atoms[i].pos)
      /\ N.grids[a] = s.grid
  BY <1>0, <1>1 DEF ValidLayout
<1>3. CASE s.kind = "move"
  <2>1. ASSUME NEW i \in Atoms
        PROVE  /\ N.atoms[i].holder = L.atoms[i].holder
               /\ N.atoms[i].pos = IF i \in Named(s) THEN s.at[i] ELSE L.atoms[i].pos
    <3>1. CASE i \in Named(s)
      BY <1>3, <3>1, NamedAtoms DEF N
    <3>2. CASE i \notin Named(s)
      BY <1>1, <3>2
    <3> QED BY <3>1, <3>2
  <2>2. \A i \in Named(s) : CarriedBy(L, i, a)
    BY <1>3
  <2>3. ASSUME NEW i \in Atoms, CarriedBy(L, i, a)
        PROVE N.atoms[i].pos = Cross(s.grid, L.atoms[i].holder.row, L.atoms[i].holder.column)
    BY <1>2, <2>1, <2>3 DEF AtHolder, InSlm, CarriedBy
  <2>4. ASSUME NEW i \in Atoms, CarriedBy(L, i, a), NEW j \in Atoms, ~CarriedBy(L, j, a)
        PROVE L.atoms[j].pos # Cross(s.grid, L.atoms[i].holder.row, L.atoms[i].holder.column)
    <3>1. j \notin Named(s) /\ i # j
      BY <2>2, <2>4
    <3>2. N.atoms[j].pos = L.atoms[j].pos /\ N.atoms[i].pos # N.atoms[j].pos
      BY <1>2, <2>1, <3>1
    <3> QED BY <2>3, <2>4, <3>2
  <2>5. NoGhosts(L, s.grid, {})
    <3> SUFFICES ASSUME NEW i \in Atoms, InSlm(L, i) PROVE ~Traps(s.grid, L.atoms[i].pos)
      BY DEF NoGhosts
    <3>1. i \notin Named(s)
      BY <2>2 DEF InSlm, CarriedBy
    <3>2. N.atoms[i] = L.atoms[i]
      BY <1>1, <3>1
    <3> QED BY <1>0, <1>2, <3>2 DEF InSlm
  <2>6. CheckMove(L, s)
    <3>1. \A i \in Atoms : CarriedBy(L, i, a) =>
            Cross(s.grid, L.atoms[i].holder.row, L.atoms[i].holder.column)
              = IF i \in Named(s) THEN s.at[i] ELSE L.atoms[i].pos
      BY <2>1, <2>3
    <3> QED BY <1>0, <2>2, <2>4, <2>5, <3>1 DEF CheckMove
  <2> QED BY <1>3, <2>6 DEF Checked
<1>4. CASE s.kind = "load"
  <2>1. ASSUME NEW i \in Named(s)
        PROVE  /\ i \in Atoms /\ InSlm(L, i)
               /\ N.atoms[i].pos = L.atoms[i].pos
               /\ N.atoms[i].holder = AOD(a, s.at[i].row, s.at[i].column)
    BY <1>0, <1>4, NamedAtoms DEF N
  <2>2. ASSUME NEW i \in Named(s)
        PROVE  /\ Active(s.grid, s.at[i])
               /\ L.atoms[i].pos = Cross(s.grid, s.at[i].row, s.at[i].column)
    <3>1. /\ N.atoms[i].holder.kind = "aod" /\ N.atoms[i].holder.aod = a
          /\ N.atoms[i].holder.row = s.at[i].row /\ N.atoms[i].holder.column = s.at[i].column
      BY <2>1, TrapParts
    <3>2. AtHolder(N, i) /\ N.grids[a] = s.grid
      BY <1>2, <2>1
    <3> QED BY <2>1, <3>1, <3>2 DEF AtHolder, InSlm, Active
  <2>3. ASSUME NEW i \in Named(s), NEW j \in Named(s), i # j PROVE s.at[i] # s.at[j]
    <3>1. N.atoms[i].holder # N.atoms[j].holder
      BY <1>2, <2>1, <2>3
    <3> QED BY <2>1, <3>1
  <2>4. ASSUME NEW i \in Named(s), NEW j \in Atoms
        PROVE L.atoms[j].holder # AOD(a, s.at[i].row, s.at[i].column)
    <3>1. CASE j \in Named(s)
      BY <2>1, <3>1, TrapParts DEF InSlm
    <3>2. CASE j \notin Named(s)
      <4>1. i # j /\ N.atoms[j] = L.atoms[j]
        BY <1>1, <3>2
      <4>2. N.atoms[i].holder # N.atoms[j].holder
        BY <1>2, <2>1, <4>1
      <4> QED BY <2>1, <4>1, <4>2
    <3> QED BY <3>1, <3>2
  <2>5. NoGhosts(L, s.grid, Named(s))
    <3> SUFFICES ASSUME NEW i \in Atoms \ Named(s), InSlm(L, i)
                 PROVE ~Traps(s.grid, L.atoms[i].pos)
      BY DEF NoGhosts
    <3>1. N.atoms[i] = L.atoms[i]
      BY <1>1
    <3> QED BY <1>0, <1>2, <3>1 DEF InSlm
  <2>6. CheckLoad(L, s)
    BY <2>1, <2>2, <2>3, <2>4, <2>5 DEF CheckLoad
  <2> QED BY <1>4, <2>6 DEF Checked
<1>5. CASE s.kind = "store"
  <2>1. ASSUME NEW i \in Named(s)
        PROVE  /\ i \in Atoms /\ CarriedBy(L, i, a) /\ L.atoms[i].pos = SiteAt[s.at[i]]
               /\ N.atoms[i].pos = L.atoms[i].pos
               /\ N.atoms[i].holder = SLM(s.at[i])
    BY <1>0, <1>5, NamedAtoms DEF N
  <2>2. \A i \in Named(s) : InSlm(N, i)
    BY <2>1, TrapParts DEF InSlm
  <2>3. ASSUME NEW i \in Named(s), NEW j \in Named(s), i # j PROVE s.at[i] # s.at[j]
    <3>1. N.atoms[i].holder # N.atoms[j].holder
      BY <1>2, <2>1, <2>3
    <3> QED BY <2>1, <3>1
  <2>4. ASSUME NEW i \in Named(s), NEW j \in Atoms
        PROVE L.atoms[j].holder # SLM(s.at[i])
    <3>1. CASE j \in Named(s)
      BY <2>1, <3>1, TrapParts DEF CarriedBy
    <3>2. CASE j \notin Named(s)
      <4>1. i # j /\ N.atoms[j] = L.atoms[j]
        BY <1>1, <3>2
      <4>2. N.atoms[i].holder # N.atoms[j].holder
        BY <1>2, <2>1, <4>1
      <4> QED BY <2>1, <4>1, <4>2
    <3> QED BY <3>1, <3>2
  <2>5. ASSUME NEW i \in Named(s), NEW b \in Aods \ {a}
        PROVE ~Traps(L.grids[b], L.atoms[i].pos)
    <3>1. N.grids[b] = L.grids[b]
      BY <1>1
    <3> QED BY <1>2, <2>1, <2>2, <3>1
  <2>6. ASSUME NEW i \in Atoms, CarriedBy(L, i, a)
        PROVE i \in Named(s) <=> ~Active(s.grid, L.atoms[i].holder)
    <3> DEFINE h == L.atoms[i].holder
    <3>1. ASSUME i \notin Named(s) PROVE Active(s.grid, h)
      <4>1. N.atoms[i] = L.atoms[i]
        BY <1>1, <3>1
      <4> QED BY <1>2, <2>6, <4>1 DEF AtHolder, InSlm, CarriedBy, Active
    <3>2. ASSUME i \in Named(s), Active(s.grid, h) PROVE FALSE
      <4>1. L.atoms[i].pos = Cross(L.grids[a], h.row, h.column)
        BY <2>6 DEF ValidLayout, AtHolder, InSlm, CarriedBy
      <4>2. Keeps(s.grid.rows, L.grids[a].rows) /\ Keeps(s.grid.columns, L.grids[a].columns)
        BY <1>5 DEF LinesChange
      <4>3. /\ s.grid.rows[h.row] = L.atoms[i].pos.y
            /\ s.grid.columns[h.column] = L.atoms[i].pos.x
        <5>1. /\ L.atoms[i].pos.y = L.grids[a].rows[h.row]
              /\ L.atoms[i].pos.x = L.grids[a].columns[h.column]
          BY <4>1 DEF Cross
        <5> QED BY <3>2, <4>2, <5>1 DEF Active, Keeps
      <4>4. Traps(s.grid, L.atoms[i].pos)
        BY <3>2, <4>3 DEF Active, Traps
      <4> QED BY <1>0, <1>2, <2>1, <2>2, <3>2, <4>4
    <3> QED BY <3>1, <3>2
  <2>7. CheckStore(L, s)
    BY <2>1, <2>3, <2>4, <2>5, <2>6 DEF CheckStore
  <2> QED BY <1>5, <2>7 DEF Checked
<1> QED BY <1>0, <1>3, <1>4, <1>5 DEF Kinds

-----------------------------------------------------------------------------
\* The members' worlds after those in T took their steps.
Stepped(K, s, T) == [m \in Members |-> IF m \in T THEN Apply(K[m], {s[m]}) ELSE K[m]]

\* One action on one AOD.
LEMMA OneGrid ==
  ASSUME NEW L, NEW s, NEW a \in Aods
  PROVE  /\ s.aod = a => Apply(L, {s}).grids[a] = s.grid
         /\ s.aod # a => Apply(L, {s}).grids[a] = L.grids[a]
  BY ApplyOne

\* Where members drive AODs of their own nothing is renamed.
LEMMA PrivateNames ==
  ASSUME NEW w, ~w.shared, NEW m \in Members, NEW atom \in [pos : Point, holder : Holders]
  PROVE  Renamed(w, m, atom) = atom
<1>1. CASE atom.holder.kind = "aod" /\ atom.holder.aod \in w.aods[m]
  <2>1. atom.holder \in [kind : {"aod"}, aod : Aods, row : Nat, column : Nat]
    BY <1>1 DEF Holders
  <2>2. atom.holder = AOD(atom.holder.aod, atom.holder.row, atom.holder.column)
    BY <2>1 DEF AOD
  <2>3. Col(w, m, atom.holder.column) = atom.holder.column
    BY DEF Col
  <2>4. Renamed(w, m, atom) = [pos |-> atom.pos, holder |-> atom.holder]
    BY <1>1, <2>2, <2>3 DEF Renamed
  <2> QED BY <2>4
<1>2. CASE ~(atom.holder.kind = "aod" /\ atom.holder.aod \in w.aods[m])
  BY <1>2 DEF Renamed
<1> QED BY <1>1, <1>2

\* V is W after the members in T took their steps, each on its own atoms and AOD.
EachOwn(W, V, s, T) ==
  /\ \A i \in Atoms : (\A m \in T : i \notin Named(s[m])) => V.atoms[i] = W.atoms[i]
  /\ \A m \in T : \A i \in Named(s[m]) \cap Atoms : V.atoms[i] = Carried(W, s[m], i)
  /\ \A a \in Aods : (\A m \in T : s[m].aod # a) => V.grids[a] = W.grids[a]
  /\ \A m \in T : s[m].aod \in Aods => V.grids[s[m].aod] = s[m].grid

\* Several private steps at once: each atom and each AOD follows its own member.
LEMMA PrivateSteps ==
  ASSUME NEW w, IsWave(w), Compatible(w), ~w.shared, NEW W, NEW s, NEW T \in SUBSET Members,
         \A m \in T : Owns(w, m, s[m]), NEW S, S = {s[m] : m \in T}
  PROVE  EachOwn(W, Apply(W, S), s, T)
<1> DEFINE V == Apply(W, S)
           mover(i) == CHOOSE t \in S : i \in Named(t)
           writer(a) == CHOOSE t \in S : t.aod = a
<1>1. \A a \in Aods :
        V.grids[a] = IF \E t \in S : t.aod = a THEN writer(a).grid ELSE W.grids[a]
  BY DEF Apply
<1>2. \A i \in Atoms :
        V.atoms[i] = IF \E t \in S : i \in Named(t) THEN Carried(W, mover(i), i) ELSE W.atoms[i]
  BY DEF Apply
<1>3. ASSUME NEW m \in T, NEW i \in Named(s[m])
      PROVE  (\E t \in S : i \in Named(t)) /\ mover(i) = s[m]
  <2>1. \E t \in S : i \in Named(t)
    OBVIOUS
  <2>2. mover(i) \in S /\ i \in Named(mover(i))
    BY <2>1
  <2>3. PICK n \in T : mover(i) = s[n]
    BY <2>2
  <2>4. i \in w.atoms[m] /\ i \in w.atoms[n] /\ m \in Members /\ n \in Members
    BY <2>2, <2>3 DEF Owns
  <2>5. m = n
    BY <2>4 DEF Compatible
  <2> QED BY <2>1, <2>3, <2>5
<1>4. ASSUME NEW m \in T
      PROVE  (\E t \in S : t.aod = s[m].aod) /\ writer(s[m].aod) = s[m]
  <2> DEFINE a == s[m].aod
  <2>1. \E t \in S : t.aod = a
    OBVIOUS
  <2>2. writer(a) \in S /\ writer(a).aod = a
    BY <2>1
  <2>3. PICK n \in T : writer(a) = s[n]
    BY <2>2
  <2>4. a \in w.aods[m] /\ a \in w.aods[n] /\ m \in Members /\ n \in Members
    BY <2>2, <2>3 DEF Owns
  <2>5. m = n
    BY <2>4 DEF Compatible
  <2> QED BY <2>1, <2>3, <2>5
<1> HIDE DEF V, mover, writer
<1>5. \A i \in Atoms : (\A m \in T : i \notin Named(s[m])) => V.atoms[i] = W.atoms[i]
  BY <1>2
<1>6. \A m \in T : \A i \in Named(s[m]) \cap Atoms : V.atoms[i] = Carried(W, s[m], i)
  BY <1>2, <1>3
<1>7. \A a \in Aods : (\A m \in T : s[m].aod # a) => V.grids[a] = W.grids[a]
  BY <1>1
<1>8. \A m \in T : s[m].aod \in Aods => V.grids[s[m].aod] = s[m].grid
  BY <1>1, <1>4
<1>9. EachOwn(W, V, s, T)
  BY <1>5, <1>6, <1>7, <1>8 DEF EachOwn
<1> QED BY <1>9 DEF V

\* Where members drive AODs of their own the join follows any of their steps.
LEMMA PrivateJoin ==
  ASSUME NEW w, NEW C, NEW K, NEW W, Joined(w, C, K, W), ~w.shared,
         NEW s, NEW T \in SUBSET Members, \A m \in T : Keeping(w, m, K[m], s[m])
  PROVE  JoinOf(w, C, Stepped(K, s, T), Apply(W, {s[m] : m \in T}))
<1> DEFINE S == {s[m] : m \in T}
           V == Apply(W, S)
           N == Stepped(K, s, T)
<1>0. /\ IsWave(w) /\ Compatible(w)
      /\ \A m \in T : Owns(w, m, s[m]) /\ IsAction(s[m])
  BY DEF Joined, MayStart, Keeping
<1>1. /\ \A i \in Atoms : (\A m \in T : i \notin Named(s[m])) => V.atoms[i] = W.atoms[i]
      /\ \A m \in T : \A i \in Named(s[m]) \cap Atoms : V.atoms[i] = Carried(W, s[m], i)
      /\ \A a \in Aods : (\A m \in T : s[m].aod # a) => V.grids[a] = W.grids[a]
      /\ \A m \in T : s[m].aod \in Aods => V.grids[s[m].aod] = s[m].grid
  <2>1. S = {s[m] : m \in T}
    OBVIOUS
  <2>2. /\ \A m \in T : Owns(w, m, s[m])
        /\ IsWave(w) /\ Compatible(w)
    BY <1>0
  <2> HIDE DEF S
  <2>3. EachOwn(W, V, s, T)
    BY <2>1, <2>2, PrivateSteps
  <2> HIDE DEF V
  <2> QED BY <2>3 DEF EachOwn
<1>2. \A m \in Members : N[m] = IF m \in T THEN Apply(K[m], {s[m]}) ELSE K[m]
  BY DEF Stepped
<1> HIDE DEF V, N, S
<1>3. \A m \in T : Named(s[m]) \subseteq w.atoms[m] /\ s[m].aod \in w.aods[m] /\ s[m].aod \in Aods
  BY <1>0 DEF Owns, IsAction
<1>4. ASSUME NEW m \in Members PROVE OnOwn(w, C, m, N[m])
  <2>1. /\ OnOwn(w, C, m, K[m]) /\ IsWave(w) /\ MayStart(w, C)
        /\ m \in T => Keeping(w, m, K[m], s[m])
    BY DEF Joined
  <2>2. OnOwn(w, C, m, K[m]) /\ m \in T => OnOwn(w, C, m, Apply(K[m], {s[m]}))
    BY <2>1, StepOnOwn
  <2> QED BY <1>2, <2>1, <2>2
<1>5. ASSUME NEW m \in Members, NEW i \in w.atoms[m] PROVE V.atoms[i] = N[m].atoms[i]
  <2>1. i \in Atoms /\ K[m].atoms[i] \in [pos : Point, holder : Holders]
        /\ W.atoms[i] = Renamed(w, m, K[m].atoms[i])
    BY JoinOwned
  <2>2. W.atoms[i] = K[m].atoms[i]
    BY <2>1, PrivateNames
  <2>3. CASE m \in T /\ i \in Named(s[m])
    <3>1. V.atoms[i] = Carried(W, s[m], i)
      BY <1>1, <2>1, <2>3
    <3>2. N[m].atoms[i] = Carried(K[m], s[m], i)
      <4>1. IsAction(s[m]) /\ i \in Named(s[m])
        BY <1>0, <2>3
      <4>2. Apply(K[m], {s[m]}).atoms[i] = Carried(K[m], s[m], i)
        BY <4>1, NamedAtoms
      <4> QED BY <1>2, <2>3, <4>2
    <3>3. Carried(W, s[m], i) = Carried(K[m], s[m], i)
      BY <2>2 DEF Carried
    <3> QED BY <3>1, <3>2, <3>3
  <2>4. CASE ~(m \in T /\ i \in Named(s[m]))
    <3>1. \A n \in T : i \notin Named(s[n])
      BY <1>0, <1>3, <2>4 DEF Compatible
    <3>2. V.atoms[i] = W.atoms[i]
      BY <1>1, <2>1, <3>1
    <3>3. N[m].atoms[i] = K[m].atoms[i]
      <4>1. i \notin Named(s[m]) => Apply(K[m], {s[m]}).atoms[i] = K[m].atoms[i]
        BY <2>1, ApplyOne
      <4> QED BY <1>2, <2>4, <4>1
    <3> QED BY <2>2, <3>2, <3>3
  <2> QED BY <2>3, <2>4
<1>6. ASSUME NEW m \in Members, NEW a \in w.aods[m] PROVE V.grids[a] = N[m].grids[a]
  <2>1. a \in Aods
    BY <1>0 DEF IsWave
  <2>2. W.grids[a] = K[m].grids[a]
    BY JoinPrivate
  <2>3. CASE m \in T /\ s[m].aod = a
    <3>1. N[m].grids[a] = s[m].grid
      <4>1. s[m].aod = a => Apply(K[m], {s[m]}).grids[a] = s[m].grid
        BY <2>1, OneGrid
      <4> QED BY <1>2, <2>3, <4>1
    <3> QED BY <1>1, <2>1, <2>3, <3>1
  <2>4. CASE ~(m \in T /\ s[m].aod = a)
    <3>1. \A n \in T : s[n].aod # a
      BY <1>0, <1>3, <2>4 DEF Compatible
    <3>2. V.grids[a] = W.grids[a]
      BY <1>1, <2>1, <3>1
    <3>3. N[m].grids[a] = K[m].grids[a]
      <4>1. s[m].aod # a => Apply(K[m], {s[m]}).grids[a] = K[m].grids[a]
        BY <2>1, OneGrid
      <4> QED BY <1>2, <2>4, <4>1
    <3> QED BY <2>2, <3>2, <3>3
  <2> QED BY <2>3, <2>4
<1>7. \A m \in Members : \A i \in w.atoms[m] : V.atoms[i] = Renamed(w, m, N[m].atoms[i])
  <2> TAKE m \in Members
  <2> TAKE i \in w.atoms[m]
  <2>1. N[m].atoms[i] \in [pos : Point, holder : Holders]
    BY <1>0, <1>4 DEF OnOwn, IsLayout, IsWave
  <2> QED BY <1>5, <2>1, PrivateNames
<1>8. \A i \in Atoms : (\A m \in Members : i \notin w.atoms[m]) => V.atoms[i] = C.atoms[i]
  BY <1>1, <1>3 DEF Joined, JoinOf
<1>9. \A a \in Aods : (\A m \in Members : a \notin w.aods[m]) => V.grids[a] = C.grids[a]
  BY <1>1, <1>3 DEF Joined, JoinOf
<1>10. \A m \in Members : \A c : Col(w, m, c) = c
  BY DEF Col
<1>11. JoinOf(w, C, N, V)
  BY <1>6, <1>7, <1>8, <1>9, <1>10 DEF JoinOf
<1> QED BY <1>11 DEF V, N, S

\* Renumbered columns: each one keeps its coordinate.
LEMMA RemappedParts ==
  ASSUME NEW w, w.ids \in [Members -> SUBSET LocalIds], NEW m \in Members,
         NEW f, DOMAIN f \subseteq w.ids[m]
  PROVE  /\ \A c \in DOMAIN f : /\ Global(w, m, c) \in DOMAIN Remapped(w, m, f)
                                 /\ Remapped(w, m, f)[Global(w, m, c)] = f[c]
         /\ \A g \in DOMAIN Remapped(w, m, f) : \E c \in DOMAIN f : g = Global(w, m, c)
<1> DEFINE new == {Global(w, m, c) : c \in DOMAIN f}
           named(g) == CHOOSE c \in DOMAIN f : Global(w, m, c) = g
<1>1. Remapped(w, m, f) = [g \in new |-> f[named(g)]]
  BY DEF Remapped
<1>2. ASSUME NEW c \in DOMAIN f PROVE named(Global(w, m, c)) = c
  <2>1. named(Global(w, m, c)) \in DOMAIN f
        /\ Global(w, m, named(Global(w, m, c))) = Global(w, m, c)
    OBVIOUS
  <2> HIDE DEF named
  <2> QED BY <2>1, NumbersDiffer
<1>3. \A c \in DOMAIN f : Global(w, m, c) \in new
  OBVIOUS
<1>4. \A g \in new : \E c \in DOMAIN f : g = Global(w, m, c)
  OBVIOUS
<1> HIDE DEF named, new
<1>5. DOMAIN Remapped(w, m, f) = new
  BY <1>1
<1>6. \A c \in DOMAIN f : Remapped(w, m, f)[Global(w, m, c)] = f[c]
  BY <1>1, <1>2, <1>3
<1> QED BY <1>3, <1>4, <1>5, <1>6

\* F is the members' writes of a shared AOD as one: their kind, AOD and rows, the
\* columns of each under their numbers, and what each one does to its atoms.
FusedOf(w, s, F) ==
  /\ \A m \in Members : F.kind = s[m].kind /\ F.grid.rows = s[m].grid.rows
  /\ F.aod = s[First].aod
  /\ \A m \in Members : \A c \in DOMAIN s[m].grid.columns :
       /\ Global(w, m, c) \in DOMAIN F.grid.columns
       /\ F.grid.columns[Global(w, m, c)] = s[m].grid.columns[c]
  /\ \A g \in DOMAIN F.grid.columns :
       \E m \in Members : \E c \in DOMAIN s[m].grid.columns : g = Global(w, m, c)
  /\ Named(F) = UNION {Named(s[m]) : m \in Members}
  /\ \A m \in Members : \A i \in Named(s[m]) :
       /\ F.kind = "load" => /\ F.at[i].row = s[m].at[i].row
                             /\ F.at[i].column = Global(w, m, s[m].at[i].column)
       /\ F.kind # "load" => F.at[i] = s[m].at[i]

\* fuse_step mixes up nothing.
LEMMA FusedParts ==
  ASSUME NEW w, IsWave(w), Compatible(w), NEW s, SameShape(s),
         \A m \in Members : /\ IsAction(s[m]) /\ Named(s[m]) \subseteq w.atoms[m]
                            /\ DOMAIN s[m].grid.columns \subseteq w.ids[m],
         \A m, n \in Members : s[m].grid.rows = s[n].grid.rows
  PROVE  FusedOf(w, s, Fused(w, s))
<1> DEFINE columns(m) == Remapped(w, m, s[m].grid.columns)
           ids == UNION {DOMAIN columns(m) : m \in Members}
           owner(g) == CHOOSE m \in Members : g \in DOMAIN columns(m)
           atoms == UNION {Named(s[m]) : m \in Members}
           mover(i) == CHOOSE m \in Members : i \in Named(s[m])
           fused == [g \in ids |-> columns(owner(g))[g]]
           F == Fused(w, s)
<1>1. First \in Members
  BY BatchAssumption DEF First
<1>2. /\ F.kind = s[First].kind /\ F.aod = s[First].aod
      /\ F.grid.rows = s[First].grid.rows /\ F.grid.columns = fused
      /\ Named(F) = atoms
  BY DEF Fused, Named
<1>3. \A i \in atoms :
        F.at[i] = IF s[First].kind = "load"
                  THEN [s[mover(i)].at[i] EXCEPT !.column = Global(w, mover(i), @)]
                  ELSE s[mover(i)].at[i]
  BY DEF Fused
<1>4. \A m \in Members : F.kind = s[m].kind /\ F.grid.rows = s[m].grid.rows
  BY <1>1, <1>2 DEF SameShape
<1>5. ASSUME NEW m \in Members
      PROVE /\ \A c \in DOMAIN s[m].grid.columns :
                 /\ Global(w, m, c) \in DOMAIN columns(m)
                 /\ columns(m)[Global(w, m, c)] = s[m].grid.columns[c]
            /\ \A g \in DOMAIN columns(m) :
                 \E c \in DOMAIN s[m].grid.columns : g = Global(w, m, c)
  <2>1. w.ids \in [Members -> SUBSET LocalIds] /\ DOMAIN s[m].grid.columns \subseteq w.ids[m]
    BY DEF IsWave
  <2> QED BY <2>1, RemappedParts
<1>6. ASSUME NEW m \in Members, NEW i \in Named(s[m]) PROVE i \in atoms /\ mover(i) = m
  <2>1. mover(i) \in Members /\ i \in Named(s[mover(i)])
    OBVIOUS
  <2> HIDE DEF mover
  <2> QED BY <2>1 DEF Compatible
<1>7. ASSUME NEW m \in Members, NEW c \in DOMAIN s[m].grid.columns
      PROVE Global(w, m, c) \in ids /\ owner(Global(w, m, c)) = m
  <2> DEFINE g == Global(w, m, c)
  <2>1. g \in DOMAIN columns(m)
    BY <1>5
  <2>2. owner(g) \in Members /\ g \in DOMAIN columns(owner(g))
    BY <2>1
  <2>3. PICK d \in DOMAIN s[owner(g)].grid.columns : g = Global(w, owner(g), d)
    BY <1>5, <2>2
  <2> DEFINE n == owner(g)
  <2>4. c \in w.ids[m] /\ d \in w.ids[n] /\ w.ids \in [Members -> SUBSET LocalIds]
    BY <2>2 DEF IsWave
  <2> HIDE DEF owner, columns
  <2>5. m = owner(g)
    BY <2>2, <2>3, <2>4, NumbersDiffer
  <2> QED BY <2>1, <2>5
<1> HIDE DEF F, mover, owner, columns
<1>8. ASSUME NEW m \in Members, NEW c \in DOMAIN s[m].grid.columns
      PROVE  /\ Global(w, m, c) \in DOMAIN F.grid.columns
             /\ F.grid.columns[Global(w, m, c)] = s[m].grid.columns[c]
  <2> DEFINE g == Global(w, m, c)
  <2>1. g \in ids /\ owner(g) = m
    BY <1>7
  <2>2. columns(m)[g] = s[m].grid.columns[c]
    BY <1>5
  <2> HIDE DEF g, ids
  <2>3. g \in DOMAIN fused /\ fused[g] = columns(owner(g))[g]
    BY <2>1
  <2> QED BY <1>2, <2>1, <2>2, <2>3 DEF g
<1>9. ASSUME NEW g \in DOMAIN F.grid.columns
      PROVE \E m \in Members : \E c \in DOMAIN s[m].grid.columns : g = Global(w, m, c)
  <2>1. PICK m \in Members : g \in DOMAIN columns(m)
    BY <1>2
  <2> QED BY <1>5, <2>1
<1>10. ASSUME NEW m \in Members, NEW i \in Named(s[m])
       PROVE /\ F.kind = "load" => /\ F.at[i].row = s[m].at[i].row
                                   /\ F.at[i].column = Global(w, m, s[m].at[i].column)
             /\ F.kind # "load" => F.at[i] = s[m].at[i]
  <2>1. F.at[i] = IF F.kind = "load"
                  THEN [s[m].at[i] EXCEPT !.column = Global(w, m, s[m].at[i].column)]
                  ELSE s[m].at[i]
    BY <1>2, <1>3, <1>6
  <2>2. F.kind = "load" => s[m].at[i] \in [row : Nat, column : Nat]
    BY <1>4 DEF IsAction
  <2> QED BY <2>1, <2>2
<1>11. FusedOf(w, s, F)
  BY <1>2, <1>4, <1>8, <1>9, <1>10 DEF FusedOf
<1> QED BY <1>11 DEF F

\* Where members share an AOD the join follows their fused step.
LEMMA SharedJoin ==
  ASSUME NEW w, NEW C, NEW K, NEW W, Joined(w, C, K, W), w.shared,
         NEW s, \A m \in Members : Keeping(w, m, K[m], s[m]),
         NEW F, FusedOf(w, s, F)
  PROVE  JoinOf(w, C, Stepped(K, s, Members), Apply(W, {F}))
<1> DEFINE V == Apply(W, {F})
           N == Stepped(K, s, Members)
<1>0. /\ IsWave(w) /\ Compatible(w) /\ Members # {}
      /\ \A m \in Members : Owns(w, m, s[m]) /\ IsAction(s[m]) /\ Checked(K[m], s[m])
  BY BatchAssumption DEF Joined, MayStart, Keeping
<1>1. PICK a \in Aods : \A m \in Members : w.aods[m] = {a}
  BY <1>0 DEF Compatible
<1>2. /\ \A m \in Members : s[m].aod = a /\ Named(s[m]) \subseteq w.atoms[m]
      /\ First \in Members
  BY <1>0, <1>1 DEF Owns, First
<1>3. F.aod = a
  BY <1>2 DEF FusedOf
<1>4. /\ \A i \in Atoms : V.atoms[i] = IF i \in Named(F) THEN Carried(W, F, i) ELSE W.atoms[i]
      /\ V.grids[a] = F.grid
      /\ \A b \in Aods : a # b => V.grids[b] = W.grids[b]
  BY <1>3, ApplyOne, OneGrid
<1>5. ASSUME NEW m \in Members
      PROVE  /\ N[m].grids[a] = s[m].grid
             /\ \A i \in Atoms : i \notin Named(s[m]) => N[m].atoms[i] = K[m].atoms[i]
             /\ \A i \in Named(s[m]) : N[m].atoms[i] = Carried(K[m], s[m], i)
  <2>1. N[m] = Apply(K[m], {s[m]})
    BY DEF Stepped
  <2>2. s[m].aod = a => Apply(K[m], {s[m]}).grids[a] = s[m].grid
    BY OneGrid
  <2>3. \A i \in Atoms : i \notin Named(s[m]) => Apply(K[m], {s[m]}).atoms[i] = K[m].atoms[i]
    BY ApplyOne
  <2>4. IsAction(s[m])
    BY <1>0
  <2>5. \A i \in Named(s[m]) : Apply(K[m], {s[m]}).atoms[i] = Carried(K[m], s[m], i)
    BY <2>4, NamedAtoms
  <2> QED BY <1>2, <2>1, <2>2, <2>3, <2>5
<1> HIDE DEF V, N
<1>6. \A m \in Members, i \in Atoms :
        i \in w.atoms[m] /\ i \in Named(F) => i \in Named(s[m])
  BY <1>0, <1>2 DEF FusedOf, Compatible
<1>7. ASSUME NEW m \in Members, NEW i \in w.atoms[m]
      PROVE  V.atoms[i] = Renamed(w, m, N[m].atoms[i])
  <2>1. /\ i \in Atoms
        /\ W.atoms[i] = Renamed(w, m, K[m].atoms[i])
        /\ W.atoms[i].pos = K[m].atoms[i].pos
    BY JoinOwned
  <2>2. CASE i \notin Named(s[m])
    BY <1>4, <1>5, <1>6, <2>1, <2>2
  <2>3. CASE i \in Named(s[m])
    <3>1. i \in Named(F) /\ F.kind = s[m].kind
      BY <2>3 DEF FusedOf
    <3>2. V.atoms[i] = Carried(W, F, i) /\ N[m].atoms[i] = Carried(K[m], s[m], i)
      BY <1>4, <1>5, <2>1, <2>3, <3>1
    <3>3. CASE s[m].kind = "load"
      <4>1. F.at[i].row = s[m].at[i].row /\ F.at[i].column = Global(w, m, s[m].at[i].column)
        BY <2>3, <3>1, <3>3 DEF FusedOf
      <4>2. V.atoms[i] = [pos |-> W.atoms[i].pos,
                          holder |-> AOD(a, F.at[i].row, F.at[i].column)]
        BY <1>3, <3>1, <3>2, <3>3 DEF Carried
      <4>3. N[m].atoms[i] = [pos |-> K[m].atoms[i].pos,
                             holder |-> AOD(a, s[m].at[i].row, s[m].at[i].column)]
        BY <1>2, <3>2, <3>3 DEF Carried
      <4> DEFINE h == AOD(a, s[m].at[i].row, s[m].at[i].column)
      <4>4. /\ h.kind = "aod" /\ h.aod = a /\ a \in w.aods[m]
            /\ h.row = s[m].at[i].row /\ h.column = s[m].at[i].column
        BY <1>1, TrapParts
      <4> HIDE DEF h
      <4>5. N[m].atoms[i].pos = K[m].atoms[i].pos /\ N[m].atoms[i].holder = h
        BY <4>3 DEF h
      <4>6. Renamed(w, m, N[m].atoms[i])
              = [pos |-> K[m].atoms[i].pos,
                 holder |-> AOD(a, s[m].at[i].row, Global(w, m, s[m].at[i].column))]
        BY <4>4, <4>5 DEF Renamed, Col
      <4> QED BY <2>1, <4>1, <4>2, <4>6
    <3>4. CASE s[m].kind = "move"
      <4>1. F.at[i] = s[m].at[i]
        BY <2>3, <3>1, <3>4 DEF FusedOf
      <4> DEFINE h == K[m].atoms[i].holder
      <4>2. h.kind = "aod" /\ h.aod \in w.aods[m]
        <5>1. CarriedBy(K[m], i, s[m].aod)
          BY <1>0, <2>3, <3>4 DEF Checked, CheckMove
        <5> QED BY <1>1, <1>2, <5>1 DEF CarriedBy
      <4>3. W.atoms[i].holder = AOD(h.aod, h.row, Col(w, m, h.column))
        BY <2>1, <4>2 DEF Renamed
      <4>4. V.atoms[i] = [pos |-> F.at[i], holder |-> W.atoms[i].holder]
        BY <3>1, <3>2, <3>4 DEF Carried
      <4>5. N[m].atoms[i] = [pos |-> s[m].at[i], holder |-> h]
        BY <3>2, <3>4 DEF Carried
      <4> HIDE DEF h
      <4>6. N[m].atoms[i].pos = s[m].at[i] /\ N[m].atoms[i].holder = h
        BY <4>5
      <4>7. Renamed(w, m, N[m].atoms[i])
              = [pos |-> s[m].at[i], holder |-> AOD(h.aod, h.row, Col(w, m, h.column))]
        BY <4>2, <4>6 DEF Renamed
      <4> QED BY <4>1, <4>3, <4>4, <4>7
    <3>5. CASE s[m].kind = "store"
      <4>1. F.at[i] = s[m].at[i]
        BY <2>3, <3>1, <3>5 DEF FusedOf
      <4>2. V.atoms[i] = [pos |-> SiteAt[F.at[i]], holder |-> SLM(F.at[i])]
        BY <3>1, <3>2, <3>5 DEF Carried
      <4>3. N[m].atoms[i] = [pos |-> SiteAt[s[m].at[i]], holder |-> SLM(s[m].at[i])]
        BY <3>2, <3>5 DEF Carried
      <4>4. N[m].atoms[i].holder.kind = "slm"
        BY <4>3, TrapParts
      <4>5. Renamed(w, m, N[m].atoms[i]) = N[m].atoms[i]
        BY <4>4 DEF Renamed
      <4> QED BY <4>1, <4>2, <4>3, <4>5
    <3>6. s[m].kind \in Kinds
      BY <1>0 DEF IsAction
    <3> QED BY <3>3, <3>4, <3>5, <3>6 DEF Kinds
  <2> QED BY <2>2, <2>3
<1>8. \A i \in Atoms : (\A m \in Members : i \notin w.atoms[m]) => V.atoms[i] = C.atoms[i]
  <2> SUFFICES ASSUME NEW i \in Atoms, \A m \in Members : i \notin w.atoms[m]
               PROVE V.atoms[i] = C.atoms[i]
    OBVIOUS
  <2>1. i \notin Named(F)
    BY <1>2 DEF FusedOf
  <2>2. W.atoms[i] = C.atoms[i]
    BY DEF Joined, JoinOf
  <2> QED BY <1>4, <2>1, <2>2
<1>9. \A b \in Aods : (\A m \in Members : b \notin w.aods[m]) => V.grids[b] = C.grids[b]
  BY <1>0, <1>1, <1>4 DEF Joined, JoinOf
<1>10. ASSUME NEW m \in Members, NEW b \in w.aods[m]
       PROVE  /\ V.grids[b].rows = N[m].grids[b].rows
              /\ \A c \in DOMAIN N[m].grids[b].columns :
                   /\ Col(w, m, c) \in DOMAIN V.grids[b].columns
                   /\ V.grids[b].columns[Col(w, m, c)] = N[m].grids[b].columns[c]
  <2>1. b = a /\ V.grids[b] = F.grid /\ N[m].grids[b] = s[m].grid
    BY <1>1, <1>4, <1>5
  <2> QED BY <2>1 DEF FusedOf, Col
<1>11. ASSUME NEW b \in Aods, NEW d \in Members, b \in w.aods[d],
              NEW g \in DOMAIN V.grids[b].columns
       PROVE  \E m \in Members : /\ b \in w.aods[m]
                                 /\ \E c \in DOMAIN N[m].grids[b].columns : g = Col(w, m, c)
  <2>1. b = a /\ g \in DOMAIN F.grid.columns
    BY <1>1, <1>4, <1>11
  <2>2. PICK m \in Members : \E c \in DOMAIN s[m].grid.columns : g = Global(w, m, c)
    BY <2>1 DEF FusedOf
  <2>3. b \in w.aods[m] /\ N[m].grids[b] = s[m].grid
    BY <1>1, <1>5, <2>1
  <2> QED BY <2>2, <2>3 DEF Col
<1>12. JoinOf(w, C, N, V)
  BY <1>7, <1>8, <1>9, <1>10, <1>11 DEF JoinOf
<1> QED BY <1>12 DEF V, N

-----------------------------------------------------------------------------
\* A member finds in the join, under its own names, exactly what it left in its
\* own world: project_member undoes what _remap did.
LEMMA JoinIsSeen ==
  ASSUME NEW w, NEW C, NEW K, NEW W, Joined(w, C, K, W), NEW m \in Members
  PROVE  Seen(w, m, W) = Alone(w, m, K[m])
<1>1. CASE ~w.shared
  <2>1. ASSUME NEW i \in w.atoms[m] PROVE W.atoms[i] = K[m].atoms[i]
    <3>1. W.atoms[i] = Renamed(w, m, K[m].atoms[i])
          /\ K[m].atoms[i] \in [pos : Point, holder : Holders]
      BY JoinOwned
    <3> QED BY <1>1, <3>1, PrivateNames
  <2>2. \A a \in w.aods[m] : W.grids[a] = K[m].grids[a]
    BY <1>1, JoinPrivate
  <2> QED BY <1>1, <2>1, <2>2 DEF Seen, Alone
<1>2. CASE w.shared
  <2>0. IsWave(w) /\ Compatible(w)
    BY DEF Joined, MayStart
  <2>1. PICK a \in Aods : \A n \in Members : w.aods[n] = {a}
    BY <1>2, <2>0 DEF Compatible
  <2>2. SharedAod(w, m) = a
    BY <2>1 DEF SharedAod
  <2> DEFINE D == DOMAIN K[m].grids[a].columns
             own == {c \in w.ids[m] : Global(w, m, c) \in DOMAIN W.grids[a].columns}
             lines == [c \in own |-> W.grids[a].columns[Global(w, m, c)]]
             named(h) == AOD(h.aod, h.row, CHOOSE c \in w.ids[m] : Global(w, m, c) = h.column)
             seen(i) == IF CarriedBy(W, i, a)
                        THEN [pos |-> W.atoms[i].pos, holder |-> named(W.atoms[i].holder)]
                        ELSE W.atoms[i]
  <2>3. \A n \in Members : DOMAIN K[n].grids[a].columns \subseteq w.ids[n]
    BY <1>2, <2>1 DEF Joined, OnOwn
  <2>4. w.ids \in [Members -> SUBSET LocalIds]
    BY <2>0 DEF IsWave
  <2>5. \A n \in Members : \A c : Col(w, n, c) = Global(w, n, c)
    BY <1>2 DEF Col
  <2>6. ASSUME NEW c \in w.ids[m], Global(w, m, c) \in DOMAIN W.grids[a].columns
        PROVE  c \in D
    <3>1. \E n \in Members : a \in w.aods[n]
      BY <2>1
    <3>2. PICK n \in Members : /\ a \in w.aods[n]
                               /\ \E d \in DOMAIN K[n].grids[a].columns : Global(w, m, c) = Col(w, n, d)
      BY <2>6, <3>1 DEF Joined, JoinOf
    <3>3. PICK d \in DOMAIN K[n].grids[a].columns : Global(w, m, c) = Global(w, n, d)
      BY <2>5, <3>2
    <3>4. d \in w.ids[n]
      BY <2>3
    <3>5. m = n /\ c = d
      BY <2>4, <3>3, <3>4, NumbersDiffer
    <3> QED BY <3>5
  <2>7. ASSUME NEW c \in D
        PROVE  /\ c \in own
               /\ W.grids[a].columns[Global(w, m, c)] = K[m].grids[a].columns[c]
    <3>1. /\ Col(w, m, c) \in DOMAIN W.grids[a].columns
          /\ W.grids[a].columns[Col(w, m, c)] = K[m].grids[a].columns[c]
      BY <2>1 DEF Joined, JoinOf
    <3> QED BY <2>3, <2>5, <3>1
  <2>8. own = D
    BY <2>6, <2>7
  <2>9. IsGrid(K[m].grids[a])
    BY DEF Joined, OnOwn, IsLayout, IsGrid
  <2>10. lines = K[m].grids[a].columns
    <3>1. K[m].grids[a].columns = [c \in D |-> K[m].grids[a].columns[c]]
      BY <2>9 DEF IsGrid, IsLines
    <3>2. \A c \in own : W.grids[a].columns[Global(w, m, c)] = K[m].grids[a].columns[c]
      BY <2>7, <2>8
    <3> HIDE DEF own, D
    <3> QED BY <2>8, <3>1, <3>2
  <2>11. [rows |-> W.grids[a].rows, columns |-> lines] = K[m].grids[a]
    <3>1. W.grids[a].rows = K[m].grids[a].rows
      BY <2>1 DEF Joined, JoinOf
    <3> HIDE DEF lines
    <3> QED BY <2>9, <2>10, <3>1 DEF IsGrid
  <2>12. ASSUME NEW i \in w.atoms[m] PROVE seen(i) = K[m].atoms[i]
    <3> DEFINE h == K[m].atoms[i].holder
    <3>1. /\ i \in Atoms /\ K[m].atoms[i] \in [pos : Point, holder : Holders]
          /\ W.atoms[i] = Renamed(w, m, K[m].atoms[i])
      BY JoinOwned
    <3>2. CASE h.kind = "aod" /\ h.aod = a
      <4>1. W.atoms[i] = [pos |-> K[m].atoms[i].pos, holder |-> AOD(a, h.row, Global(w, m, h.column))]
        BY <2>1, <2>5, <3>1, <3>2 DEF Renamed
      <4>2. h.column \in D
        <5>1. AtHolder(K[m], i)
          BY <3>1 DEF Joined, OnOwn, ValidLayout
        <5> QED BY <3>2, <5>1 DEF AtHolder, InSlm
      <4> DEFINE g == AOD(a, h.row, Global(w, m, h.column))
      <4>3. /\ g.kind = "aod" /\ g.aod = a /\ g.row = h.row
            /\ g.column = Global(w, m, h.column)
        BY TrapParts
      <4> HIDE DEF g
      <4>4. W.atoms[i].pos = K[m].atoms[i].pos /\ W.atoms[i].holder = g
        BY <4>1 DEF g
      <4>5. (CHOOSE c \in w.ids[m] : Global(w, m, c) = g.column) = h.column
        <5> DEFINE d == CHOOSE c \in w.ids[m] : Global(w, m, c) = g.column
        <5>1. h.column \in w.ids[m] /\ Global(w, m, h.column) = g.column
          BY <2>3, <4>2, <4>3
        <5>2. d \in w.ids[m] /\ Global(w, m, d) = g.column
          BY <5>1
        <5> HIDE DEF d
        <5>3. d = h.column
          BY <2>4, <5>1, <5>2, NumbersDiffer
        <5> QED BY <5>3 DEF d
      <4>6. named(g) = AOD(a, h.row, h.column)
        BY <4>3, <4>5
      <4>7. h = AOD(a, h.row, h.column)
        BY <3>1, <3>2 DEF Holders, AOD
      <4>8. seen(i) = [pos |-> K[m].atoms[i].pos, holder |-> named(g)]
        BY <4>3, <4>4 DEF CarriedBy
      <4> HIDE DEF named, seen
      <4> QED BY <3>1, <4>6, <4>7, <4>8
    <3>3. CASE ~(h.kind = "aod" /\ h.aod = a)
      <4>1. W.atoms[i] = K[m].atoms[i]
        BY <2>1, <3>1, <3>3 DEF Renamed
      <4>2. ~CarriedBy(W, i, a)
        BY <3>3, <4>1 DEF CarriedBy
      <4> QED BY <4>1, <4>2
    <3> QED BY <3>2, <3>3
  <2>13. [i \in w.atoms[m] |-> seen(i)] = [i \in w.atoms[m] |-> K[m].atoms[i]]
    <3> HIDE DEF seen
    <3> QED BY <2>12
  <2>14. [b \in w.aods[m] |-> [rows |-> W.grids[b].rows,
                               columns |-> [c \in own |-> W.grids[b].columns[Global(w, m, c)]]]]
         = [b \in w.aods[m] |-> K[m].grids[b]]
    <3> HIDE DEF own
    <3> QED BY <2>1, <2>11
  <2>15. Seen(w, m, W) =
           [atoms |-> [i \in w.atoms[m] |-> seen(i)],
            grids |-> [b \in w.aods[m] |->
              [rows |-> W.grids[b].rows,
               columns |-> [c \in own |-> W.grids[b].columns[Global(w, m, c)]]]]]
    BY <1>2, <2>2 DEF Seen
  <2> HIDE DEF seen, own
  <2> QED BY <2>13, <2>14, <2>15 DEF Alone
<1> QED BY <1>1, <1>2

-----------------------------------------------------------------------------
\* A step leads to a layout when the atoms it leads to are atoms.
LEMMA AppliedIsLayout ==
  ASSUME NEW L, IsLayout(L), NEW S, \A s \in S : IsAction(s),
         \A i \in Atoms : Apply(L, S).atoms[i] \in [pos : Point, holder : Holders]
  PROVE  IsLayout(Apply(L, S))
<1> DEFINE M == Apply(L, S)
           writer(a) == CHOOSE s \in S : s.aod = a
<1>1. /\ M = [atoms |-> M.atoms, grids |-> M.grids]
      /\ DOMAIN M.grids = Aods
      /\ M.atoms = [i \in Atoms |-> M.atoms[i]]
  BY DEF Apply
<1>2. \A a \in Aods :
        M.grids[a] = IF \E s \in S : s.aod = a THEN writer(a).grid ELSE L.grids[a]
  BY DEF Apply
<1> HIDE DEF M
<1>3. ASSUME NEW a \in Aods PROVE IsGrid(M.grids[a])
  <2>1. CASE \E s \in S : s.aod = a
    <3>1. writer(a) \in S
      BY <2>1
    <3>2. M.grids[a] = writer(a).grid
      BY <1>2, <2>1
    <3> HIDE DEF writer
    <3> QED BY <3>1, <3>2 DEF IsAction
  <2>2. CASE ~\E s \in S : s.aod = a
    BY <1>2, <2>2 DEF IsLayout, IsGrid
  <2> QED BY <2>1, <2>2
<1>4. M.atoms \in [Atoms -> [pos : Point, holder : Holders]]
  <2>1. \A i \in Atoms : M.atoms[i] \in [pos : Point, holder : Holders]
    BY DEF M
  <2> QED BY <1>1, <2>1
<1>5. IsLayout(M)
  BY <1>1, <1>3, <1>4 DEF IsLayout, IsGrid
<1> QED BY <1>5 DEF M

\* The atoms of a join are atoms.
LEMMA JoinTyped ==
  ASSUME NEW w, IsWave(w), NEW C, IsLayout(C), NEW N,
         \A m \in Members : OnOwn(w, C, m, N[m]),
         NEW V, JoinOf(w, C, N, V), NEW i \in Atoms
  PROVE  V.atoms[i] \in [pos : Point, holder : Holders]
<1>1. CASE \A m \in Members : i \notin w.atoms[m]
  BY <1>1 DEF JoinOf, IsLayout
<1>2. CASE \E m \in Members : i \in w.atoms[m]
  <2>1. PICK m \in Members : i \in w.atoms[m]
    BY <1>2
  <2> DEFINE atom == N[m].atoms[i]
             h == atom.holder
  <2>2. atom \in [pos : Point, holder : Holders]
    BY DEF OnOwn, IsLayout
  <2>3. V.atoms[i] = Renamed(w, m, atom)
    BY <2>1 DEF JoinOf
  <2> HIDE DEF atom
  <2>4. CASE h.kind = "aod" /\ h.aod \in w.aods[m]
    <3>1. h.aod \in Aods /\ h.row \in Nat /\ h.column \in Nat
      BY <2>2, <2>4 DEF Holders
    <3>2. Col(w, m, h.column) \in Nat
      BY <3>1, GlobalIsNat DEF Col
    <3>3. AOD(h.aod, h.row, Col(w, m, h.column)) \in Holders
      BY <3>1, <3>2 DEF AOD, Holders
    <3>4. V.atoms[i] = [pos |-> atom.pos, holder |-> AOD(h.aod, h.row, Col(w, m, h.column))]
      BY <2>3, <2>4 DEF Renamed
    <3> QED BY <2>2, <3>3, <3>4
  <2>5. CASE ~(h.kind = "aod" /\ h.aod \in w.aods[m])
    BY <2>2, <2>3, <2>5 DEF Renamed
  <2> QED BY <2>4, <2>5
<1> QED BY <1>1, <1>2

\* Members' steps lead from a join to the join of where they lead each member.
LEMMA StepsJoin ==
  ASSUME NEW w, NEW C, NEW K, NEW W, Joined(w, C, K, W), NEW s,
         NEW T \in SUBSET Members, \A m \in T : Keeping(w, m, K[m], s[m]),
         NEW S, \A t \in S : IsAction(t), JoinOf(w, C, Stepped(K, s, T), Apply(W, S))
  PROVE  Joined(w, C, Stepped(K, s, T), Apply(W, S))
<1> DEFINE N == Stepped(K, s, T)
           V == Apply(W, S)
<1>1. \A m \in Members : N[m] = IF m \in T THEN Apply(K[m], {s[m]}) ELSE K[m]
  BY DEF Stepped
<1>2. IsWave(w) /\ MayStart(w, C) /\ IsLayout(C) /\ ValidLayout(C) /\ IsLayout(W)
  BY DEF Joined
<1>3. JoinOf(w, C, N, V)
  OBVIOUS
<1> HIDE DEF N
<1>4. ASSUME NEW m \in Members PROVE OnOwn(w, C, m, N[m])
  <2>1. OnOwn(w, C, m, K[m]) /\ (m \in T => Keeping(w, m, K[m], s[m]))
    BY DEF Joined
  <2>2. m \in T => OnOwn(w, C, m, Apply(K[m], {s[m]}))
    BY <1>2, <2>1, StepOnOwn
  <2> QED BY <1>1, <2>1, <2>2
<1> HIDE DEF V
<1>5. \A i \in Atoms : V.atoms[i] \in [pos : Point, holder : Holders]
  BY <1>2, <1>3, <1>4, JoinTyped
<1>6. IsLayout(V)
  <2>1. \A i \in Atoms : Apply(W, S).atoms[i] \in [pos : Point, holder : Holders]
    BY <1>5 DEF V
  <2> QED BY <1>2, <2>1, AppliedIsLayout DEF V
<1>7. Joined(w, C, N, V)
  BY <1>2, <1>3, <1>4, <1>6 DEF Joined
<1> QED BY <1>7 DEF N, V

\* What a member's step does to the atoms it names, its own world shows.
LEMMA NamedAsChecked ==
  ASSUME NEW k, NEW s, IsAction(s), Checked(k, s), NEW i \in Named(s)
  PROVE  /\ s.kind = "load" => InSlm(k, i)
         /\ s.kind # "load" => CarriedBy(k, i, s.aod)
         /\ s.kind = "store" => k.atoms[i].pos = SiteAt[s.at[i]]
<1>1. CASE s.kind = "load"
  BY <1>1 DEF Checked, CheckLoad
<1>2. CASE s.kind = "move"
  BY <1>2 DEF Checked, CheckMove
<1>3. CASE s.kind = "store"
  BY <1>3 DEF Checked, CheckStore
<1> QED BY <1>1, <1>2, <1>3 DEF IsAction, Kinds

\* A member's own AOD carries in the join only what it carries in the member's world.
LEMMA PrivateCarried ==
  ASSUME NEW w, NEW C, NEW K, NEW W, Joined(w, C, K, W), ~w.shared,
         NEW m \in Members, NEW a \in w.aods[m], NEW i \in Atoms, CarriedBy(W, i, a)
  PROVE  CarriedBy(K[m], i, a)
<1>0. IsWave(w) /\ Compatible(w)
  BY DEF Joined, MayStart
<1>1. ASSUME NEW n \in Members, i \in w.atoms[n] PROVE W.atoms[i] = K[n].atoms[i]
  <2>1. W.atoms[i] = Renamed(w, n, K[n].atoms[i])
        /\ K[n].atoms[i] \in [pos : Point, holder : Holders]
    BY <1>1, JoinOwned
  <2> QED BY <2>1, PrivateNames
<1>2. CASE i \in w.atoms[m]
  BY <1>1, <1>2 DEF CarriedBy
<1>3. CASE i \notin w.atoms[m]
  <2>1. W.atoms[i] = C.atoms[i]
    <3>1. CASE \A n \in Members : i \notin w.atoms[n]
      BY <3>1 DEF Joined, JoinOf
    <3>2. CASE \E n \in Members : i \in w.atoms[n]
      <4>1. PICK n \in Members : i \in w.atoms[n]
        BY <3>2
      <4>2. W.atoms[i] = K[n].atoms[i] /\ n # m
        BY <1>1, <1>3, <4>1
      <4>3. a \notin w.aods[n]
        BY <1>0, <4>2 DEF Compatible
      <4>4. K[n].atoms[i].holder.kind = "aod" /\ K[n].atoms[i].holder.aod \notin w.aods[n]
        BY <4>2, <4>3 DEF CarriedBy
      <4>5. K[n].atoms[i] = C.atoms[i]
        BY <4>1, <4>4 DEF Joined, OnOwn
      <4> QED BY <4>2, <4>5
    <3> QED BY <3>1, <3>2
  <2>2. K[m].atoms[i] = C.atoms[i]
    BY <1>3 DEF Joined, OnOwn
  <2> QED BY <2>1, <2>2 DEF CarriedBy
<1> QED BY <1>2, <1>3

\* Where members drive AODs of their own every step checks out in the join.
LEMMA PrivateChecked ==
  ASSUME NEW w, NEW C, NEW K, NEW W, Joined(w, C, K, W), ~w.shared,
         NEW s, NEW m \in Members, Keeping(w, m, K[m], s[m])
  PROVE  Checked(W, s[m])
<1> DEFINE t == s[m]
           k == K[m]
           a == t.aod
<1>1. /\ IsAction(t) /\ Checked(k, t) /\ a \in w.aods[m] /\ Named(t) \subseteq w.atoms[m]
      /\ a \in Aods /\ Named(t) \subseteq Atoms
  BY DEF Keeping, Owns, IsAction
<1>2. IsLayout(W) /\ ValidLayout(W)
  BY JoinValid DEF Joined
<1>3. ValidLayout(Apply(W, {t}))
  <2> DEFINE T == {m}
             S == {s[n] : n \in T}
  <2>1. T \in SUBSET Members /\ (\A n \in T : Keeping(w, n, K[n], s[n])) /\ S = {t}
    OBVIOUS
  <2>2. JoinOf(w, C, Stepped(K, s, T), Apply(W, S))
    <3> HIDE DEF T
    <3> QED BY <2>1, PrivateJoin
  <2>3. \A u \in S : IsAction(u)
    BY <1>1
  <2>4. Joined(w, C, Stepped(K, s, T), Apply(W, S))
    <3> HIDE DEF T, S
    <3> QED BY <2>1, <2>2, <2>3, StepsJoin
  <2>5. ValidLayout(Apply(W, S))
    <3> HIDE DEF T, S
    <3> QED BY <2>4, JoinValid
  <2> QED BY <2>1, <2>5
<1>4. W.grids[a] = k.grids[a]
  BY <1>1, JoinPrivate
<1>5. LinesChange(W, t)
  <2>1. LinesChange(k, t)
    BY <1>1 DEF Checked
  <2>2. (\E i \in Atoms : CarriedBy(W, i, a)) => (\E i \in Atoms : CarriedBy(k, i, a))
    BY <1>1, PrivateCarried
  <2> QED BY <1>4, <2>1, <2>2 DEF LinesChange
<1>6. ASSUME NEW i \in Named(t)
      PROVE  /\ t.kind = "load" => InSlm(W, i)
             /\ t.kind # "load" => CarriedBy(W, i, a)
             /\ t.kind = "store" => W.atoms[i].pos = SiteAt[t.at[i]]
  <2>1. W.atoms[i] = k.atoms[i]
    <3>1. W.atoms[i] = Renamed(w, m, K[m].atoms[i])
          /\ K[m].atoms[i] \in [pos : Point, holder : Holders]
      BY <1>1, JoinOwned
    <3> QED BY <3>1, PrivateNames
  <2>2. /\ t.kind = "load" => InSlm(k, i)
        /\ t.kind # "load" => CarriedBy(k, i, t.aod)
        /\ t.kind = "store" => k.atoms[i].pos = SiteAt[t.at[i]]
    <3> HIDE DEF t, k
    <3> QED BY <1>1, NamedAsChecked
  <2> QED BY <2>1, <2>2 DEF InSlm, CarriedBy
<1> HIDE DEF t
<1>7. Checked(W, t)
  BY <1>1, <1>2, <1>3, <1>5, <1>6, SafeIsChecked
<1> QED BY <1>7 DEF t

\* Columns in the bands of two members are in the order of the bands.
LEMMA BandsInOrder ==
  ASSUME NEW w, NEW C, NEW K, NEW W, Joined(w, C, K, W), w.shared,
         NEW s, \A m \in Members : Keeping(w, m, K[m], s[m]),
         NEW a \in Aods, \A m \in Members : w.aods[m] = {a},
         NEW m \in Members, NEW n \in Members, m # n,
         NEW c \in DOMAIN K[m].grids[a].columns, c \in DOMAIN s[m].grid.columns,
         NEW d \in DOMAIN K[n].grids[a].columns, d \in DOMAIN s[n].grid.columns
  PROVE  K[m].grids[a].columns[c] < K[n].grids[a].columns[d]
           <=> s[m].grid.columns[c] < s[n].grid.columns[d]
<1>1. /\ Between(K[m].grids[a].columns, w.band[m].lo, w.band[m].hi)
      /\ Between(K[n].grids[a].columns, w.band[n].lo, w.band[n].hi)
      /\ IsLines(K[m].grids[a].columns) /\ IsLines(K[n].grids[a].columns)
  <2>1. OnOwn(w, C, m, K[m]) /\ OnOwn(w, C, n, K[n])
    BY DEF Joined
  <2>2. IsLines(K[m].grids[a].columns) /\ IsLines(K[n].grids[a].columns)
    BY <2>1 DEF OnOwn, IsLayout
  <2> QED BY <2>1, <2>2 DEF OnOwn
<1>2. /\ Between(s[m].grid.columns, w.band[m].lo, w.band[m].hi)
      /\ Between(s[n].grid.columns, w.band[n].lo, w.band[n].hi)
      /\ IsLines(s[m].grid.columns) /\ IsLines(s[n].grid.columns)
  BY DEF Keeping, WithinBand, IsAction, IsGrid
<1>3. w.band[m] \in Bands /\ w.band[n] \in Bands
  BY DEF Joined, IsWave
<1>4. w.band[m].hi < w.band[n].lo \/ w.band[n].hi < w.band[m].lo
  <2>1. MayStart(w, C)
    BY DEF Joined
  <2> QED BY <2>1, SharedByAll
<1> DEFINE x == K[m].grids[a].columns[c]
           y == K[n].grids[a].columns[d]
           u == s[m].grid.columns[c]
           v == s[n].grid.columns[d]
<1>5. /\ x \in Int /\ y \in Int /\ u \in Int /\ v \in Int
      /\ w.band[m].lo \in Int /\ w.band[m].hi \in Int
      /\ w.band[n].lo \in Int /\ w.band[n].hi \in Int
  BY <1>1, <1>2, <1>3 DEF IsLines, Bands
<1>6. /\ w.band[m].lo =< x /\ x =< w.band[m].hi /\ w.band[m].lo =< u /\ u =< w.band[m].hi
      /\ w.band[n].lo =< y /\ y =< w.band[n].hi /\ w.band[n].lo =< v /\ v =< w.band[n].hi
  BY <1>1, <1>2 DEF Between
<1> HIDE DEF x, y, u, v
<1>7. x < y <=> u < v
  BY <1>4, <1>5, <1>6
<1> QED BY <1>7 DEF x, y, u, v

\* The lines of a fused write change as its kind allows; a rigid AOD may still
\* refuse it.
LEMMA FusedLines ==
  ASSUME NEW w, NEW C, NEW K, NEW W, Joined(w, C, K, W), w.shared,
         NEW s, \A m \in Members : Keeping(w, m, K[m], s[m]),
         NEW F, FusedOf(w, s, F),
         NEW a \in Aods, \A m \in Members : w.aods[m] = {a}, a \notin Rigid,
         F.aod = a, F.kind \in Kinds, ValidGrid(a, F.grid)
  PROVE  LinesChange(W, F)
<1> DEFINE old == W.grids[a]
           new == F.grid
           k(m) == K[m].grids[a]
<1>0. Members # {}
  BY BatchAssumption
<1>1. ASSUME NEW m \in Members
      PROVE  /\ s[m].aod = a /\ s[m].kind = F.kind /\ LinesChange(K[m], s[m])
             /\ old.rows = k(m).rows /\ new.rows = s[m].grid.rows
  BY DEF Keeping, Owns, Checked, FusedOf, Joined, JoinOf
<1>2. ASSUME NEW m \in Members, NEW c \in DOMAIN k(m).columns
      PROVE  /\ Global(w, m, c) \in DOMAIN old.columns
             /\ old.columns[Global(w, m, c)] = k(m).columns[c]
  <2>1. /\ Col(w, m, c) \in DOMAIN old.columns
        /\ old.columns[Col(w, m, c)] = k(m).columns[c]
    BY DEF Joined, JoinOf
  <2> QED BY <2>1 DEF Col
<1>3. ASSUME NEW g \in DOMAIN old.columns
      PROVE  \E m \in Members : \E c \in DOMAIN k(m).columns : g = Global(w, m, c)
  <2>1. \E m \in Members : a \in w.aods[m]
    BY <1>0
  <2>2. \E m \in Members : \E c \in DOMAIN k(m).columns : g = Col(w, m, c)
    BY <2>1 DEF Joined, JoinOf
  <2> QED BY <2>2 DEF Col
<1>4. /\ \A m \in Members : \A c \in DOMAIN s[m].grid.columns :
           /\ Global(w, m, c) \in DOMAIN new.columns
           /\ new.columns[Global(w, m, c)] = s[m].grid.columns[c]
      /\ \A g \in DOMAIN new.columns :
           \E m \in Members : \E c \in DOMAIN s[m].grid.columns : g = Global(w, m, c)
  BY DEF FusedOf
<1>5. CASE F.kind = "move"
  <2>1. \A m \in Members : SameOrder(k(m).rows, s[m].grid.rows)
                           /\ SameOrder(k(m).columns, s[m].grid.columns)
    BY <1>1, <1>5 DEF LinesChange
  <2>2. SameOrder(old.rows, new.rows)
    BY <1>0, <1>1, <2>1
  <2>3. \A m \in Members : DOMAIN k(m).columns = DOMAIN s[m].grid.columns
    BY <2>1 DEF SameOrder
  <2>4. DOMAIN old.columns = DOMAIN new.columns
    <3>1. ASSUME NEW g \in DOMAIN old.columns PROVE g \in DOMAIN new.columns
      <4>1. PICK m \in Members : \E c \in DOMAIN k(m).columns : g = Global(w, m, c)
        BY <1>3
      <4> QED BY <1>4, <2>3, <4>1
    <3>2. ASSUME NEW g \in DOMAIN new.columns PROVE g \in DOMAIN old.columns
      <4>1. PICK m \in Members : \E c \in DOMAIN s[m].grid.columns : g = Global(w, m, c)
        BY <1>4
      <4> QED BY <1>2, <2>3, <4>1
    <3> QED BY <3>1, <3>2
  <2>5. ASSUME NEW g \in DOMAIN old.columns, NEW h \in DOMAIN old.columns
        PROVE  old.columns[g] < old.columns[h] <=> new.columns[g] < new.columns[h]
    <3>1. PICK m \in Members : \E c \in DOMAIN k(m).columns : g = Global(w, m, c)
      BY <1>3
    <3>2. PICK c \in DOMAIN k(m).columns : g = Global(w, m, c)
      BY <3>1
    <3>3. PICK n \in Members : \E d \in DOMAIN k(n).columns : h = Global(w, n, d)
      BY <1>3
    <3>4. PICK d \in DOMAIN k(n).columns : h = Global(w, n, d)
      BY <3>3
    <3>5. c \in DOMAIN s[m].grid.columns /\ d \in DOMAIN s[n].grid.columns
      BY <2>3
    <3>6. /\ old.columns[g] = k(m).columns[c] /\ old.columns[h] = k(n).columns[d]
          /\ new.columns[g] = s[m].grid.columns[c] /\ new.columns[h] = s[n].grid.columns[d]
      BY <1>2, <1>4, <3>2, <3>4, <3>5
    <3>7. k(m).columns[c] < k(n).columns[d]
            <=> s[m].grid.columns[c] < s[n].grid.columns[d]
      <4>1. CASE m = n
        BY <2>1, <4>1 DEF SameOrder
      <4>2. CASE m # n
        BY <3>5, <4>2, BandsInOrder
      <4> QED BY <4>1, <4>2
    <3> QED BY <3>6, <3>7
  <2>6. SameOrder(old.columns, new.columns)
    BY <2>4, <2>5 DEF SameOrder
  <2> QED BY <1>5, <2>2, <2>6 DEF LinesChange
<1>6. CASE F.kind = "load"
  <2>1. \A m \in Members : Keeps(k(m).rows, s[m].grid.rows)
                           /\ Keeps(k(m).columns, s[m].grid.columns)
    BY <1>1, <1>6 DEF LinesChange
  <2>2. Keeps(old.rows, new.rows)
    BY <1>0, <1>1, <2>1
  <2>3. ASSUME NEW g \in DOMAIN old.columns
        PROVE  g \in DOMAIN new.columns /\ new.columns[g] = old.columns[g]
    <3>1. PICK m \in Members : \E c \in DOMAIN k(m).columns : g = Global(w, m, c)
      BY <1>3
    <3>2. PICK c \in DOMAIN k(m).columns : g = Global(w, m, c)
      BY <3>1
    <3>3. c \in DOMAIN s[m].grid.columns /\ s[m].grid.columns[c] = k(m).columns[c]
      BY <2>1 DEF Keeps
    <3> QED BY <1>2, <1>4, <3>2, <3>3
  <2>4. Keeps(old.columns, new.columns)
    BY <2>3 DEF Keeps
  <2> QED BY <1>6, <2>2, <2>4 DEF LinesChange
<1>7. CASE F.kind = "store"
  <2>1. \A m \in Members : Keeps(s[m].grid.rows, k(m).rows)
                           /\ Keeps(s[m].grid.columns, k(m).columns)
    BY <1>1, <1>7 DEF LinesChange
  <2>2. Keeps(new.rows, old.rows)
    BY <1>0, <1>1, <2>1
  <2>3. ASSUME NEW g \in DOMAIN new.columns
        PROVE  g \in DOMAIN old.columns /\ old.columns[g] = new.columns[g]
    <3>1. PICK m \in Members : \E c \in DOMAIN s[m].grid.columns : g = Global(w, m, c)
      BY <1>4
    <3>2. PICK c \in DOMAIN s[m].grid.columns : g = Global(w, m, c)
      BY <3>1
    <3>3. c \in DOMAIN k(m).columns /\ k(m).columns[c] = s[m].grid.columns[c]
      BY <2>1 DEF Keeps
    <3> QED BY <1>2, <1>4, <3>2, <3>3
  <2>4. Keeps(new.columns, old.columns)
    BY <2>3 DEF Keeps
  <2> QED BY <1>7, <2>2, <2>4 DEF LinesChange
<1> QED BY <1>5, <1>6, <1>7 DEF Kinds

\* The fused step of a shared AOD leads from join to join.
LEMMA FusedJoins ==
  ASSUME NEW w, NEW C, NEW K, NEW W, Joined(w, C, K, W), w.shared,
         NEW s, \A m \in Members : Keeping(w, m, K[m], s[m]),
         NEW F, FusedOf(w, s, F), IsAction(F)
  PROVE  Joined(w, C, Stepped(K, s, Members), Apply(W, {F}))
<1>1. JoinOf(w, C, Stepped(K, s, Members), Apply(W, {F}))
  BY SharedJoin
<1> DEFINE S == {F}
           T == Members
<1>2. \A t \in S : IsAction(t)
  OBVIOUS
<1>3. T \in SUBSET Members /\ \A m \in T : Keeping(w, m, K[m], s[m])
  OBVIOUS
<1>4. JoinOf(w, C, Stepped(K, s, T), Apply(W, S))
  BY <1>1
<1> HIDE DEF S, T
<1>5. Joined(w, C, Stepped(K, s, T), Apply(W, S))
  BY <1>2, <1>3, <1>4, StepsJoin
<1> QED BY <1>5 DEF S, T

\* Where members share an AOD that is not rigid, the fused step checks out.
LEMMA SharedChecked ==
  ASSUME NEW w, NEW C, NEW K, NEW W, Joined(w, C, K, W), w.shared,
         NEW s, \A m \in Members : Keeping(w, m, K[m], s[m]),
         NEW F, FusedOf(w, s, F), IsAction(F),
         NEW a \in Aods, \A m \in Members : w.aods[m] = {a}, a \notin Rigid
  PROVE  Checked(W, F)
<1> DEFINE V == Apply(W, {F})
<1>1. Joined(w, C, Stepped(K, s, Members), V)
  BY FusedJoins
<1>2. ValidLayout(V)
  <2> HIDE DEF V
  <2> QED BY <1>1, JoinValid
<1>3. IsLayout(W) /\ ValidLayout(W)
  BY JoinValid DEF Joined
<1>4. First \in Members
  BY BatchAssumption DEF First
<1>5. F.aod = a
  <2>1. s[First].aod \in w.aods[First]
    BY <1>4 DEF Keeping, Owns
  <2> QED BY <1>4, <2>1 DEF FusedOf
<1>6. F.kind \in Kinds
  BY DEF IsAction
<1>7. ValidGrid(a, F.grid)
  <2>1. V.grids[a] = F.grid
    BY <1>5, OneGrid
  <2> QED BY <1>2, <2>1 DEF ValidLayout
<1>8. LinesChange(W, F)
  BY <1>5, <1>6, <1>7, FusedLines
<1>9. ASSUME NEW i \in Named(F)
      PROVE  /\ F.kind = "load" => InSlm(W, i)
             /\ F.kind # "load" => CarriedBy(W, i, F.aod)
             /\ F.kind = "store" => W.atoms[i].pos = SiteAt[F.at[i]]
  <2>1. PICK m \in Members : i \in Named(s[m])
    BY DEF FusedOf
  <2>2. /\ IsAction(s[m]) /\ Checked(K[m], s[m]) /\ i \in w.atoms[m] /\ s[m].aod = a
    BY <2>1 DEF Keeping, Owns
  <2>3. /\ s[m].kind = "load" => InSlm(K[m], i)
        /\ s[m].kind # "load" => CarriedBy(K[m], i, s[m].aod)
        /\ s[m].kind = "store" => K[m].atoms[i].pos = SiteAt[s[m].at[i]]
    BY <2>1, <2>2, NamedAsChecked
  <2>4. F.kind = s[m].kind /\ (F.kind # "load" => F.at[i] = s[m].at[i])
    BY <2>1 DEF FusedOf
  <2>5. /\ W.atoms[i].pos = K[m].atoms[i].pos
        /\ InSlm(W, i) <=> InSlm(K[m], i)
        /\ K[m].atoms[i].holder.kind = "aod" /\ K[m].atoms[i].holder.aod \in w.aods[m]
             => /\ W.atoms[i].holder.kind = "aod"
                /\ W.atoms[i].holder.aod = K[m].atoms[i].holder.aod
    BY <2>2, JoinOwned
  <2>6. F.kind # "load" => CarriedBy(W, i, F.aod)
    BY <1>5, <2>2, <2>3, <2>4, <2>5 DEF CarriedBy
  <2> QED BY <2>3, <2>4, <2>5, <2>6
<1> HIDE DEF V
<1>10. ValidLayout(Apply(W, {F}))
  BY <1>2 DEF V
<1> QED BY <1>3, <1>8, <1>9, <1>10, SafeIsChecked

-----------------------------------------------------------------------------
\* While a wave is built its members' worlds are their own, and the merged world
\* is their join.
WaveInv ==
  wave # NoWave =>
    /\ MayStart(wave, context)
    /\ \A m \in Members : OnOwn(wave, context, m, lone[m])
    /\ JoinOf(wave, context, lone, world)

\* Nothing is refused before a wave is admitted.
NoneRefused == wave = NoWave => failed = {}

\* The invariants say that the merged world is a join.
LEMMA WaveIsJoined ==
  ASSUME BatchInv, WaveInv, wave # NoWave
  PROVE  Joined(wave, context, lone, world)
  BY BatchAssumption DEF BatchInv, WellFormed, SoundLayouts, WaveInv, Joined

\* A wave that may start joins worlds that are all the context's.
LEMMA WaveStarts ==
  ASSUME NEW w, IsWave(w), NEW C, MayStart(w, C), IsLayout(C), ValidLayout(C),
         NEW K, \A m \in Members : K[m] = C, \A m \in Members : Enveloped(w, m, C)
  PROVE  /\ \A m \in Members : OnOwn(w, C, m, K[m])
         /\ JoinOf(w, C, K, C)
<1>1. ASSUME w.shared
      PROVE  \E a \in Aods : /\ \A m \in Members : w.aods[m] = {a}
                             /\ DOMAIN C.grids[a].rows = {} /\ DOMAIN C.grids[a].columns = {}
  <2>1. PICK a \in Aods : \A m \in Members : w.aods[m] = {a}
    BY <1>1 DEF MayStart, Compatible
  <2>2. PICK m \in Members : TRUE
    BY BatchAssumption
  <2>3. DOMAIN C.grids[a].rows = {} /\ DOMAIN C.grids[a].columns = {}
    BY <1>1, <2>1, <2>2 DEF MayStart
  <2> QED BY <2>1, <2>3
<1>2. ASSUME NEW m \in Members PROVE OnOwn(w, C, m, C)
  <2>1. ASSUME w.shared, NEW a \in w.aods[m]
        PROVE  /\ DOMAIN C.grids[a].columns \subseteq w.ids[m]
               /\ Cardinality(DOMAIN C.grids[a].columns) =< w.band[m].columns
               /\ Between(C.grids[a].columns, w.band[m].lo, w.band[m].hi)
    <3>1. DOMAIN C.grids[a].columns = {}
      BY <1>1, <2>1
    <3>2. Cardinality(DOMAIN C.grids[a].columns) = 0
      BY <3>1, FS_EmptySet
    <3>3. w.band[m].columns \in Nat
      BY DEF IsWave, Bands
    <3> QED BY <3>1, <3>2, <3>3 DEF Between
  <2> QED BY <2>1 DEF OnOwn
<1>3. \A m \in Members : \A i \in w.atoms[m] : C.atoms[i] = Renamed(w, m, C.atoms[i])
  <2> TAKE m \in Members
  <2> TAKE i \in w.atoms[m]
  <2>1. i \in Atoms /\ C.atoms[i] \in [pos : Point, holder : Holders]
    BY DEF IsWave, IsLayout
  <2>2. CASE ~w.shared
    BY <2>1, <2>2, PrivateNames
  <2>3. CASE w.shared
    <3>1. ~(C.atoms[i].holder.kind = "aod" /\ C.atoms[i].holder.aod \in w.aods[m])
      <4>1. PICK a \in Aods : /\ \A n \in Members : w.aods[n] = {a}
                              /\ DOMAIN C.grids[a].rows = {}
        BY <1>1, <2>3
      <4>2. AtHolder(C, i)
        BY <2>1 DEF ValidLayout
      <4> QED BY <4>1, <4>2 DEF AtHolder, InSlm
    <3> QED BY <3>1 DEF Renamed
  <2> QED BY <2>2, <2>3
<1>4. ASSUME NEW m \in Members, NEW a \in w.aods[m], NEW c \in DOMAIN C.grids[a].columns
      PROVE  Col(w, m, c) = c
  BY <1>1, <1>4 DEF Col
<1>5. JoinOf(w, C, K, C)
  BY <1>3, <1>4 DEF JoinOf
<1> QED BY <1>2, <1>5

\* A step that is refused leaves the worlds as they were; one that is taken
\* leads to the join of where it leads each member.  When every member kept to
\* its declarations, only a shared rigid AOD refuses it.
LEMMA ComposeForCause ==
  ASSUME BatchInv, WaveInv, wave # NoWave, failed = {},
         NEW s \in [Members -> UNION {Programs(m) : m \in Members}], Compose(s)
  PROVE  WaveInv' /\ RefusedForCause'
<1> DEFINE next == Apply(world, Merged(wave, s))
           stop == IF Unmergeable(s) # {} THEN Unmergeable(s) ELSE Refusals(s, next)
           N == Stepped(lone, s, Members)
<1>1. /\ context' = context /\ wave' = wave /\ failed' = stop
      /\ SameShape(s)
      /\ \A m \in Members : /\ DOMAIN s[m].grid.columns \subseteq wave.ids[m]
                            /\ Checked(lone[m], s[m])
      /\ IF stop = {}
         THEN world' = next /\ lone' = [m \in Members |-> Apply(lone[m], {s[m]})]
         ELSE UNCHANGED <<world, lone>>
  BY DEF Compose
<1>2. Joined(wave, context, lone, world) /\ IsWave(wave) /\ Compatible(wave)
  BY WaveIsJoined DEF Joined, MayStart
<1>3. \A m \in Members : IsAction(s[m])
  <2> TAKE m \in Members
  <2>1. PICK n \in Members : s[m] \in Programs(n)
    OBVIOUS
  <2> QED BY <2>1, ProgramIsAction DEF BatchInv
<1>4. stop # {} => WaveInv'
  BY <1>1 DEF WaveInv
<1>5. CASE Unmergeable(s) # {}
  <2>1. failed' = Unmergeable(s)
    BY <1>1, <1>5
  <2>2. failed' \cap {"layout", "entry", "exit", "motion"} = {}
    BY <2>1 DEF Unmergeable
  <2>3. stop # {}
    BY <1>5
  <2> QED BY <1>4, <2>2, <2>3 DEF RefusedForCause
<1>6. CASE Unmergeable(s) = {} /\ \E m \in Members : ~WithinSpace(wave, m, lone[m], s[m])
  <2>1. "space" \in Refusals(s, next)
    BY <1>6 DEF Refusals
  <2>2. "space" \in stop /\ failed' = stop
    BY <1>1, <1>6, <2>1
  <2> QED BY <1>4, <2>2 DEF RefusedForCause
<1>7. CASE Unmergeable(s) = {} /\ \A m \in Members : WithinSpace(wave, m, lone[m], s[m])
  <2>1. ASSUME NEW m \in Members PROVE Keeping(wave, m, lone[m], s[m])
    <3>1. Owns(wave, m, s[m]) /\ (wave.shared => WithinBand(wave, m, s[m]))
      BY <1>7 DEF Unmergeable
    <3> QED BY <1>1, <1>3, <1>7, <3>1 DEF Keeping
  <2>2. wave.shared => \A m, n \in Members : s[m].grid.rows = s[n].grid.rows
    BY <1>7 DEF Unmergeable
  <2>3. wave.shared => /\ Merged(wave, s) = {Fused(wave, s)}
                       /\ FusedOf(wave, s, Fused(wave, s)) /\ IsAction(Fused(wave, s))
    <3>1. \A m \in Members : /\ IsAction(s[m]) /\ Named(s[m]) \subseteq wave.atoms[m]
                             /\ DOMAIN s[m].grid.columns \subseteq wave.ids[m]
      BY <2>1 DEF Keeping, Owns
    <3> QED BY <1>1, <1>2, <1>3, <2>2, <3>1, FusedParts, FusedIsAction DEF Merged
  <2>4. Joined(wave, context, N, next)
    <3>1. CASE wave.shared
      BY <1>2, <2>1, <2>3, <3>1, FusedJoins
    <3>2. CASE ~wave.shared
      <4> DEFINE T == Members
                 S == {s[m] : m \in T}
      <4>1. T \in SUBSET Members /\ (\A m \in T : Keeping(wave, m, lone[m], s[m]))
        BY <2>1
      <4>2. JoinOf(wave, context, Stepped(lone, s, T), Apply(world, S))
        <5> HIDE DEF T
        <5> QED BY <1>2, <3>2, <4>1, PrivateJoin
      <4>3. \A t \in S : IsAction(t)
        BY <1>3
      <4>4. Joined(wave, context, Stepped(lone, s, T), Apply(world, S))
        <5> HIDE DEF T, S
        <5> QED BY <1>2, <4>1, <4>2, <4>3, StepsJoin
      <4>5. Merged(wave, s) = S
        BY <3>2 DEF Merged
      <4> QED BY <4>4, <4>5
    <3> QED BY <3>1, <3>2
  <2>5. \A m \in Members : N[m] = Apply(lone[m], {s[m]})
    BY DEF Stepped
  <2>6. N = [m \in Members |-> Apply(lone[m], {s[m]})]
    BY DEF Stepped
  <2> HIDE DEF next, N
  <2>7. ValidLayout(next)
    BY <2>4, JoinValid
  <2>8. \A m \in Members : Seen(wave, m, world) = Alone(wave, m, lone[m])
    BY <1>2, JoinIsSeen
  <2>9. \A m \in Members : Seen(wave, m, next) = Alone(wave, m, Apply(lone[m], {s[m]}))
    <3>1. \A m \in Members : Seen(wave, m, next) = Alone(wave, m, N[m])
      BY <2>4, JoinIsSeen
    <3> QED BY <2>5, <3>1
  <2>10. \/ \A a \in Merged(wave, s) : Checked(world, a)
         \/ wave.shared /\ \A m \in Members : wave.aods[m] \subseteq Rigid
    <3>1. CASE ~wave.shared
      <4>1. \A m \in Members : Checked(world, s[m])
        BY <1>2, <2>1, <3>1, PrivateChecked
      <4> QED BY <3>1, <4>1 DEF Merged
    <3>2. CASE wave.shared
      <4>1. PICK a \in Aods : \A m \in Members : wave.aods[m] = {a}
        BY <1>2, <3>2 DEF Compatible
      <4>2. CASE a \in Rigid
        BY <3>2, <4>1, <4>2
      <4>3. CASE a \notin Rigid
        <5>1. Checked(world, Fused(wave, s))
          BY <1>2, <2>1, <2>3, <3>2, <4>1, <4>3, SharedChecked
        <5> QED BY <2>3, <3>2, <5>1
      <4> QED BY <4>2, <4>3
    <3> QED BY <3>1, <3>2
  <2>11. Refusals(s, next) \subseteq {"motion"}
    BY <1>7, <2>7, <2>8, <2>9 DEF Refusals
  <2>12. failed' = Refusals(s, next)
    BY <1>1, <1>7
  <2>13. CASE Refusals(s, next) = {}
    <3>1. world' = next /\ lone' = N
      BY <1>1, <1>7, <2>6, <2>13
    <3>2. Joined(wave', context', lone', world')
      BY <1>1, <2>4, <3>1
    <3>3. WaveInv'
      BY <3>2 DEF WaveInv, Joined
    <3> QED BY <2>12, <2>13, <3>3 DEF RefusedForCause
  <2>14. CASE Refusals(s, next) # {}
    <3>1. "motion" \in Refusals(s, next) /\ failed' = {"motion"}
      BY <2>11, <2>12, <2>14
    <3>2. ~\A a \in Merged(wave, s) : Checked(world, a)
      BY <3>1 DEF Refusals
    <3>3. wave'.shared /\ \A m \in Members : wave'.aods[m] \subseteq Rigid
      BY <1>1, <2>10, <3>2
    <3> QED BY <1>4, <1>7, <2>14, <3>1, <3>3 DEF RefusedForCause
  <2> QED BY <2>13, <2>14
<1> QED BY <1>5, <1>6, <1>7

\* The invariant a refusal's cause follows from.
CauseInv == BatchInv /\ WaveInv /\ NoneRefused /\ RefusedForCause

\* A context starts with nothing refused.
LEMMA CauseInit == ASSUME Init PROVE CauseInv
  BY BatchInit DEF Init, CauseInv, WaveInv, NoneRefused, RefusedForCause

\* Every step of a context keeps that invariant.
LEMMA CauseStep == ASSUME CauseInv, [Next]_vars PROVE CauseInv'
<1>0. BatchInv'
  BY BatchStep DEF CauseInv
<1>1. CASE wave' = NoWave /\ failed' = {}
  BY <1>0, <1>1 DEF CauseInv, WaveInv, NoneRefused, RefusedForCause
<1>2. ASSUME NEW w \in Declared, Admit(w) PROVE CauseInv'
  <2>1. /\ wave = NoWave /\ wave' = w /\ Compatible(w)
        /\ \A m \in Members : Enveloped(w, m, context)
        /\ w.shared => \A m \in Members : \A a \in w.aods[m] :
             DOMAIN context.grids[a].rows = {} /\ DOMAIN context.grids[a].columns = {}
        /\ context' = context /\ world' = world /\ lone' = lone /\ failed' = failed
    BY <1>2 DEF Admit
  <2>2. failed' = {}
    BY <2>1 DEF CauseInv, NoneRefused
  <2>3. world = context /\ \A m \in Members : lone[m] = context
    BY <2>1 DEF CauseInv, BatchInv, AtRest
  <2>4. IsWave(w) /\ MayStart(w, context) /\ IsLayout(context) /\ ValidLayout(context)
    BY <2>1, BatchAssumption DEF MayStart, CauseInv, BatchInv, WellFormed, SoundLayouts
  <2>5. /\ \A m \in Members : OnOwn(w, context, m, lone[m])
        /\ JoinOf(w, context, lone, context)
    BY <2>1, <2>3, <2>4, WaveStarts
  <2>6. WaveInv'
    BY <2>1, <2>3, <2>4, <2>5 DEF WaveInv
  <2> QED BY <1>0, <2>2, <2>6 DEF CauseInv, NoneRefused, RefusedForCause
<1>3. ASSUME wave # NoWave, failed = {},
             NEW s \in [Members -> UNION {Programs(m) : m \in Members}], Compose(s)
      PROVE CauseInv'
  <2>1. WaveInv' /\ RefusedForCause'
    BY <1>3, ComposeForCause DEF CauseInv
  <2>2. wave' = wave
    BY <1>3 DEF Compose
  <2> QED BY <1>0, <1>3, <2>1, <2>2 DEF CauseInv, NoneRefused
<1>4. ASSUME NEW s, Call(s) PROVE wave' = NoWave /\ failed' = {}
  BY <1>4 DEF Call, Idle
<1>5. (Commit \/ Refuse) => wave' = NoWave /\ failed' = {}
  BY DEF Commit, Refuse, Idle
<1>6. CASE UNCHANGED vars
  BY <1>0, <1>6 DEF vars, CauseInv, WaveInv, NoneRefused, RefusedForCause
<1> QED BY <1>1, <1>2, <1>3, <1>4, <1>5, <1>6 DEF Next

\* On every device and for any declared waves: a wave whose members keep to their
\* declared atoms, AODs, columns and regions is refused by no check of the merged
\* world, but for the displacements of a shared rigid AOD.
THEOREM RefusedOnlyForCause == Spec => []RefusedForCause
<1>1. Init => CauseInv
  BY CauseInit
<1>2. CauseInv /\ [Next]_vars => CauseInv'
  BY CauseStep
<1>3. CauseInv => RefusedForCause
  BY DEF CauseInv
<1> QED BY <1>1, <1>2, <1>3, PTL DEF Spec
=============================================================================
