------------------------- MODULE TaskCatalogProofs ---------------------------
(***************************************************************************)
(* A catalog that a builder accepts is one validate_catalog accepts, when  *)
(* the ids of its families are apart: for every plan, manifest and policy. *)
(***************************************************************************)
EXTENDS TaskCatalog, WellFoundedInduction, TLAPS

\* What _families does not check: that an override has a family id of its
\* own, which no other override and no task on its own has.
FamilyIdsApart(overrides, ids) ==
    /\ \A o, q \in DOMAIN overrides : overrides[o].id = overrides[q].id => o = q
    /\ \A o \in DOMAIN overrides : overrides[o].id \notin ids \ Grouped(overrides)

\* The families are what the overrides and the tasks left alone make them.
FamiliesAre(fs, overrides, ids) ==
    /\ DOMAIN fs = {overrides[o].id : o \in DOMAIN overrides} \cup (ids \ Grouped(overrides))
    /\ \A o \in DOMAIN overrides : fs[overrides[o].id].members = Members(overrides[o])
    /\ \A t \in ids \ Grouped(overrides) : fs[t].members = {t}

(* With ids apart, each override has its family and each other task one of *)
(* its own.                                                                *)
LEMMA FamilyContents ==
    ASSUME NEW overrides, NEW ids, FamilyIdsApart(overrides, ids),
           DOMAIN overrides \subseteq Nat
    PROVE  FamiliesAre(Families(overrides, ids), overrides, ids)
<1> DEFINE fs == Families(overrides, ids)
           alone == ids \ Grouped(overrides)
           named == {overrides[o].id : o \in DOMAIN overrides}
           Last(f) == CHOOSE o \in DOMAIN overrides :
                         /\ overrides[o].id = f
                         /\ \A q \in DOMAIN overrides : overrides[q].id = f => q <= o
<1>1. fs = [f \in named \cup alone |->
              IF f \in alone THEN [kind |-> "singleton", members |-> {f}]
              ELSE [kind |-> "group", members |-> Members(overrides[Last(f)])]]
    BY DEF Families
<1> HIDE DEF fs
<1>2. DOMAIN fs = named \cup alone
    BY <1>1
<1>3. ASSUME NEW t \in alone PROVE fs[t].members = {t}
    BY <1>1, <1>3
<1>4. ASSUME NEW o \in DOMAIN overrides PROVE fs[overrides[o].id].members = Members(overrides[o])
    <2> DEFINE f == overrides[o].id
    <2>1. f \in named /\ f \notin alone
        BY DEF FamilyIdsApart
    <2>2. \A q \in DOMAIN overrides : overrides[q].id = f => q = o
        BY DEF FamilyIdsApart
    <2>3. o <= o
        BY <1>4
    <2>4. Last(f) = o
        BY <1>4, <2>2, <2>3
    <2>5. fs[f] = [kind |-> "group", members |-> Members(overrides[Last(f)])]
        BY <1>1, <2>1
    <2>6. Members(overrides[Last(f)]) = Members(overrides[o])
        BY <2>4
    <2> HIDE DEF Last
    <2> QED
        BY <2>5, <2>6
<1> QED
    BY <1>2, <1>3, <1>4 DEF FamiliesAre, fs

(* Then every task is in one family and no family has anyone else.         *)
LEMMA FamiliesPartition ==
    ASSUME NEW overrides, NEW ids, FamilyIdsApart(overrides, ids),
           FamiliesAccepted(overrides, ids), DOMAIN overrides \subseteq Nat
    PROVE  LET fs == Families(overrides, ids)
           IN  /\ UNION {fs[f].members : f \in DOMAIN fs} = ids
               /\ \A f, g \in DOMAIN fs : f # g => fs[f].members \cap fs[g].members = {}
<1> DEFINE fs == Families(overrides, ids)
           alone == ids \ Grouped(overrides)
<1>0. FamiliesAre(fs, overrides, ids)
    BY FamilyContents
<1> HIDE DEF fs
<1>1. /\ DOMAIN fs = {overrides[o].id : o \in DOMAIN overrides} \cup alone
      /\ \A o \in DOMAIN overrides : fs[overrides[o].id].members = Members(overrides[o])
      /\ \A t \in alone : fs[t].members = {t}
    BY <1>0 DEF FamiliesAre
<1>2. \A o \in DOMAIN overrides : Members(overrides[o]) \subseteq ids
    BY DEF FamiliesAccepted
<1>3. \A o, q \in DOMAIN overrides :
         o # q => Members(overrides[o]) \cap Members(overrides[q]) = {}
    BY DEF FamiliesAccepted
<1>4. Grouped(overrides) = UNION {Members(overrides[o]) : o \in DOMAIN overrides}
    BY DEF Grouped
<1>5. UNION {fs[f].members : f \in DOMAIN fs} = ids
  <2>1. ASSUME NEW f \in DOMAIN fs PROVE fs[f].members \subseteq ids
      BY <1>1, <1>2, <2>1
  <2>2. ASSUME NEW t \in ids PROVE \E f \in DOMAIN fs : t \in fs[f].members
    <3>1. CASE t \in alone
        BY <1>1, <3>1
    <3>2. CASE t \notin alone
      <4>1. PICK o \in DOMAIN overrides : t \in Members(overrides[o])
          BY <1>4, <2>2, <3>2
      <4>2. overrides[o].id \in DOMAIN fs /\ t \in fs[overrides[o].id].members
          BY <1>1, <4>1
      <4> QED
          BY <4>2
    <3> QED
        BY <3>1, <3>2
  <2> QED
      BY <2>1, <2>2
<1>6. ASSUME NEW f \in DOMAIN fs, NEW g \in DOMAIN fs, f # g
      PROVE  fs[f].members \cap fs[g].members = {}
  <2>1. CASE f \in alone /\ g \in alone
      BY <1>1, <1>6, <2>1
  <2>2. ASSUME NEW o \in DOMAIN overrides, NEW t \in alone
        PROVE  t \notin Members(overrides[o])
      BY <1>4
  <2>3. CASE f \in alone /\ g \notin alone
    <3>1. PICK o \in DOMAIN overrides : g = overrides[o].id
        BY <1>1, <2>3
    <3>2. fs[g].members = Members(overrides[o]) /\ fs[f].members = {f}
        BY <1>1, <2>3, <3>1
    <3> QED
        BY <2>2, <2>3, <3>2
  <2>4. CASE f \notin alone /\ g \in alone
    <3>1. PICK o \in DOMAIN overrides : f = overrides[o].id
        BY <1>1, <2>4
    <3>2. fs[f].members = Members(overrides[o]) /\ fs[g].members = {g}
        BY <1>1, <2>4, <3>1
    <3> QED
        BY <2>2, <2>4, <3>2
  <2>5. CASE f \notin alone /\ g \notin alone
    <3>1. PICK o \in DOMAIN overrides : f = overrides[o].id
        BY <1>1, <2>5
    <3>2. PICK q \in DOMAIN overrides : g = overrides[q].id
        BY <1>1, <2>5
    <3>3. fs[f].members = Members(overrides[o]) /\ fs[g].members = Members(overrides[q])
        BY <1>1, <3>1, <3>2
    <3> QED
        BY <1>3, <1>6, <3>1, <3>2, <3>3
  <2> QED
      BY <2>1, <2>3, <2>4, <2>5
<1> QED
    BY <1>5, <1>6 DEF fs

(* A basename that two tasks of one length own has one owner: the code's   *)
(* "ambiguous owners" cannot occur, and the longest owner is well defined. *)
THEOREM SupportHasOneOwner ==
    ASSUME NEW base, NEW ids, NEW t \in Owners(base, ids), NEW u \in Owners(base, ids),
           Len(t) = Len(u)
    PROVE  t = u
BY DEF Owners

(* A basename with owners has a longest one.                               *)
LEMMA LongestOwner ==
    ASSUME NEW base, NEW ids, Owners(base, ids) # {}, Len(base) \in Nat,
           \A t \in ids : Len(t) \in Nat
    PROVE  Owner(base, ids) \in Owners(base, ids)
<1> DEFINE Left == {Len(base) - Len(t) : t \in Owners(base, ids)}
<1>1. Left \subseteq Nat /\ Left # {}
    BY DEF Owners
<1>2. PICK l \in Left : \A k \in Left : ~(<<k, l>> \in OpToRel(<, Nat))
    BY <1>1, NatLessThanWellFounded, WFMin
<1>3. PICK t \in Owners(base, ids) : l = Len(base) - Len(t)
    BY <1>2
<1>4. ASSUME NEW u \in Owners(base, ids) PROVE Len(u) <= Len(t)
  <2>1. Len(base) - Len(u) \in Left /\ Len(base) - Len(u) \in Nat /\ l \in Nat
      BY <1>1
  <2>2. ~(Len(base) - Len(u) < l)
      BY <1>2, <2>1 DEF OpToRel
  <2>3. Len(u) \in Nat /\ Len(t) \in Nat
      BY DEF Owners
  <2> QED
      BY <1>3, <2>2, <2>3
<1> QED
    BY <1>4 DEF Owner

(* The catalog a build accepts is valid: every task is in one family, has  *)
(* one primary module, and every support module has a task that exists.    *)
THEOREM BuiltCatalogIsValid ==
    ASSUME NEW b, BuildAccepted(b), DOMAIN b.overrides \subseteq Nat,
           FamilyIdsApart(b.overrides, FormalIds(b.plan, "mat")),
           \A t \in FormalIds(b.plan, "mat") : t # <<>> /\ Len(t) \in Nat,
           \A i \in DOMAIN b.rows : Len(b.rows[i].base) \in Nat
    PROVE  Valid(Identified(Payload(b)))
<1> DEFINE ids == FormalIds(b.plan, "mat")
           c == Payload(b)
           rows == b.rows
<1>1. /\ c.homes = <<>>
      /\ c.tasks = {Task(t, b.plan, b.overrides, rows, ids, "mat") : t \in ids}
      /\ c.families = Families(b.overrides, ids)
      /\ c.modules = {Module(rows[i], ids) : i \in DOMAIN rows}
    BY DEF Payload
<1>2. /\ RowsAccepted(rows) /\ FamiliesAccepted(b.overrides, ids)
      /\ ids \subseteq {rows[i].base : i \in DOMAIN rows}
      /\ \A i \in DOMAIN rows :
            /\ ModuleRole(rows[i], ids) \notin {"unsupported", "unclassified"}
            /\ ModuleRole(rows[i], ids) = "owned_support" => Owners(rows[i].base, ids) # {}
    BY DEF BuildAccepted
<1> HIDE DEF c, ids
<1>3. Ids(c) = ids
  <2>1. \A t \in ids : Task(t, b.plan, b.overrides, rows, ids, "mat").id = t
      BY DEF Task
  <2> QED
      BY <1>1, <2>1 DEF Ids
<1>4. Partition(c)
    BY <1>1, <1>2, <1>3, FamiliesPartition DEF Partition, ids
<1>5. ASSUME NEW i \in DOMAIN rows
      PROVE  /\ Module(rows[i], ids).role = ModuleRole(rows[i], ids)
             /\ Module(rows[i], ids).owner = ModuleOwner(rows[i], ids)
    BY DEF Module
<1>6. ASSUME NEW i \in DOMAIN rows
      PROVE  ModuleRole(rows[i], ids) = "primary" <=> rows[i].base \in ids
    BY <1>2 DEF ModuleRole
<1>7. ASSUME NEW i \in DOMAIN rows, rows[i].base \in ids
      PROVE  ModuleOwner(rows[i], ids) = rows[i].base
    BY <1>6, <1>7 DEF ModuleOwner
<1>8. OwnedOnce(c)
  <2>1. ASSUME NEW t \in ids
        PROVE  \E m \in InRole(c, "primary") : m.owner = t
    <3>1. PICK i \in DOMAIN rows : rows[i].base = t
        BY <1>2
    <3> QED
        BY <1>1, <1>5, <1>6, <1>7, <3>1 DEF InRole
  <2>2. ASSUME NEW m \in InRole(c, "primary")
        PROVE  \E i \in DOMAIN rows : m = Module(rows[i], ids) /\ m.owner = rows[i].base
                                       /\ rows[i].base \in ids
      BY <1>1, <1>5, <1>6, <1>7 DEF InRole
  <2>3. ASSUME NEW i \in DOMAIN rows, NEW j \in DOMAIN rows, rows[i].base = rows[j].base
        PROVE  i = j
      BY <1>2, <2>3 DEF RowsAccepted
  <2>4. {m.owner : m \in InRole(c, "primary")} = ids
      BY <2>1, <2>2
  <2>5. ASSUME NEW m \in InRole(c, "primary"), NEW n \in InRole(c, "primary"), m.owner = n.owner
        PROVE  m = n
      BY <2>2, <2>3, <2>5
  <2> QED
      BY <1>3, <2>4, <2>5 DEF OwnedOnce
<1>9. SupportOwned(c)
  <2>1. ASSUME NEW m \in InRole(c, "owned_support") PROVE m.owner # <<>> /\ m.owner \in ids
    <3>1. PICK i \in DOMAIN rows : m = Module(rows[i], ids)
                                    /\ ModuleRole(rows[i], ids) = "owned_support"
        BY <1>1, <1>5, <2>1 DEF InRole
    <3>2. m.owner = Owner(rows[i].base, ids)
        BY <1>5, <3>1 DEF ModuleOwner
    <3>3. Owner(rows[i].base, ids) \in Owners(rows[i].base, ids)
        BY LongestOwner, <1>2, <3>1
    <3> QED
        BY <3>2, <3>3 DEF Owners, ids
  <2>2. ASSUME NEW m \in InRole(c, "shared") PROVE m.owner = <<>>
      BY <1>1, <1>5, <2>2 DEF InRole, ModuleOwner
  <2> QED
      BY <1>3, <2>1, <2>2 DEF SupportOwned
<1> QED
    BY <1>1, <1>4, <1>8, <1>9 DEF Valid, Identified, c

(* The same of the catalog whose tasks share modules: every task has a     *)
(* module of the commit, though no module has an owner.                    *)
THEOREM CordisCatalogIsValid ==
    ASSUME NEW b, CordisAccepted(b), DOMAIN b.overrides \subseteq Nat,
           FamilyIdsApart(b.overrides, FormalIds(b.plan, "cordis"))
    PROVE  Valid(Identified(CordisPayload(b)))
<1> DEFINE ids == FormalIds(b.plan, "cordis")
           c == CordisPayload(b)
<1>1. /\ c.homes = [t \in ids |-> {b.homes[t]}]
      /\ c.tasks = {CordisTask(t, b) : t \in ids}
      /\ c.families = Families(b.overrides, ids)
      /\ c.modules = {[path |-> p, role |-> "primary", owner |-> <<>>] : p \in b.documents}
    BY DEF CordisPayload
<1>2. /\ PlanAccepted(b.plan, "cordis") /\ FamiliesAccepted(b.overrides, ids)
      /\ {b.homes[t] : t \in ids} = b.documents
    BY DEF CordisAccepted
<1>3. ids # {}
    BY <1>2 DEF PlanAccepted, FormalIds
<1> HIDE DEF c, ids
<1>4. Ids(c) = ids
  <2>1. \A t \in ids : CordisTask(t, b).id = t
      BY DEF CordisTask
  <2> QED
      BY <1>1, <2>1 DEF Ids
<1>5. Partition(c)
    BY <1>1, <1>2, <1>4, FamiliesPartition DEF Partition, ids
<1>6. HomesKnown(c)
  <2>1. DOMAIN c.homes = ids
      BY <1>1
  <2>2. ASSUME NEW t \in ids PROVE c.homes[t] = {b.homes[t]} /\ b.homes[t] \in b.documents
      BY <1>1, <1>2
  <2>3. ASSUME NEW p \in b.documents
        PROVE  \E m \in c.modules : m.path = p /\ m.role = "primary"
    <3>1. [path |-> p, role |-> "primary", owner |-> <<>>] \in c.modules
        BY <1>1
    <3> QED
        BY <3>1
  <2> QED
      BY <1>4, <2>1, <2>2, <2>3 DEF HomesKnown
<1>7. SupportOwned(c)
  <2>1. \A m \in c.modules : m.role = "primary"
      BY <1>1
  <2> QED
      BY <2>1 DEF SupportOwned, InRole
<1>8. c.homes # <<>>
  <2>1. DOMAIN c.homes # {}
      BY <1>1, <1>3
  <2>2. DOMAIN <<>> = {}
      OBVIOUS
  <2> QED
      BY <2>1, <2>2
<1> QED
    BY <1>5, <1>6, <1>7, <1>8 DEF Valid, Identified, c

(* A Lean file is the module of one task at most, so what task_for_path    *)
(* answers does not depend on the order of the modules.                    *)
THEOREM PathHasOneTask ==
    ASSUME NEW b, RowsAccepted(b.rows), NEW path,
           NEW t \in TasksForPath(Payload(b), path), NEW u \in TasksForPath(Payload(b), path)
    PROVE  t = u
<1> DEFINE ids == FormalIds(b.plan, "mat")
           c == Payload(b)
<1>1. c.modules = {Module(b.rows[i], ids) : i \in DOMAIN b.rows}
    BY DEF Payload
<1>2. ASSUME NEW x \in TasksForPath(c, path)
      PROVE  \E i \in DOMAIN b.rows : b.rows[i].path = path /\ x = Module(b.rows[i], ids).owner
  <2> HIDE DEF c
  <2>1. PICK m \in c.modules : m.path = path /\ m.owner = x
      BY <1>2 DEF TasksForPath
  <2>2. PICK i \in DOMAIN b.rows : m = Module(b.rows[i], ids)
      BY <1>1, <2>1
  <2>3. m.path = b.rows[i].path
      BY <2>2 DEF Module
  <2> QED
      BY <2>1, <2>2, <2>3
<1>3. PICK i \in DOMAIN b.rows : b.rows[i].path = path /\ t = Module(b.rows[i], ids).owner
    BY <1>2
<1>4. PICK j \in DOMAIN b.rows : b.rows[j].path = path /\ u = Module(b.rows[j], ids).owner
    BY <1>2
<1>5. i = j
    BY <1>3, <1>4 DEF RowsAccepted
<1> QED
    BY <1>3, <1>4, <1>5

(* A v2 policy reads the restored tasks from the manifest it then compares *)
(* them with: of the checks of build_catalog, the two on restored tasks    *)
(* cannot fail there, and a role that is wrong in the manifest is taken    *)
(* for a restored task.                                                    *)
THEOREM UnifiedMigrationsAreVacuous ==
    ASSUME NEW policy, NEW world, NEW ids, NEW b,
           b = UnifiedBuild(policy, world), ids = FormalIds(b.plan, "mat"),
           \A t \in ids : Canonical(t, "mat") = t
    PROVE  /\ {Canonical(r, "mat") : r \in b.restored} \subseteq ids
           /\ Migrations(b.rows, ids) = {Canonical(r, "mat") : r \in b.restored}
<1>1. b.restored = Migrations(b.rows, ids)
    BY DEF UnifiedBuild
<1>2. Migrations(b.rows, ids) \subseteq ids
    BY DEF Migrations
<1>3. {Canonical(r, "mat") : r \in b.restored} = b.restored
  <2>1. \A r \in b.restored : Canonical(r, "mat") = r
      BY <1>1, <1>2
  <2> QED
      BY <2>1
<1> QED
    BY <1>1, <1>2, <1>3
=============================================================================
