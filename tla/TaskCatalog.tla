----------------------------- MODULE TaskCatalog -----------------------------
(***************************************************************************)
(* The task catalog (task_catalog): which tasks the plans of a pinned      *)
(* commit name, to which family each belongs, which Lean module carries it *)
(* and which support it.  A catalog is built once from pinned bytes and    *)
(* never changes; every refusal is a CatalogError, so the order of the     *)
(* checks does not matter and each builder's checks are a conjunction.     *)
(*                                                                         *)
(* Ids and basenames are sequences of the tokens "_" separates in the      *)
(* text.  A hash is the value it hashes.                                   *)
(***************************************************************************)
EXTENDS Naturals, FiniteSets, Sequences

CONSTANTS Canonical(_, _),      \* canonicalize_block_id(id, profile)
          IsId(_, _),           \* is_canonical_block_id(id, profile)
          TaskType(_)           \* normalize_phase1_task_type(type)

\* The types of a plan entry that make it a task, and their ids' prefixes.
FormalPrefix == [Definition |-> "def", Theorem_Statement |-> "thm",
                 Theorem_with_Proof |-> "thm", Example_Proof |-> "ex",
                 Problem |-> "prob", Lemma |-> "lem", Corollary |-> "cor"]

\* The classifications of the manifest.
TaskRole == "ledger_task_module"
OwnedRole == "task_owned_support_module"
SharedRole == "shared_support_or_bridge"

\* _plan_tasks: the formal entries of all plans, with valid ids, each once.
Formal(plan) == {k \in DOMAIN plan : TaskType(plan[k].type) \in DOMAIN FormalPrefix}
PlanId(entry, profile) == Canonical(entry.id, profile)
FormalIds(plan, profile) == {PlanId(plan[k], profile) : k \in Formal(plan)}
PlanAccepted(plan, profile) ==
    /\ Formal(plan) # {}
    /\ \A k \in Formal(plan) :
          /\ IsId(PlanId(plan[k], profile), profile)
          /\ PlanId(plan[k], profile)[1] = FormalPrefix[TaskType(plan[k].type)]
    /\ \A j, k \in Formal(plan) : PlanId(plan[j], profile) = PlanId(plan[k], profile) => j = k

\* _manifest_rows: paths, module names and basenames name one row each.
RowsAccepted(rows) ==
    /\ rows # <<>>
    /\ \A i \in DOMAIN rows : rows[i].path # "" /\ rows[i].name # "" /\ rows[i].base # <<>>
    /\ \A i, j \in DOMAIN rows :
          \/ rows[i].path = rows[j].path \/ rows[i].name = rows[j].name
          \/ rows[i].base = rows[j].base
          => i = j

\* _families: an override groups two tasks or more that no other groups.
Members(override) == {override.members[k] : k \in DOMAIN override.members}
FamiliesAccepted(overrides, ids) ==
    /\ \A o \in DOMAIN overrides :
          /\ overrides[o].id # <<>> /\ Len(overrides[o].members) >= 2
          /\ \A j, k \in DOMAIN overrides[o].members :
                overrides[o].members[j] = overrides[o].members[k] => j = k
          /\ Members(overrides[o]) \subseteq ids
    /\ \A o, q \in DOMAIN overrides :
          o # q => Members(overrides[o]) \cap Members(overrides[q]) = {}

Grouped(overrides) == UNION {Members(overrides[o]) : o \in DOMAIN overrides}

\* The families dict: of overrides with one id the last is kept, and the
\* family of a task on its own replaces an override with the task's id.
Families(overrides, ids) ==
    LET alone == ids \ Grouped(overrides)
        named == {overrides[o].id : o \in DOMAIN overrides}
        Last(f) == CHOOSE o \in DOMAIN overrides :
                      /\ overrides[o].id = f
                      /\ \A q \in DOMAIN overrides : overrides[q].id = f => q <= o
    IN  [f \in named \cup alone |->
            IF f \in alone THEN [kind |-> "singleton", members |-> {f}]
            ELSE [kind |-> "group", members |-> Members(overrides[Last(f)])]]
FamilyOf(t, overrides) ==
    IF t \notin Grouped(overrides) THEN t
    ELSE overrides[CHOOSE o \in DOMAIN overrides : t \in Members(overrides[o])].id

\* _owned_support_owner: the task whose id, with a "_", the basename extends;
\* of several, the longest.
Owners(base, ids) == {t \in ids : Len(t) < Len(base) /\ SubSeq(base, 1, Len(t)) = t}
Owner(base, ids) ==
    CHOOSE t \in Owners(base, ids) : \A u \in Owners(base, ids) : Len(u) <= Len(t)

\* The role of a row's module.
ModuleRole(row, ids) ==
    IF row.base \in ids
    THEN IF row.role \in {TaskRole, OwnedRole} THEN "primary" ELSE "unsupported"
    ELSE IF row.role = OwnedRole THEN "owned_support"
    ELSE IF row.role = SharedRole THEN "shared" ELSE "unclassified"
ModuleOwner(row, ids) ==
    CASE ModuleRole(row, ids) = "primary" -> row.base
      [] ModuleRole(row, ids) = "owned_support" -> Owner(row.base, ids)
      [] OTHER -> <<>>
Module(row, ids) == [path |-> row.path, base |-> row.base, name |-> row.name,
                     role |-> ModuleRole(row, ids), owner |-> ModuleOwner(row, ids),
                     legacy |-> row.role]

\* Formal tasks whose modules the manifest still calls support.
Migrations(rows, ids) ==
    {rows[i].base : i \in {i \in DOMAIN rows : rows[i].base \in ids /\ rows[i].role = OwnedRole}}

Row(rows, t) == rows[CHOOSE i \in DOMAIN rows : rows[i].base = t]

\* TaskCatalog.counts, of the numbers a policy may pin.
Counts(tasks, families, modules, roots, migrations) ==
    LET InRole(r) == {m \in modules : m.role = r}
        groups == {f \in DOMAIN families : families[f].kind # "singleton"}
    IN  [tasks |-> Cardinality(tasks), families |-> Cardinality(DOMAIN families),
         modules |-> Cardinality(modules),
         primary_modules |-> Cardinality(InRole("primary")),
         owned_support_modules |-> Cardinality(InRole("owned_support")),
         shared_modules |-> Cardinality(InRole("shared")),
         legacy_review_roots |-> Cardinality(roots),
         role_migrations |-> Cardinality(migrations),
         family_overrides |-> Cardinality(groups)]
CountsOf(c) == Counts(c.tasks, c.families, c.modules, c.roots, c.migrations)
CountsAgree(c, expected) == \A k \in DOMAIN expected : expected[k] = CountsOf(c)[k]

\* The catalog of an accepted build.  b: [plan, rows, overrides, restored,
\* tree, expected, commit, origin].
Task(t, plan, overrides, rows, ids, profile) ==
    LET entry == plan[CHOOSE k \in Formal(plan) : PlanId(plan[k], profile) = t]
    IN  [id |-> t, family |-> FamilyOf(t, overrides), kind |-> TaskType(entry.type),
         source |-> entry, primary |-> Row(rows, t).path, legacy |-> Row(rows, t).role,
         state |-> IF t \in Migrations(rows, ids) THEN "restored_then_stale_manifest_role"
                   ELSE "formal_task"]
Payload(b) ==
    LET ids == FormalIds(b.plan, "mat")
        rows == b.rows
    IN  [commit |-> b.commit, origin |-> b.origin, manifest |-> rows, homes |-> <<>>,
         tasks |-> {Task(t, b.plan, b.overrides, rows, ids, "mat") : t \in ids},
         families |-> Families(b.overrides, ids),
         modules |-> {Module(rows[i], ids) : i \in DOMAIN rows},
         roots |-> {rows[i].base : i \in {i \in DOMAIN rows :
                       rows[i].base \in ids /\ rows[i].role = TaskRole}},
         migrations |-> Migrations(rows, ids)]
Identified(payload) == [catalog |-> payload, id |-> payload]

\* build_catalog.
BuildAccepted(b) ==
    LET ids == FormalIds(b.plan, "mat")
    IN  /\ PlanAccepted(b.plan, "mat")
        /\ RowsAccepted(b.rows)
        /\ {Canonical(r, "mat") : r \in b.restored} \subseteq ids
        /\ ids \subseteq {b.rows[i].base : i \in DOMAIN b.rows}
        /\ FamiliesAccepted(b.overrides, ids)
        /\ \A i \in DOMAIN b.rows :
              /\ ModuleRole(b.rows[i], ids) \notin {"unsupported", "unclassified"}
              /\ ModuleRole(b.rows[i], ids) = "owned_support" => Owners(b.rows[i].base, ids) # {}
        /\ Migrations(b.rows, ids) = {Canonical(r, "mat") : r \in b.restored}
        /\ b.tree.known => {b.rows[i].path : i \in DOMAIN b.rows} = b.tree.paths
        /\ CountsAgree(Payload(b), b.expected)

\* build_cordis_catalog: tasks may share a module, and every module has one.
CordisTask(t, b) ==
    LET entry == b.plan[CHOOSE k \in Formal(b.plan) : PlanId(b.plan[k], "cordis") = t]
    IN  [id |-> t, family |-> FamilyOf(t, b.overrides), kind |-> TaskType(entry.type),
         source |-> entry, primary |-> b.homes[t], legacy |-> "cordis_module",
         state |-> "formal_task"]
CordisPayload(b) ==
    LET ids == FormalIds(b.plan, "cordis")
    IN  [commit |-> b.commit, origin |-> "", manifest |-> b.documents,
         tasks |-> {CordisTask(t, b) : t \in ids},
         families |-> Families(b.overrides, ids),
         modules |-> {[path |-> p, role |-> "primary", owner |-> <<>>] : p \in b.documents},
         roots |-> {}, migrations |-> {},
         homes |-> [t \in ids |-> {b.homes[t]}]]
CordisAccepted(b) ==
    LET ids == FormalIds(b.plan, "cordis")
    IN  /\ PlanAccepted(b.plan, "cordis")
        /\ DOMAIN b.homes = ids
        /\ {b.homes[t] : t \in ids} = b.documents
        /\ FamiliesAccepted(b.overrides, ids)
        /\ CountsAgree(CordisPayload(b), b.expected)

-----------------------------------------------------------------------------
\* validate_catalog.
Ids(c) == {t.id : t \in c.tasks}
InRole(c, role) == {m \in c.modules : m.role = role}
Partition(c) ==
    /\ UNION {c.families[f].members : f \in DOMAIN c.families} = Ids(c)
    /\ \A f, g \in DOMAIN c.families :
          f # g => c.families[f].members \cap c.families[g].members = {}
OwnedOnce(c) ==
    /\ {m.owner : m \in InRole(c, "primary")} = Ids(c)
    /\ \A m, n \in InRole(c, "primary") : m.owner = n.owner => m = n
HomesKnown(c) ==
    /\ DOMAIN c.homes = Ids(c)
    /\ \A t \in DOMAIN c.homes :
          /\ c.homes[t] # {}
          /\ \A p \in c.homes[t] : \E m \in c.modules : m.path = p /\ m.role = "primary"
SupportOwned(c) ==
    /\ \A m \in InRole(c, "owned_support") : m.owner # <<>> /\ m.owner \in Ids(c)
    /\ \A m \in InRole(c, "shared") : m.owner = <<>>
Valid(identified) ==
    LET c == identified.catalog
    IN  /\ identified.id = c
        /\ Partition(c)
        /\ IF c.homes # <<>> THEN HomesKnown(c) ELSE OwnedOnce(c)
        /\ SupportOwned(c)

\* The lookups of a catalog.
FamilyFor(c, t) == (CHOOSE x \in c.tasks : x.id = t).family
OwnedPaths(c, t, withPrimary) ==
    IF c.homes # <<>> /\ t \in DOMAIN c.homes
    THEN IF withPrimary THEN c.homes[t] ELSE {}
    ELSE {m.path : m \in {m \in c.modules : m.owner = t
            /\ m.role \in (IF withPrimary THEN {"primary", "owned_support"}
                           ELSE {"owned_support"})}}
TasksForPath(c, path) == {m.owner : m \in {m \in c.modules : m.path = path /\ m.owner # <<>>}}

-----------------------------------------------------------------------------
\* load_catalog: what a policy pins and which builder it names.
Loader(policy) ==
    LET schema == policy.schema  kind == policy.kind
    IN  CASE schema = "policy.v2" /\ kind = "unified" -> "unified"
          [] schema = "cordis" /\ kind = "cordis" -> "cordis"
          [] schema = "policy.v1" /\ kind = "mat" -> "mat"
          [] OTHER -> "refused"

\* The build a v1 policy describes: the manifest and the archive's restored
\* tasks must be the pinned ones.
MatBuild(policy, world) ==
    [plan |-> world.plan[policy.commit], rows |-> world.manifest[policy.origin],
     overrides |-> policy.overrides, restored |-> world.restored,
     tree |-> [known |-> TRUE, paths |-> world.tree[policy.origin]],
     expected |-> policy.expected, commit |-> policy.commit, origin |-> policy.origin]
MatLoads(policy, world) ==
    /\ Loader(policy) = "mat"
    /\ world.manifest[policy.origin] = policy.manifest
    /\ world.restored = policy.restored
    /\ BuildAccepted(MatBuild(policy, world))

\* A v2 policy has no archive: the restored tasks are read from the manifest.
UnifiedBuild(policy, world) ==
    LET plan == world.plan[policy.commit]  rows == world.manifest[policy.commit]
    IN  [plan |-> plan, rows |-> rows, overrides |-> policy.overrides,
         restored |-> Migrations(rows, FormalIds(plan, "mat")),
         tree |-> [known |-> TRUE, paths |-> world.tree[policy.commit]],
         expected |-> policy.expected, commit |-> policy.commit, origin |-> policy.origin]
UnifiedLoads(policy, world) ==
    /\ Loader(policy) = "unified"
    /\ policy.prefix = "ProbabilityTheory"
    /\ world.manifest[policy.commit] = policy.manifest
    /\ PlanAccepted(world.plan[policy.commit], "mat")
    /\ RowsAccepted(world.manifest[policy.commit])
    /\ BuildAccepted(UnifiedBuild(policy, world))

\* A Cordis policy pins the paper and its text.
CordisBuild(policy, world) ==
    [plan |-> world.plan[policy.commit], documents |-> world.tree[policy.commit],
     homes |-> policy.homes, overrides |-> policy.overrides, expected |-> policy.expected,
     commit |-> policy.commit]
CordisLoads(policy, world) ==
    /\ Loader(policy) = "cordis"
    /\ world.pdf = policy.pdf /\ world.text = policy.text
    /\ CordisAccepted(CordisBuild(policy, world))

\* validate_catalog_compatible_mat_commit: a receipt of an older commit may
\* be replayed under a catalog when the manifest has not changed since.
CompatibleCommit(c, commit, world) ==
    \/ commit = c.origin
    \/ /\ <<commit, c.origin>> \in world.ancestors
       /\ world.manifest[commit] = c.manifest

-----------------------------------------------------------------------------
\* sync_active_catalog: what becomes of the heads of a profile when another
\* catalog is activated.  A head: task -> [bundle, fresh].
SyncAccepted(identified, profile, subjects) ==
    /\ Valid(identified)
    /\ profile # "mat"
    /\ DOMAIN subjects = Ids(identified.catalog)
Preserved(reviewed, subjects) ==
    {t \in DOMAIN reviewed \cap DOMAIN subjects : reviewed[t].bundle = subjects[t]}
SyncedReviewed(reviewed, subjects) ==
    [t \in DOMAIN reviewed |-> IF t \in Preserved(reviewed, subjects) THEN reviewed[t]
                               ELSE [reviewed[t] EXCEPT !.fresh = FALSE]]
SyncedCurrent(current, subjects) ==
    [t \in DOMAIN current \cup DOMAIN subjects |->
        IF t \in DOMAIN subjects THEN [bundle |-> subjects[t], fresh |-> TRUE] ELSE current[t]]

\* persist_catalog: an id is stored once, with one payload.
PersistAccepted(stored, identified) ==
    identified.id \in DOMAIN stored => stored[identified.id] = identified.catalog
Persisted(stored, identified) ==
    [i \in DOMAIN stored \cup {identified.id} |->
        IF i \in DOMAIN stored THEN stored[i] ELSE identified.catalog]
=============================================================================
