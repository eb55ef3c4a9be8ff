---------------------------- MODULE ExactBuilds ------------------------------
(***************************************************************************)
(* state_exact_build_batch: the tasks an operator selects are built        *)
(* together from a clean checkout of the catalog's MAT commit, and each    *)
(* gets an immutable receipt, which a review pack may reuse.               *)
(*                                                                         *)
(* A world is what the command reads: [catalog, main, head, dirty, tree,   *)
(* work], main the commit of origin/main, head and work the checkout's     *)
(* commit and files, tree the files of every commit.  A file is [text,     *)
(* crlf, token, builds, imports], token "code" or "comment" when it        *)
(* holds a forbidden word there.  The output directory is a function from  *)
(* tasks to receipts, or to Partial when a write was cut short.            *)
(***************************************************************************)
EXTENDS TaskCatalog, SequencesExt

CONSTANTS ModuleName(_)     \* the module of a path: "/" to ".", no ".lean"

\* Manifests of actions, by schema.
Resolved == "resolved-invalidation-action-manifest.v1"
Boundary34 == "ch3-4-boundary-delta-exact-build-action-manifest.v1"
Boundary914 == "ch9-14.boundary-delta-exact-build-action-manifest.v1"

Once(s) == FoldLeft(LAMBDA r, x : IF Contains(r, x) THEN r ELSE Append(r, x), <<>>, s)

\* _manifest_task_entries, on [id, modules, primary] ("" for none).
EntryId(e) == Canonical(e.id, "mat")
EntriesAccepted(entries) ==
    /\ entries # <<>>
    /\ \A k \in DOMAIN entries :
          LET e == entries[k]
          IN  /\ IsId(EntryId(e), "mat")
              /\ e.modules # <<>> /\ IsInjective(e.modules) /\ ~Contains(e.modules, "")
              /\ e.primary # "" => Contains(e.modules, e.primary)
    /\ \A j, k \in DOMAIN entries : EntryId(entries[j]) = EntryId(entries[k]) => j = k
EntryModules(entries) ==
    [t \in {EntryId(entries[k]) : k \in DOMAIN entries} |->
        ToSet(entries[CHOOSE k \in DOMAIN entries : EntryId(entries[k]) = t].modules)]
AllPrimary(entries) == \A k \in DOMAIN entries : entries[k].primary # ""

\* _declared_count.
Declares(m, key, actual) == key \in DOMAIN m.counts /\ m.counts[key] = actual

\* The actions of a ch3-4 manifest, [id, module, primary], spell its entries out.
ActionsAgree(m) ==
    LET owned == EntryModules(m.entries)
        Of(t) == SelectSeq(m.actions, LAMBDA a : Canonical(a.id, "mat") = t)
        PrimaryOf(t) == (CHOOSE e \in ToSet(m.entries) : EntryId(e) = t).primary
    IN  /\ \A k \in DOMAIN m.actions :
              LET t == Canonical(m.actions[k].id, "mat")
              IN  /\ t \in DOMAIN owned /\ m.actions[k].module # ""
                  /\ m.actions[k].primary = (m.actions[k].module = PrimaryOf(t))
        /\ \A t \in DOMAIN owned :
              LET listed == [k \in DOMAIN Of(t) |-> Of(t)[k].module]
              IN  ToSet(listed) = owned[t] /\ IsInjective(listed)

\* _action_manifest_entries.
ManifestAccepted(m) ==
    LET n == Len(m.entries)
        modules == FoldLeft(LAMBDA s, e : s + Len(e.modules), 0, m.entries)
    IN  /\ EntriesAccepted(m.entries)
        /\ m.commit # ""
        /\ CASE m.schema = Resolved ->
                   /\ AllPrimary(m.entries)
                   /\ Declares(m, "unique_exact_build_tasks", n)
                   /\ Declares(m, "unique_owned_modules", modules)
                   /\ Declares(m, "unique_primary_build_modules", n)
             [] m.schema = Boundary34 ->
                   /\ AllPrimary(m.entries) /\ ActionsAgree(m)
                   /\ Declares(m, "unique_exact_build_tasks", n)
                   /\ Declares(m, "unique_owned_modules", Len(m.actions))
             [] m.schema = Boundary914 -> Declares(m, "unique_combined_build_tasks", n)
             [] OTHER -> FALSE

\* collect_exact_build_selection, from the listed tasks and the manifests.
Listed(tasks, manifests) ==
    LET EntryIds(m) == [k \in DOMAIN m.entries |-> m.entries[k].id]
        all == tasks \o FlattenSeq([k \in DOMAIN manifests |-> EntryIds(manifests[k])])
    IN  Once([k \in DOMAIN all |-> Canonical(all[k], "mat")])
SelectionAccepted(tasks, manifests) ==
    /\ \A k \in DOMAIN manifests : ManifestAccepted(manifests[k])
    /\ \A j, k \in DOMAIN manifests :
          LET a == EntryModules(manifests[j].entries)  b == EntryModules(manifests[k].entries)
          IN  \A t \in DOMAIN a \cap DOMAIN b : a[t] = b[t]
    /\ Listed(tasks, manifests) # <<>>
    /\ \A t \in ToSet(Listed(tasks, manifests)) : IsId(t, "mat")
\* What the manifests say of the selected tasks' modules, and of the commit.
Expected(manifests) ==
    [commits |-> {manifests[k].commit : k \in DOMAIN manifests},
     modules |-> UNION {LET e == EntryModules(manifests[k].entries)
                        IN  {<<t, e[t]>> : t \in DOMAIN e} : k \in DOMAIN manifests}]

-----------------------------------------------------------------------------
\* catalog_owned_build_modules.
OwnedModules(c, t) ==
    {m.name : m \in {m \in c.modules : m.owner = t /\ m.role \in {"primary", "owned_support"}}}
PrimaryModules(c, t) ==
    {m.name : m \in {m \in c.modules : m.owner = t /\ m.role = "primary"}}
OnePrimary(c, tasks) ==
    \A t \in tasks : Cardinality({m \in c.modules : m.owner = t /\ m.role = "primary"}) = 1
PrimaryModule(c, t) == CHOOSE name \in PrimaryModules(c, t) : TRUE
PrimaryPath(c, t) == (CHOOSE x \in c.tasks : x.id = t).primary

\* A subject's files are their texts with line ends made alike
\* (canonical_subject_bytes); its id and hashes are the values they hash.
Texts(files, paths) == [p \in paths |-> files[p].text]
Bundle(c, t, kind, commit, files) ==
    [task |-> t, kind |-> kind, commit |-> commit, primary |-> PrimaryPath(c, t),
     files |-> Texts(files, OwnedPaths(c, t, TRUE))]
Inventoried(w, t) ==
    /\ PrimaryPath(w.catalog, t) \in OwnedPaths(w.catalog, t, TRUE)
    /\ OwnedPaths(w.catalog, t, TRUE) \subseteq DOMAIN w.tree[w.catalog.origin]
CatalogSubject(w, t) ==
    Bundle(w.catalog, t, "catalog_git_bundle", w.catalog.origin, w.tree[w.catalog.origin])

\* The token scan of an emission reads comments too.
ScanClean(files, paths) == \A p \in paths : files[p].token = "none"

\* A combined build of modules, in the checkout.
BuildPasses(w, modules) ==
    \A m \in modules : \E p \in DOMAIN w.work : ModuleName(p) = m /\ w.work[p].builds

Receipt(w, t, command, checkout, at) ==
    [schema |-> "exact-build", subject |-> CatalogSubject(w, t), command |-> command,
     primary |-> PrimaryModule(w.catalog, t), modules |-> OwnedModules(w.catalog, t),
     checkout |-> checkout, build |-> w.head, target |-> w.catalog.origin, at |-> at]

Partial == [schema |-> "unreadable"]

\* validate_current_exact_build_receipt; success, a clean scan and a clean
\* tree are in every receipt that is written.
ReceiptValid(r, subject, c, checkout) ==
    /\ r.schema = "exact-build"
    /\ r.subject = subject /\ subject.commit = c.origin
    /\ r.primary = PrimaryModule(c, subject.task)
    /\ r.modules = OwnedModules(c, subject.task) /\ r.modules \subseteq r.command
    /\ r.checkout = checkout
    /\ r.build = c.origin /\ r.target = c.origin

\* _revalidate_exact_tree: main, the checkout and the pin are one commit.
ExactTree(w, commit) == w.main = commit /\ w.head = commit /\ ~w.dirty

\* emit_current_exact_builds_batch, up to the first build.  q: [tasks,
\* expected, checkout, inside, size, skip].
EmitAccepted(q, w, out) ==
    LET c == w.catalog  tasks == ToSet(q.tasks)
    IN  /\ q.size > 0 /\ q.tasks # <<>> /\ ~q.inside
        /\ tasks \subseteq {x.id : x \in c.tasks}
        /\ q.expected.commits \subseteq {c.origin}
        /\ ExactTree(w, c.origin)
        /\ OnePrimary(c, tasks)
        /\ \A t \in tasks :
              /\ Inventoried(w, t)
              /\ PrimaryModule(c, t) = ModuleName(PrimaryPath(c, t))
        /\ \A x \in q.expected.modules : x[1] \in tasks /\ x[2] = OwnedModules(c, x[1])
        /\ \A t \in tasks \cap DOMAIN out :
              /\ q.skip
              /\ ReceiptValid(out[t], CatalogSubject(w, t), c, q.checkout)
Pending(q, out) == SelectSeq(q.tasks, LAMBDA t : t \notin DOMAIN out)

\* _chunks: the last may be shorter.
Chunks(s, size) ==
    [k \in 1..((Len(s) + size - 1) \div size) |->
        SubSeq(s, (k - 1) * size + 1, IF k * size < Len(s) THEN k * size ELSE Len(s))]

\* One chunk, in the world after its build; o: [out, on, left].  A receipt
\* takes two steps to write, of which left remain before a kill.
WriteReceipt(o, t, r) ==
    CASE o.left = 0 -> o
      [] o.left = 1 -> [o EXCEPT !.out = (t :> Partial) @@ @, !.left = 0]
      [] OTHER -> [o EXCEPT !.out = (t :> r) @@ @, !.left = @ - 2]
EmitChunk(o, chunk, q, start, after, at) ==
    LET c == start.catalog
        command == UNION {OwnedModules(c, t) : t \in ToSet(chunk)}
        files == start.tree[c.origin]
    IN  IF /\ o.on
           /\ BuildPasses(after, command)
           /\ \A t \in ToSet(chunk) : ScanClean(files, OwnedPaths(c, t, TRUE))
           /\ ExactTree(after, c.origin)
           /\ ToSet(chunk) \cap DOMAIN o.out = {}
        THEN FoldLeft(LAMBDA s, t : WriteReceipt(s, t, Receipt(start, t, command, q.checkout, at)),
                      o, chunk)
        ELSE [o EXCEPT !.on = FALSE]

\* The whole command: worlds[1] is read first and worlds[k + 1], the last one
\* from then on, after the build of chunk k; killed after n steps of writing.
Emitted(q, worlds, out, n, at) ==
    LET chunks == Chunks(Pending(q, out), q.size)
        After(k) == worlds[IF k + 1 < Len(worlds) THEN k + 1 ELSE Len(worlds)]
    IN  IF ~EmitAccepted(q, worlds[1], out) THEN out
        ELSE FoldLeft(LAMBDA o, k : EmitChunk(o, chunks[k], q, worlds[1], After(k), at),
                      [out |-> out, on |-> TRUE, left |-> n],
                      [k \in DOMAIN chunks |-> k]).out
=============================================================================
