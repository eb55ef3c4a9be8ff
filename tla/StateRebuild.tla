----------------------------- MODULE StateRebuild -----------------------------
(***************************************************************************)
(* The canonical rebuild of the workspace state database from the evidence *)
(* on disk (rebuild_workspace_database), beside the commands that go on    *)
(* writing evidence and the live database (EvidenceTools).                 *)
(*                                                                         *)
(* A rebuild imports every kind of evidence in a fixed order into a        *)
(* temporary database; an import that is refused leaves what it wrote      *)
(* before.  The temporary database replaces the live one only if the       *)
(* required invariants hold of it; whatever the live one was given         *)
(* meanwhile is gone.                                                      *)
(***************************************************************************)
EXTENDS EvidenceTools

CONSTANTS Starts    \* records [mat, pin, unified, files] a history can have left

VARIABLES temp      \* the rebuild under way: [db, role, inventory], or None

vars == <<toolVars, temp>>

-----------------------------------------------------------------------------
(* What an import asks of evidence about a MAT commit.                     *)

\* mutant: an older commit, whatever its bundle.
ForwardsAnyBundle(target) == target.repo = "mat" /\ target.commit <= pin

(* _active_exact_content_target: the pinned commit's bundle, or the same    *)
(* bundle at an ancestor.                                                   *)
Forwards(target) ==
    target.repo = "mat" /\ target.commit <= pin /\ target.content = mat[pin].content

(* _require_current_build_for_changed_consumers, for the one consumer.     *)
ConsumersCurrent(f, F) ==
    f.target.commit = pin \/ f.dep = mat[pin].dep \/ Built(F, pin)

Stands(d, ev, subject, id) ==
    \E r \in d.reviews : r.ev = ev /\ r.subject = subject /\ r.id = id /\ Eligible(r) /\ Modern(r)

RecoveryScope == "historical_review_apply_recovery"
ResolvedScope == "resolved_invalidation_current_exact_recovery"

-----------------------------------------------------------------------------
(* The imports, in their order.                                            *)

ImportPr(d, F) ==
    RecordReviews(d, {Review(g.id, g.subject, "pass", PrScope, TRUE, None) : g \in Of("pr", F)})

ImportRecoveries(d, F) ==
    RecordReviews(d, {Review(g.ev, g.subject, "pass", RecoveryScope, TRUE, TRUE) :
                          g \in {x \in Of("recovery", F) : ValidRecovery(x, F)}})

ImportMat(d, F) ==
    RecordReviews(d, {Review(g.ev, g.subject, "pass", MatScope, TRUE, TRUE) :
                          g \in {x \in Of("mat", F) : ~x.invalidated}})

\* mutant: the edge is recorded before the review and takes it along.
ImportPhase2EdgeFirst(d, F) == d

(* The row only: the edge and the heads are lost to the TypeError of a      *)
(* record_transformation that is called with created_at.                    *)
ImportPhase2(d, F) ==
    RecordReviews(d, {Review(g.ev, g.subject, "pass", Phase2Scope, TRUE, TRUE) : g \in Of("phase2", F)})

(* import_review_file, under the subject it can reconstruct; eligible only  *)
(* where a frozen JSON ledger says it was applied.                          *)
ImportResults(d, F) ==
    RecordReviews(d, {Review(f.id, IF InPack(f) THEN FromInput(f.subject.content) ELSE f.subject,
                             f.verdict, "semantic_review", f.legacy /\ IsPass(f), f.modern) :
                          f \in Of("result", F)})

ImportScopes(d, F) ==
    RecordReviews(d, {Review(g.id, g.subject, "pass", "workspace_bundle_rebind", TRUE, TRUE) :
                          g \in {x \in Of("scope", F) : EligibleBasis(d, x.ev, x.primary) # {}}})

ImportResolved(d, F) ==
    RecordReviews(d, {Review(g.ev, MatSubject(pin), "pass", ResolvedScope, TRUE, TRUE) :
                          g \in {x \in Of("resolved", F) : Forwards(x.target) /\ ConsumersCurrent(x, F)}})

ImportPaths(d, F) ==
    RecordTransformations(d,
        {Edge(g.source, MatSubject(pin), "path_relocation", g.id) :
            g \in {x \in Of("path", F) :
                      /\ Stands(d, x.ev, x.source, x.review) /\ Forwards(x.target)
                      /\ Compare(x.source.content, x.target.content) = "path_only_relocation"}})

(* The reviewed source of a delta is the recovery's own row, or a binding's *)
(* whose basis is that row.                                                 *)
BoundToRecovery(d, g) ==
    IF g.scope = g.recovery THEN Stands(d, g.recovery.ev, g.source, RecoveryScope)
    ELSE /\ Stands(d, g.scope.id, g.source, "workspace_bundle_rebind")
         /\ \E r \in EligibleBasis(d, g.scope.ev, g.scope.primary) : r.id = RecoveryScope

ImportDeltas(d, F) ==
    RecordTransformations(d,
        {Edge(g.source, MatSubject(pin), "verified_boundary_delta", g.id) :
            g \in {x \in Of("delta", F) :
                      /\ ValidRecovery(x.recovery, F) /\ BoundToRecovery(d, x)
                      /\ Forwards(x.target) /\ ConsumersCurrent(x, F)}})

(* A decision of the author's is attached to the active target itself; the *)
(* other types keep their reviewed source.                                 *)
SourceStands(d, g) ==
    CASE g.type = "historical_review_apply_recovery" -> Stands(d, g.authority.ev, g.source, RecoveryScope)
      [] g.type = "mat_exact_review_apply" -> Stands(d, g.authority.ev, g.source, g.authority.review)
      [] OTHER -> TRUE

ImportBridges(d, F) ==
    RecordBindings(d,
        {Binding(IF g.type \in AuthorRoutes THEN MatSubject(pin) ELSE g.source,
                 MatSubject(pin), g.type, g.id) :
            g \in {x \in Of("bridge", F) :
                      /\ x.type \in AuthorRoutes \/ x.authority \in F
                      /\ IsAuthority(x.type, x.authority, F) /\ SourceStands(d, x)
                      /\ Forwards(x.target) /\ ConsumersCurrent(x, F)}})

(* replay_authority_relocation_batch: all of a batch or nothing of it.     *)
Known(d) ==
    {r.subject : r \in d.reviews} \cup {e.source : e \in d.edges} \cup {e.target : e \in d.edges}
    \cup {d.heads[role].subject : role \in {x \in Roles : d.heads[x] # None}}

ReplayBatch(d, g) ==
    LET known == {g.old, g.source, g.new} \subseteq Known(d)
                 /\ FreshHead(d, "unified_main") /\ d.heads["unified_main"].subject = g.new
                 /\ g.old.content = g.new.content
        moved == Edge(g.source, g.new, "repository_relocation", g.id)
        bound == Binding(g.source, g.new, g.record.type, g.id)
        edge == g.record.edge
        based == /\ \E r \in d.reviews : r.subject = edge.source /\ r.ev = g.record.ev /\ r.id = g.record.review
                 /\ \A x \in d.edges : SameEdge(edge, x) => x = edge
    IN  IF ~known THEN d
        ELSE CASE g.route = "direct_review" -> RecordTransformation(d, moved)
               [] g.route = "validated_transformation" ->
                    IF based THEN RecordTransformation(RecordTransformation(d, edge), moved) ELSE d
               [] OTHER -> RecordBinding(d, bound)

ImportBatches(d, F) ==
    FoldSet(LAMBDA g, acc : ReplayBatch(acc, g), d, Of("batch", F))

Import(F) ==
    LET reviews == ImportScopes(ImportResults(ImportPhase2(ImportMat(
                       ImportRecoveries(ImportPr(EmptyDb, F), F), F), F), F), F)
        resolved == ImportResolved(RefreshHeads(reviews), F)
    IN  ImportBatches(ImportBridges(ImportDeltas(ImportPaths(resolved, F), F), F), F)

-----------------------------------------------------------------------------
(* What the commands can have left on disk: ids are given out in order,    *)
(* and a file says of the bundles in it what its command checked.          *)

ReviewSubjects ==
    [repo : {"formalization_engine", "kenneth"}, commit : {0}, content : Layout("pack")]
    \cup [repo : {"mat"}, commit : Nat, content : Layout("mat")]

Results ==
    [kind : {"result"}, id : Nat, subject : ReviewSubjects, verdict : {"pass", "fail"},
     modern : BOOLEAN, legacy : BOOLEAN, verify : BOOLEAN]

Passes(ev, F) == {f \in F : IsPass(f) /\ f.id = ev}

(* A transformation keeps the declarations; one to a bundle in the MAT     *)
(* layout keeps the bundle or comes from outside of that layout.           *)
EdgeSound(e) ==
    /\ e.source.content.body = e.target.content.body
    /\ e.kind # BridgeKind /\ e.target.content.layout = "mat" =>
          e.source.content = e.target.content \/ e.source.content.layout # "mat"

BatchSound(g, F) ==
    /\ g.old.content = g.new.content /\ g.new.content.layout = "mat"
    /\ CASE g.route = "direct_review" -> g.source.content = g.new.content
         [] g.route = "validated_transformation" ->
              /\ g.source = g.record.edge.target /\ g.source.content = g.new.content
              /\ EdgeSound(g.record.edge)
         [] OTHER -> /\ g.source.content.body = g.new.content.body
                     /\ g.new.content.body \in Vouched(F)

FileSound(g, F) ==
    /\ g.kind = "result" => g \in Results
    /\ g.kind \in {"pr", "phase2", "mat"} => \E f \in Passes(g.ev, F) : f.subject = g.subject
    /\ g.kind \in {"phase2", "mat", "resolved"} => \E f \in Passes(g.ev, F) : f.modern
    /\ g.kind = "mat" => DOMAIN g = {"kind", "id", "ev", "review", "subject", "invalidated"}
    /\ g.kind = "resolved" => g.target.content.body \in Vouched(F)
    /\ g.kind = "path" => g.source.content \in Contents
    /\ g.kind = "scope" =>
          g.subject.content \in Layout("pack") /\ g.subject.content.body \in Vouched(F)
    /\ g.kind = "delta" =>
          g.source.content.layout = "pack" /\ SameDeclarations(g.source.content, g.target.content)
    /\ g.kind = "bridge" =>
          g.type \in DOMAIN Capability /\ SameDeclarations(g.source.content, g.target.content)
    /\ g.kind = "batch" => BatchSound(g, F)

Evidence(F) ==
    /\ IsFiniteSet(F)
    /\ \A f \in F : f.id \in 1..Cardinality(F) /\ FileSound(f, F)
    /\ \A f, g \in F : f.id = g.id => f = g

Repositories == Seq([content : Layout("mat"), dep : {0, 1}])

ASSUME StartsAssumption ==
    \A s \in Starts : /\ s.mat \in Repositories /\ s.pin \in 1..Len(s.mat)
                      /\ s.unified \in BOOLEAN
                      /\ Evidence(s.files)

-----------------------------------------------------------------------------
(* The live database of a start is what the last rebuild made of its       *)
(* evidence, or an empty one whose heads were refreshed.                   *)
Init ==
    /\ \E s \in Starts : mat = s.mat /\ pin = s.pin /\ unified = s.unified /\ files = s.files
    /\ db = IF Required(Import(files), CurrentRole) THEN Import(files) ELSE RefreshHeads(EmptyDb)
    /\ temp = None

RebuildBegin ==
    /\ temp = None
    /\ Required(Import(files), CurrentRole)
    /\ temp' = [db |-> Import(files), role |-> CurrentRole, inventory |-> files]
    /\ UNCHANGED toolVars

RebuildSwap ==
    /\ temp # None
    /\ db' = temp.db
    /\ temp' = None
    /\ UNCHANGED <<mat, pin, unified, files>>

RebuildDies ==
    /\ temp # None
    /\ temp' = None
    /\ UNCHANGED toolVars

Next ==
    \/ Reviewer /\ UNCHANGED temp
    \/ Apply /\ UNCHANGED temp
    \/ Tool /\ UNCHANGED temp
    \/ Repository /\ UNCHANGED temp
    \/ RebuildBegin \/ RebuildSwap \/ RebuildDies

Spec == Init /\ [][Next]_vars

-----------------------------------------------------------------------------
TypeOK ==
    /\ pin \in 1..Len(mat) /\ unified \in BOOLEAN
    /\ \A n \in 1..Len(mat) : mat[n].content \in Contents
    /\ \A f, g \in files : f.id = g.id => f = g
    /\ \A d \in {db} \cup (IF temp = None THEN {} ELSE {temp.db}) :
          /\ \A r, q \in d.reviews : SameReview(r, q) => r = q
          /\ \A e, x \in d.edges : SameEdge(e, x) => e = x
          /\ \A b, x \in d.bindings : b.target = x.target /\ Capability[b.type] = Capability[x.type] => b = x

(* Authority never reaches declarations that nobody accepted: whatever     *)
(* subject the live database reports as covered, an independent reviewer   *)
(* passed its declarations or the author decided on them, over all edges,  *)
(* relocations, commit-forwards and rebuilds.                              *)
Grounded ==
    \A s \in Known(db) : Covered(db, s) => s.content.body \in Vouched(files)

(* No command takes authority from a review that has it: a replay of an    *)
(* older outcome, a failing one, or an upsert under a weaker scope.        *)
EligibilityKept ==
    [][~RebuildSwap =>
         \A r \in db.reviews : Authority(r) =>
             \E q \in db'.reviews : SameReview(q, r) /\ Authority(q)]_vars

(* A rebuild keeps the authority of every review for which a receipt was   *)
(* on disk when it took its inventory.                                     *)
Receipted(r, F) ==
    \/ \E g \in Of("phase2", F) \cup {x \in Of("mat", F) : ~x.invalidated} :
           g.ev = r.ev /\ g.subject = r.subject
    \/ \E g \in Of("pr", F) : g.id = r.ev

ReceiptsSurvive ==
    [][RebuildSwap =>
         \A r \in db.reviews : Authority(r) /\ Receipted(r, temp.inventory) =>
             \E q \in db'.reviews : SameReview(q, r) /\ Authority(q)]_vars

(* The head that a rebuild required to be covered, over any chain of       *)
(* transformations, the status commands report as covered, over one.       *)
RebuildIsReported ==
    [][RebuildSwap => Covered(db', temp.db.heads[temp.role].subject)]_vars
=============================================================================
