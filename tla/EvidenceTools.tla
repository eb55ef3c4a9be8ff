---------------------------- MODULE EvidenceTools ----------------------------
(***************************************************************************)
(* The commands that write one task's evidence files and the live state    *)
(* database: the review and its application in the three repositories a    *)
(* bundle is reviewed in, and the tools that emit immutable receipts which *)
(* only a rebuild reads (StateRebuild).  A command that writes a file and  *)
(* the database may be killed between the two.                             *)
(*                                                                         *)
(* Files are never deleted; each is a record with its kind and an id that  *)
(* stands for its hash.  Commits of the MAT repository are 1, 2, ...; the  *)
(* catalog is pinned at one of them, until the unification freezes it.     *)
(***************************************************************************)
EXTENDS AuthorityStore, Sequences

CONSTANTS
    MaxFiles,      \* bound: evidence files, the exact builds not counted
    MaxCommits     \* bound: commits of the MAT repository

VARIABLES
    mat,        \* [content, dep] of the task and its direct consumer, per commit
    pin,        \* the catalog's MAT commit
    unified,    \* the catalog is of the unified repository
    files,      \* the evidence on disk
    db          \* the live state database

toolVars == <<mat, pin, unified, files, db>>

Layout(l) == {c \in Contents : c.layout = l}

(* The subject of a live review-apply, and the one that is reconstructed   *)
(* from the same review's input, whose bundle does not say its repository. *)
Reviewed(c) == Subject("formalization_engine", 0, c)
FromInput(c) == Subject("input", 0, c)

Output(c) == Subject("formalization_engine", 0, [c EXCEPT !.layout = "toy"])
PullRequest(c) == Subject("kenneth", 0, c)
MatSubject(n) == Subject("mat", n, mat[n].content)
UnifiedSubject == Subject("unified", 1, mat[pin].content)

CurrentRole == IF unified THEN "unified_main" ELSE "mat_main"

-----------------------------------------------------------------------------
(* The evidence on disk.                                                   *)

Of(kind, F) == {f \in F : f.kind = kind}
NewId == Cardinality(files) + 1
Room == Cardinality(files \ Of("build", files)) < MaxFiles
Emit(f) == Room /\ files' = files \cup {f}
Built(F, n) == \E f \in Of("build", F) : f.commit = n

Result(id, subject, verdict, modern, legacy) ==
    [kind |-> "result", id |-> id, subject |-> subject, verdict |-> verdict,
     modern |-> modern, legacy |-> legacy, verify |-> FALSE]

IsPass(f) == f.kind = "result" /\ f.verdict = "pass"
InPack(f) == f.kind = "result" /\ f.subject.repo = "formalization_engine"

(* Every result and verify file of the pack, which a recovery receipt lists. *)
Observed(F) == {<<f.id, f.verify>> : f \in {g \in F : InPack(g)}}

(* What an independent reviewer passed or the author decided on.           *)
AuthorRoutes == {"kenneth_git_author_exact", "mat_sync_author_attested_selection"}
Vouched(F) ==
    {f.subject.content.body : f \in {g \in F : IsPass(g)}}
    \cup {f.target.content.body : f \in {g \in Of("bridge", F) : g.type \in AuthorRoutes}}

(* What every check of a transported bundle asks of it: the declarations   *)
(* and the support files; the rest of the text may differ.                 *)
SameDeclarations(c, d) == c.body = d.body /\ c.support = d.support

-----------------------------------------------------------------------------
(* Reviews and their application.                                          *)

(* An independent reviewer answers, under the current prompt.              *)
Answer(subject, verdict) ==
    /\ Emit(Result(NewId, subject, verdict, TRUE, FALSE))
    /\ UNCHANGED <<mat, pin, unified, db>>

Phase2Scope == "phase2_review_apply"
MatScope == "mat_final_exact_bundle_review"
PrScope == "kenneth_pr_exact_head_review"

(* record_review_apply_state, called once the verify result is written.  A *)
(* success under obsolete versions is refused before any row.              *)
ReviewApply(f, success, upto) ==
    LET s == f.subject
        out == Output(s.content)
        verified == IF success THEN (files \ {f}) \cup {[f EXCEPT !.verify = TRUE]} ELSE files
        row == Review(f.id, s, f.verdict, Phase2Scope, success, f.modern)
        edge == Edge(s, out, "review_apply_output_relocation", f.id)
        receipt == [kind |-> "phase2", id |-> NewId, ev |-> f.id, subject |-> s]
        new == success /\ upto = "receipt"
               /\ ~\E g \in Of("phase2", files) : g.ev = f.id
    IN  /\ InPack(f)
        /\ success => IsPass(f)
        /\ success /\ ~f.modern => upto = "verify"
        /\ ~success => upto = "review"
        /\ db' = CASE upto = "verify" -> db
                   [] upto = "review" -> RecordReview(db, row)
                   [] OTHER -> RecordTransformation(RecordReview(db, row), edge)
        /\ new => Room
        /\ files' = IF new THEN verified \cup {receipt} ELSE verified
        /\ UNCHANGED <<mat, pin, unified>>

(* The catalog review-apply of an exact MAT bundle: it looks at the head's *)
(* subject, not at its freshness, and makes it fresh.                      *)
MatApply(f, upto) ==
    LET s == MatSubject(pin)
        rowed == RecordReview(db, Review(f.id, s, f.verdict, MatScope, IsPass(f), TRUE))
        id == (CHOOSE r \in rowed.reviews : r.ev = f.id /\ r.subject = s).id
    IN  /\ f.kind = "result" /\ f.subject = s /\ f.modern
        /\ ~unified /\ pin = Len(mat)
        /\ db.heads["mat_main"] # None /\ db.heads["mat_main"].subject = s
        /\ db' = IF upto = "review" THEN rowed ELSE SetHead(rowed, "mat_main", s)
        /\ IF upto = "receipt" /\ IsPass(f) /\ ~\E g \in Of("mat", files) : g.ev = f.id
           THEN Emit([kind |-> "mat", id |-> NewId, ev |-> f.id, review |-> id, subject |-> s,
                      invalidated |-> FALSE])
           ELSE UNCHANGED files
        /\ UNCHANGED <<mat, pin, unified>>

(* Both ways to apply the review of an exact pull-request head: with a      *)
(* receipt, which is the evidence and is written first, or without.        *)
PrAdopt(f, upto) ==
    /\ IsPass(f) /\ f.subject.repo = "kenneth"
    /\ ~\E g \in Of("pr", files) : g.ev = f.id
    /\ Emit([kind |-> "pr", id |-> NewId, ev |-> f.id, subject |-> f.subject])
    /\ db' = IF upto = "receipt" THEN db
             ELSE RecordReview(db, Review(NewId, f.subject, "pass", PrScope, TRUE, None))
    /\ UNCHANGED <<mat, pin, unified>>

PrApply(f) ==
    /\ f.kind = "result" /\ f.subject.repo = "kenneth"
    /\ db' = RecordReview(db, Review(f.id, f.subject, f.verdict, PrScope, IsPass(f), None))
    /\ UNCHANGED <<mat, pin, unified, files>>

-----------------------------------------------------------------------------
(* The repositories and the heads.                                         *)

Commit(content, dep) ==
    /\ ~unified /\ Len(mat) < MaxCommits
    /\ mat' = Append(mat, [content |-> content, dep |-> dep])
    /\ UNCHANGED <<pin, unified, files, db>>

Pin ==
    /\ ~unified /\ pin < Len(mat)
    /\ pin' = Len(mat)
    /\ UNCHANGED <<mat, unified, files, db>>

Unify ==
    /\ ~unified /\ pin = Len(mat)
    /\ unified' = TRUE
    /\ UNCHANGED <<mat, pin, files, db>>

(* refresh_local_subjects: every role is stale until git has answered.     *)
MarkAllStale(d) == MarkStale(MarkStale(d, "mat_main"), "unified_main")
RefreshHeads(d) ==
    LET stale == SetHead(MarkAllStale(d), "mat_main", MatSubject(pin))
    IN  IF unified THEN SetHead(stale, "unified_main", UnifiedSubject) ELSE stale

Refresh(answered) ==
    /\ db' = IF answered THEN RefreshHeads(db) ELSE MarkAllStale(db)
    /\ UNCHANGED <<mat, pin, unified, files>>

-----------------------------------------------------------------------------
(* The receipts, none of which touches the database.                       *)

AtCurrentCommit == ~unified /\ pin = Len(mat)

EmitPath(r) ==
    /\ AtCurrentCommit
    /\ Eligible(r) /\ Modern(r)
    /\ Compare(r.subject.content, mat[pin].content) = "path_only_relocation"
    /\ Emit([kind |-> "path", id |-> NewId, review |-> r.id, ev |-> r.ev,
             source |-> r.subject, target |-> MatSubject(pin)])
    /\ UNCHANGED <<mat, pin, unified, db>>

(* A later result of the pack must be the same clean pass.                 *)
NoLaterConflict(f, F) ==
    \A g \in F : InPack(g) /\ g.id > f.id => IsPass(g) /\ g.subject = f.subject

Recovery(id, f, F) ==
    [kind |-> "recovery", id |-> id, ev |-> f.id, subject |-> FromInput(f.subject.content),
     seen |-> Observed(F)]

(* validate: the receipt is what would be built from the pack today.       *)
ValidRecovery(g, F) ==
    \E f \in F : /\ InPack(f) /\ IsPass(f) /\ f.modern /\ f.verify /\ NoLaterConflict(f, F)
                 /\ g = Recovery(g.id, f, F)

Recover(f) ==
    /\ InPack(f)
    /\ Emit(Recovery(NewId, f, files))
    /\ ValidRecovery(Recovery(NewId, f, files), files)
    /\ UNCHANGED <<mat, pin, unified, db>>

(* A person binds a review to a complete bundle; the declarations are      *)
(* checked by that person.                                                 *)
RebindRules == {"legacy_primary_scope_rebind", "verified_boundary_delta"}
BindScope(f, rule, c) ==
    /\ InPack(f) /\ IsPass(f)
    /\ IF rule = "verified_boundary_delta" THEN c.body = f.subject.content.body
       ELSE Primary(c) = Primary(f.subject.content)
    /\ Emit([kind |-> "scope", id |-> NewId, ev |-> f.id, primary |-> Primary(f.subject.content),
             rule |-> rule, subject |-> Subject("workspace", 0, c)])
    /\ UNCHANGED <<mat, pin, unified, db>>

(* The exact builds of the target and its consumer at the pinned commit.   *)
Build ==
    /\ AtCurrentCommit /\ ~Built(files, pin)
    /\ files' = files \cup {[kind |-> "build", id |-> NewId, commit |-> pin]}
    /\ UNCHANGED <<mat, pin, unified, db>>

IsScope(x, g) ==
    \/ x = g
    \/ x.kind = "scope" /\ x.rule = "legacy_primary_scope_rebind" /\ x.ev = g.ev
       /\ x.primary = Primary(g.subject.content)

EmitDelta(g, x) ==
    /\ AtCurrentCommit /\ Built(files, pin)
    /\ g.kind = "recovery" /\ ValidRecovery(g, files) /\ IsScope(x, g)
    /\ SameDeclarations(x.subject.content, mat[pin].content)
    /\ Emit([kind |-> "delta", id |-> NewId, recovery |-> g, scope |-> x,
             source |-> x.subject, target |-> MatSubject(pin), dep |-> mat[pin].dep])
    /\ UNCHANGED <<mat, pin, unified, db>>

(* What a bridge cites: nothing but the author's decision, a recovery or an *)
(* application that stands.                                                *)
IsAuthority(type, g, F) ==
    CASE type = "historical_review_apply_recovery" -> g.kind = "recovery" /\ ValidRecovery(g, F)
      [] type = "mat_exact_review_apply" -> g.kind = "mat" /\ ~g.invalidated
      [] OTHER -> g = [kind |-> "decision"]

EmitBridge(type, g, source) ==
    /\ AtCurrentCommit /\ Built(files, pin)
    /\ IsAuthority(type, g, files)
    /\ SameDeclarations(source.content, mat[pin].content)
    /\ Emit([kind |-> "bridge", id |-> NewId, type |-> type, authority |-> g,
             source |-> source, target |-> MatSubject(pin), dep |-> mat[pin].dep])
    /\ UNCHANGED <<mat, pin, unified, db>>

(* A dependency's change marks an application; the source tree only reads  *)
(* the mark.                                                               *)
Invalidate(g) ==
    /\ g.kind = "mat" /\ ~g.invalidated
    /\ files' = (files \ {g}) \cup {[g EXCEPT !.invalidated = TRUE]}
    /\ UNCHANGED <<mat, pin, unified, db>>

Resolve(g) ==
    /\ AtCurrentCommit /\ Built(files, pin)
    /\ g.kind = "mat" /\ g.invalidated /\ g.subject.content = mat[pin].content
    /\ Emit([kind |-> "resolved", id |-> NewId, ev |-> g.ev,
             target |-> MatSubject(pin), dep |-> mat[pin].dep])
    /\ UNCHANGED <<mat, pin, unified, db>>

(* plan_authority_routes: the one route by which the bundle of the frozen  *)
(* head has its authority, and the record it rests on.                     *)
Direct(c) == {r \in db.reviews : Eligible(r) /\ Modern(r) /\ r.subject.content = c}
Transformed(c) ==
    {p \in db.edges \X db.reviews :
        /\ p[1].kind # BridgeKind /\ p[1].target.content = c
        /\ Eligible(p[2]) /\ Modern(p[2]) /\ p[2].subject = p[1].source}
Typed(c) == {b \in ValidBindings(db) : b.target.repo = "mat" /\ b.target.content = c}

Batch(route, source, record) ==
    [kind |-> "batch", id |-> NewId, route |-> route, source |-> source, record |-> record,
     old |-> MatSubject(pin), new |-> UnifiedSubject]

Relocate ==
    LET c == mat[pin].content
    IN  /\ unified /\ FreshHead(db, "mat_main") /\ db.heads["mat_main"].subject = MatSubject(pin)
        /\ \/ /\ Transformed(c) = {} /\ Typed(c) = {}
              /\ \E r \in Direct(c) : Emit(Batch("direct_review", r.subject, None))
           \/ /\ Direct(c) = {} /\ Typed(c) = {}
              /\ \E p \in Transformed(c) :
                    Emit(Batch("validated_transformation", p[1].target, [edge |-> p[1], review |-> p[2].id, ev |-> p[2].ev]))
           \/ /\ Direct(c) = {} /\ Transformed(c) = {}
              /\ \E b \in Typed(c) : Emit(Batch("typed_evidence_bridge", b.source, [type |-> b.type]))
        /\ UNCHANGED <<mat, pin, unified, db>>

-----------------------------------------------------------------------------
Apply ==
    \E f \in files :
        \/ \E upto \in {"verify", "review", "edge", "receipt"}, success \in BOOLEAN :
               ReviewApply(f, success, upto)
        \/ \E upto \in {"review", "head", "receipt"} : MatApply(f, upto)
        \/ \E upto \in {"receipt", "review"} : PrAdopt(f, upto)
        \/ PrApply(f)

Reviewer ==
    \E verdict \in {"pass", "fail"} :
        \/ \E c \in Layout("pack") : Answer(Reviewed(c), verdict) \/ Answer(PullRequest(c), verdict)
        \/ AtCurrentCommit /\ Answer(MatSubject(pin), verdict)

Tool ==
    \/ \E r \in db.reviews : EmitPath(r)
    \/ \E f \in files :
           \/ Recover(f) \/ Invalidate(f) \/ Resolve(f)
           \/ \E rule \in RebindRules, c \in Layout("pack") : BindScope(f, rule, c)
           \/ \E x \in files : EmitDelta(f, x)
           \/ \E type \in DOMAIN Capability \ AuthorRoutes : EmitBridge(type, f, f.subject)
    \/ \E type \in AuthorRoutes, c \in Layout("pack") :
           EmitBridge(type, [kind |-> "decision"],
                      IF type = "kenneth_git_author_exact" THEN PullRequest(c) ELSE Reviewed(c))
    \/ Build
    \/ Relocate

Repository ==
    \/ \E c \in Layout("mat"), dep \in {0, 1} : Commit(c, dep)
    \/ Pin \/ Unify
    \/ \E answered \in BOOLEAN : Refresh(answered)
=============================================================================
