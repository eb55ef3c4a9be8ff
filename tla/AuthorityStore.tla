---------------------------- MODULE AuthorityStore ----------------------------
(***************************************************************************)
(* What the workspace state database says about one task: the subjects a   *)
(* reviewer passed, the verified edges from one subject to another, the    *)
(* typed bindings that carry an author's decision, and the head of each    *)
(* repository.  The operations of WorkspaceStateStore (state_store) and    *)
(* the questions that are asked of it, as operators on a database value;   *)
(* EvidenceTools and StateRebuild say who calls them and when.             *)
(*                                                                         *)
(* A bundle is abstracted to what the code compares: the declarations of   *)
(* its primary file (body), the rest of that file's text (imports,         *)
(* comments), its paths (layout) and its support files.  One task is       *)
(* modelled, so every check that two records are of one task is met; its   *)
(* direct consumers are one other task of the same commit.                 *)
(***************************************************************************)
EXTENDS Naturals, FiniteSets, FiniteSetsExt

CONSTANTS
    Contents,    \* the bundles that are ever written
    None         \* no such value

Layouts == {"pack", "toy", "mat"}

ASSUME ContentsAssumption ==
    /\ Contents \subseteq [body : Nat, text : Nat, layout : Layouts, support : Nat]
    /\ None \notin BOOLEAN

(* A subject is a bundle observed at a commit of a repository; 0 is a      *)
(* worktree.                                                               *)
Subject(repo, commit, content) == [repo |-> repo, commit |-> commit, content |-> content]

Primary(content) == <<content.body, content.text>>

(* compare_bundles; support 0 is a bundle that names its primary file only. *)
Compare(from, to) ==
    IF from = to THEN "exact_bundle"
    ELSE IF Primary(from) # Primary(to) THEN "primary_delta"
    ELSE IF from.support = to.support THEN "path_only_relocation"
    ELSE IF from.support = 0 THEN "support_scope_unbound"
    ELSE "support_delta"

-----------------------------------------------------------------------------
(* The tables.  A review is identified by its subject and its evidence     *)
(* file, an edge by its ends and its kind, a binding by its target and     *)
(* its capability; a role has one head.                                    *)

Roles == {"mat_main", "unified_main"}

Capability ==
    [kenneth_git_author_exact           |-> "author_current_exact_acceptance",
     historical_review_apply_recovery   |-> "reviewed_source_mechanical_projection",
     mat_exact_review_apply             |-> "reviewed_source_mechanical_projection",
     mat_sync_author_attested_selection |-> "sync_author_attested_acceptance"]

EmptyDb ==
    [reviews |-> {}, edges |-> {}, bindings |-> {}, heads |-> [r \in Roles |-> None]]

(* A row; its id is made with the scope it was first written under.        *)
Review(ev, subject, verdict, scope, eligible, modern) ==
    [ev |-> ev, subject |-> subject, verdict |-> verdict, scope |-> scope,
     id |-> scope, eligible |-> eligible, modern |-> modern]

SameReview(r, q) == r.ev = q.ev /\ r.subject = q.subject

\* mutant: the row of the last writer.
RecordLatest(d, r) ==
    [d EXCEPT !.reviews = {q \in @ : ~SameReview(q, r)} \cup {r}]

(* record_review: a row that is there is replaced only by an eligible one   *)
(* over an ineligible one and keeps its id; its metadata is the last        *)
(* writer's, where that one has any.                                        *)
RecordReview(d, r) ==
    LET old == {q \in d.reviews : SameReview(q, r)}
        Merge(q) == [(IF r.eligible /\ ~q.eligible THEN r ELSE q)
                     EXCEPT !.id = q.id,
                            !.modern = IF r.modern = None THEN q.modern ELSE r.modern]
    IN  [d EXCEPT !.reviews = (@ \ old) \cup (IF old = {} THEN {r} ELSE {Merge(q) : q \in old})]

RecordReviews(d, rs) == FoldSet(LAMBDA r, acc : RecordReview(acc, r), d, rs)

Edge(source, target, kind, ev) ==
    [source |-> source, target |-> target, kind |-> kind, ev |-> ev]

SameEdge(e, x) == <<x.source, x.target, x.kind>> = <<e.source, e.target, e.kind>>

(* record_transformation, with a passing outcome: the last writer's         *)
(* evidence.  No writer records an outcome that is not a pass.              *)
RecordTransformation(d, e) ==
    [d EXCEPT !.edges = {x \in @ : ~SameEdge(e, x)} \cup {e}]

RecordTransformations(d, es) == FoldSet(LAMBDA e, acc : RecordTransformation(acc, e), d, es)

BridgeKind == "verified_evidence_bridge"

Binding(source, target, type, ev) ==
    [source |-> source, target |-> target, type |-> type, ev |-> ev]

BridgeEdge(b) == Edge(b.source, b.target, BridgeKind, b.ev)

(* What record_evidence_bridge_binding finds under an identity of its own.  *)
Collides(d, b) ==
    \/ \E x \in d.edges : SameEdge(BridgeEdge(b), x) /\ x # BridgeEdge(b)
    \/ \E x \in d.bindings :
           /\ x # b /\ x.target = b.target
           /\ Capability[x.type] = Capability[b.type] \/ x.ev = b.ev

\* mutant: both are inserted over what other evidence left there.
RecordBindingUnchecked(d, b) ==
    [d EXCEPT !.edges = @ \cup {BridgeEdge(b)}, !.bindings = @ \cup {b}]

(* record_evidence_bridge_binding: the edge and the binding together, or    *)
(* nothing; no review and no head.                                          *)
RecordBinding(d, b) ==
    IF Collides(d, b) THEN d
    ELSE [d EXCEPT !.edges = @ \cup {BridgeEdge(b)}, !.bindings = @ \cup {b}]

RecordBindings(d, bs) == FoldSet(LAMBDA b, acc : RecordBinding(acc, b), d, bs)

SetHead(d, role, subject) ==
    [d EXCEPT !.heads[role] = [subject |-> subject, fresh |-> TRUE]]

MarkStale(d, role) ==
    IF d.heads[role] = None THEN d ELSE [d EXCEPT !.heads[role].fresh = FALSE]

FreshHead(d, role) == d.heads[role] # None /\ d.heads[role].fresh

-----------------------------------------------------------------------------
(* The questions.                                                          *)

Eligible(r) == r.verdict = "pass" /\ r.eligible

(* Prompt 9 to 11 with rubric 9; a reviewed pull request has neither.      *)
Modern(r) == r.modern = TRUE

Authority(r) == Eligible(r) /\ (r.scope = "kenneth_pr_exact_head_review" \/ Modern(r))

\* mutant: the subject asked for must be the very target of the edge.
ReviewCoverageOfSubject(d, s) ==
    \/ \E r \in d.reviews : Authority(r) /\ r.subject.content = s.content
    \/ \E e \in d.edges : /\ e.target = s
                          /\ \E r \in d.reviews : Authority(r) /\ r.subject = e.source

(* review_coverage: a pass of the same bundle, or of the source of one     *)
(* passing edge to the same bundle, whatever the kind of the edge.         *)
ReviewCoverage(d, s) ==
    \/ \E r \in d.reviews : Authority(r) /\ r.subject.content = s.content
    \/ \E e \in d.edges : /\ e.target.content = s.content
                          /\ \E r \in d.reviews : Authority(r) /\ r.subject = e.source

(* valid_authority_bindings_v2; before the unification its predecessor,     *)
(* which knows MAT targets only, says the same of them.                     *)
ValidBindings(d) ==
    {b \in d.bindings :
        /\ b.target.repo \in {"mat", "unified"}
        /\ \E e \in d.edges : SameEdge(BridgeEdge(b), e)
        /\ ~\E r \in d.reviews : r.subject = b.target /\ r.ev = b.ev}

AuthorityCoverage(d, s) == \E b \in ValidBindings(d) : b.target = s

Covered(d, s) == ReviewCoverage(d, s) \/ AuthorityCoverage(d, s)

(* eligible_review_basis takes the latest of these.                         *)
EligibleBasis(d, ev, primary) ==
    {r \in d.reviews : r.ev = ev /\ Primary(r.subject.content) = primary /\ Eligible(r) /\ Modern(r)}

(* The recursive authority_reach of rebuild_invariants.  Bridges do not     *)
(* carry a review, and a subject is reached as itself, not by its bundle.   *)
Reach(d) ==
    LET steps == Cardinality(d.edges)
        hops[n \in 0..steps] ==
            IF n = 0 THEN {r.subject : r \in {q \in d.reviews : Eligible(q) /\ Modern(q)}}
            ELSE hops[n - 1] \cup {e.target : e \in {x \in d.edges :
                     x.kind # BridgeKind /\ x.source \in hops[n - 1]}}
    IN  hops[steps]

(* The required part of rebuild_invariants: the head of the catalog's own   *)
(* repository is there and covered, some compatible PASS is (eligible or    *)
(* not), and every binding is well formed.                                  *)
Required(d, role) ==
    /\ FreshHead(d, role)
    /\ \E r \in d.reviews : r.verdict = "pass" /\ Modern(r)
    /\ \/ d.heads[role].subject \in Reach(d)
       \/ AuthorityCoverage(d, d.heads[role].subject)
    /\ d.bindings = ValidBindings(d)
=============================================================================
