----------------------------- MODULE BatchRunner -----------------------------
(***************************************************************************)
(* The batch scheduler over several tasks: phase2_batch_runner plans from  *)
(* the ledger rows, phase2_batch_controller decides which rows are clean   *)
(* and which are blocked by a dependency, phase2_dependency_gate lets the  *)
(* owner freeze an early task as a dependency without a review.            *)
(*                                                                         *)
(* A batch-run computes its plan once and then awaits its actions one by   *)
(* one; reviewers, other commands and people change the same rows in       *)
(* between.  A review, a repair loop and a review-apply, which have        *)
(* modules of their own, are single steps here with their outcomes, those  *)
(* of a review-apply that dies between its transactions included; what a   *)
(* kill inside the promotion leaves (an undo log) is ReviewApply's.        *)
(*                                                                         *)
(* Left out: obligation children and their parents (retired), section      *)
(* introductions, the allowed beyond-book tasks, and the queue's ranking.  *)
(***************************************************************************)
EXTENDS Naturals, FiniteSets, FiniteSetsExt

CONSTANTS
    Tasks,       \* tasks, numbered so that a dependency has a smaller number
    Planned,     \* hard dependencies of each task in its ledger row at the start
    Replanned,   \* the dependencies Phase 1 gives it later
    Chapters1to4,\* tasks the owner may freeze
    Starts,      \* what kind of row each task has at the start: a set of functions
    None,        \* no such value
    MaxActions,  \* --batch-max-actions
    MaxVersions, \* bound on the contents of one canonical file; 0 is no file
    MaxEvents    \* bound on what people and other commands do

Kinds == {"new", "in review", "landed", "imported", "legacy class", "triaged", "debt",
          "exhausted", "frozen", "decided"}

ASSUME BatchAssumption ==
    /\ Tasks \subseteq Nat /\ IsFiniteSet(Tasks)
    /\ \A t \in Tasks : \A D \in {Planned[t], Replanned[t]} :
            D \subseteq {d \in Tasks : d < t}
    /\ Chapters1to4 \subseteq Tasks
    /\ Starts \subseteq [Tasks -> Kinds]
    /\ \A k \in Starts : {t \in Tasks : k[t] \in {"frozen", "decided"}} \subseteq Chapters1to4
    /\ None \notin {"pass", "fail", "blocked", "stale", "unclassified"}
    /\ MaxActions \in Nat \ {0} /\ MaxVersions \in Nat \ {0, 1} /\ MaxEvents \in Nat

VARIABLES
    row,        \* the tasks' ledger rows
    canon,      \* version of each task's canonical file
    request,    \* each task's current review request, with the reviewer's answer
    diagnosis,  \* the read-only diagnoser's result in the task's pack
    decided,    \* tasks whose source/statement decision is resolved
    math,       \* state of the task's Math Review Gate
    frozen,     \* frozen-dependency fields of the ledger row
    head,       \* frozen_dependency head of the state database
    built,      \* bases with build evidence that the state database knows
    decision,   \* tasks whose owner decision file is in place
    queue,      \* planned actions the batch-run has not taken yet
    left,       \* how many more it may take
    events,     \* how much people and other commands have done
    passed,     \* history: versions and dependencies an independent reviewer passed
    accepted,   \* history: the basis the owner accepted last and has not revoked
    disturbed   \* history: something else happened since the plan was made

batch == <<queue, left>>
gate == <<frozen, head, built, decision>>
pack == <<diagnosis, decided, math>>
vars == <<row, canon, request, pack, gate, batch, events, passed, accepted, disturbed>>

(* A task not started, one whose first candidate is under review, one that *)
(* landed with its review (perhaps with a class no longer legal), one      *)
(* completed before there was a review-apply, one whose review ended in a  *)
(* triage, one left by an old campaign as accepted proof debt, one whose   *)
(* repair loop used up its budget, one the owner froze although its review *)
(* failed, and one he decided to freeze again after he revoked an older    *)
(* version.                                                                *)
NewRow(t) ==
    [status |-> "DISCOVERED", claim |-> None, deps |-> Planned[t], receipt |-> None,
     class |-> "ok", hist |-> None, reconciled |-> FALSE, bound |-> FALSE,
     stop |-> None, verify |-> None, triage |-> FALSE]

BasisOf(rw, cn, t) ==
    [own |-> rw[t].status, file |-> cn[t],
     up |-> {<<d, rw[d].status, cn[d]>> : d \in rw[t].deps}]

StartRow(t, kind) ==
    CASE kind = "new"    -> NewRow(t)
      [] kind = "landed" -> [NewRow(t) EXCEPT !.status = "COMPLETED", !.claim = "pass", !.hist = "pass"]
      [] kind = "in review" -> [NewRow(t) EXCEPT !.status = "PACKED",
                                                 !.verify = "codex_review_required"]
      [] kind = "imported" -> [NewRow(t) EXCEPT !.status = "COMPLETED"]
      [] kind = "legacy class" -> [NewRow(t) EXCEPT !.status = "COMPLETED", !.claim = "pass",
                                                    !.hist = "pass", !.class = "illegal"]
      [] kind = "triaged" -> [NewRow(t) EXCEPT !.status = "PACKED", !.claim = "fail", !.hist = "fail",
                                               !.verify = "failed", !.triage = TRUE]
      [] kind = "debt"   -> [NewRow(t) EXCEPT !.status = "COMPLETED_WITH_PROOF_DEBT", !.claim = "fail",
                                              !.hist = "fail"]
      [] kind = "exhausted" -> [NewRow(t) EXCEPT !.status = "FAILED_LOCAL", !.claim = "fail",
                                                 !.hist = "fail", !.verify = "failed",
                                                 !.stop = "exhausted"]
      [] kind \in {"frozen", "decided"} -> [NewRow(t) EXCEPT !.claim = "fail", !.hist = "fail"]

Init ==
    /\ \E k \in Starts :
        LET rw == [t \in Tasks |-> StartRow(t, k[t])]
            Of(kinds) == {t \in Tasks : k[t] \in kinds}
            Froze(t) == [file |-> canon[t], up |-> {<<d, canon[d]>> : d \in Planned[t]}]
            Tip(t) == CASE k[t] = "frozen"  -> Froze(t)
                        [] k[t] = "decided" -> [Froze(t) EXCEPT !.file = 1]
                        [] OTHER            -> None
        IN  /\ canon = [t \in Tasks |-> CASE k[t] \in {"new", "in review", "triaged", "exhausted"} -> 0
                                         [] k[t] = "decided" -> 2
                                         [] OTHER            -> 1]
            /\ row = [t \in Tasks |->
                        IF rw[t].claim = "pass"
                        THEN [rw[t] EXCEPT !.bound = TRUE,
                                           !.receipt = [origin |-> BasisOf(rw, canon, t),
                                                        post |-> BasisOf(rw, canon, t)]]
                        ELSE rw[t]]
            /\ request = [t \in Tasks |->
                    IF k[t] = "in review"
                    THEN [subject |-> 1, basis |-> BasisOf(rw, canon, t), answer |-> None]
                    ELSE None]
            /\ passed = {<<t, 1, rw[t].deps>> : t \in Of({"landed"})}
            /\ math = [t \in Tasks |-> IF k[t] = "triaged" THEN "missing_review" ELSE "not_required"]
            /\ decision = Of({"frozen", "decided"})
            /\ built = {<<t, Froze(t)>> : t \in Of({"frozen", "decided"})}
            /\ accepted = [t \in Tasks |-> IF k[t] = "frozen" THEN Tip(t) ELSE None]
            /\ frozen = [t \in Tasks |-> [active |-> k[t] = "frozen", tip |-> Tip(t),
                                          revoked |-> k[t] = "decided"]]
            /\ head = [t \in Tasks |-> IF Tip(t) = None THEN None
                                       ELSE [receipt |-> Tip(t), fresh |-> k[t] = "frozen"]]
    /\ diagnosis = [t \in Tasks |-> None] /\ decided = {}
    /\ queue = {} /\ left = 0 /\ events = 0 /\ disturbed = FALSE

-----------------------------------------------------------------------------
(* What the batch reads of one task.                                       *)

Basis(t) == BasisOf(row, canon, t)
Answered(t) == request[t] # None /\ request[t].answer # None
Official(t) == canon[t] > 0

(* compute_frozen_dependency_basis: the task's own file, its dependencies  *)
(* and their files, but nobody's ledger status.                            *)
FrozenBasis(t) == [file |-> canon[t], up |-> {<<d, canon[d]>> : d \in row[t].deps}]

Computable(t) == t \in Chapters1to4 /\ \A d \in row[t].deps \cup {t} : Official(d)

FrozenPass(t) ==
    /\ frozen[t].active /\ ~frozen[t].revoked
    /\ t \in decision
    /\ Computable(t) /\ frozen[t].tip = FrozenBasis(t)
    /\ <<t, FrozenBasis(t)>> \in built
    /\ head[t] = [receipt |-> FrozenBasis(t), fresh |-> TRUE]

\* mutant: a receipt is believed whatever the files have become.
FreshByReceipt(t) ==
    IF row[t].receipt = None THEN Answered(t) /\ request[t].basis = Basis(t)
    ELSE IF Answered(t) THEN request[t].basis = row[t].receipt.origin ELSE row[t].bound

(* _current_review_authority_projection: what is left of a claimed pass.   *)
(* The result it reads is the answer to the current request, if there is   *)
(* one, and otherwise the one applied last, which has to be the one the    *)
(* receipt was written for (bound).  A review that left the official       *)
(* output in need of repair was applied after that one, so the row's flag  *)
(* for it forbids nothing more.                                            *)
Fresh(t) ==
    IF row[t].receipt = None THEN Answered(t) /\ request[t].basis = Basis(t)
    ELSE /\ IF Answered(t) THEN request[t].basis = row[t].receipt.origin ELSE row[t].bound
         /\ Basis(t) = row[t].receipt.post

Authority(t) ==
    IF row[t].claim # "pass" THEN None
    ELSE IF ~Fresh(t) THEN "stale"
    ELSE IF Answered(t) /\ request[t].answer # "pass" THEN request[t].answer
    ELSE IF ~Answered(t) /\ row[t].class = "illegal" THEN "unclassified"
    ELSE IF Answered(t) \/ row[t].receipt = None THEN "stale"
    ELSE "pass"

(* _batch_task_from_ledger_record.                                         *)
Declared(t) ==
    IF FrozenPass(t) THEN "COMPLETED"
    ELSE IF row[t].status \in {"COMPLETED", "COMPLETED_WITH_PROOF_DEBT", "FAILED_LOCAL"}
         THEN row[t].status ELSE "NONTERMINAL"

Phase2Status(t) ==
    IF FrozenPass(t) THEN "pass"
    ELSE IF Authority(t) = "stale" THEN "needs_fresh_review"
    ELSE IF Authority(t) = "unclassified" THEN "fail"
    ELSE IF Authority(t) # None THEN Authority(t)
    ELSE IF row[t].reconciled THEN "needs_fresh_review"
    ELSE row[t].claim

Unclassified(t) == ~FrozenPass(t) /\ Authority(t) = "unclassified"

(* _task_level_projection_from_raw: without a status to go by the task     *)
(* gets the one that the verdict in its row classifies to, or else the     *)
(* verdict of its newest result file, applied or not.                      *)
TaskStatus(t) ==
    IF Phase2Status(t) \in {"pass", "fail", "blocked"} THEN Phase2Status(t)
    ELSE IF Authority(t) # None THEN None
    ELSE IF row[t].claim # None THEN row[t].claim
    ELSE IF Answered(t) THEN request[t].answer
    ELSE IF row[t].class = "illegal" /\ row[t].hist # None THEN "fail"
    ELSE row[t].hist

Consumable(t) == Declared(t) = "COMPLETED" /\ (FrozenPass(t) \/ Authority(t) = "pass")

-----------------------------------------------------------------------------
(* analyze_batch_state.                                                    *)

(* Everything a task depends on: the least set that has its dependencies  *)
(* and theirs.                                                             *)
Under ==
    [t \in Tasks |->
        {d \in Tasks : \A S \in SUBSET Tasks :
            row[t].deps \subseteq S /\ (\A e \in S : row[e].deps \subseteq S) => d \in S}]

HardFailed == {t \in Tasks : Declared(t) = "FAILED_LOCAL" /\ row[t].stop = "exhausted"}

ProofDebt == {t \in Tasks : Declared(t) = "COMPLETED_WITH_PROOF_DEBT"}

\* mutant: a dependency opens by the status its ledger row claims.
BlockingByClaim ==
    {t \in Tasks : row[t].status # "COMPLETED" \/ row[t].claim # "pass"
                   \/ Phase2Status(t) = "needs_fresh_review"}

(* _phase2_blocking_roots: closed unless proved open.                      *)
Blocking ==
    {t \in Tasks :
        /\ ~(/\ Declared(t) = "COMPLETED_WITH_PROOF_DEBT"
             /\ TaskStatus(t) \notin {"fail", "blocked"}
             /\ Phase2Status(t) # "needs_fresh_review" /\ ~Unclassified(t))
        /\ ~(/\ Declared(t) = "COMPLETED" /\ TaskStatus(t) = "pass"
             /\ Phase2Status(t) # "needs_fresh_review" /\ ~Unclassified(t))}

\* mutant: only the direct dependencies can block.
GatedDirectly(t) == row[t].deps \cap (HardFailed \cup Blocking \cup ProofDebt) # {}

Gated(t) == Under[t] \cap (HardFailed \cup Blocking \cup ProofDebt) # {}

RowStatus(t) == IF Gated(t) THEN "blocked" ELSE TaskStatus(t)

ReportStatus(t) ==
    LET said == IF Phase2Status(t) \in {"pass", "fail", "blocked"} THEN TaskStatus(t)
                ELSE Phase2Status(t)
        own  == IF TaskStatus(t) = "fail" /\ Unclassified(t) THEN "needs_class_normalization"
                ELSE IF said = None THEN TaskStatus(t)
                ELSE said
    IN  IF Gated(t)
        THEN IF TaskStatus(t) = "pass" \/ own \in {"pass", "needs_fresh_review"}
             THEN "needs_fresh_review" ELSE "blocked"
        ELSE IF TaskStatus(t) = None /\ Declared(t) = "COMPLETED" THEN "needs_fresh_review"
        ELSE own

(* clean_or_allowed_exception, without the exceptions.                     *)
Clean(t) == Declared(t) = "COMPLETED" /\ RowStatus(t) = "pass"

(* A dependency that waits for a diagnoser keeps its dependents waiting,   *)
(* unless it has authority or is itself only waiting for its dependencies: *)
(* the pass applied last is stale for another reason than its own file.    *)
NeedsDiagnosis(t) ==
    /\ ~Consumable(t)
    /\ ~(/\ row[t].receipt # None /\ row[t].bound /\ row[t].class = "ok" /\ ~Answered(t)
         /\ Authority(t) = "stale" /\ canon[t] = row[t].receipt.post.file
         /\ Under[t] \cap Blocking # {})
    /\ diagnosis[t] = None
    /\ row[t].stop = "diagnoser_required" \/ row[t].triage

Pending(t) == request[t] # None /\ request[t].answer = None

(* Any complete diagnoser result in the pack answers every later triage.   *)
Diagnosed(t) ==
    diagnosis[t] # None /\ (row[t].stop = "diagnoser_required" \/ row[t].triage)

ReviewOrRestore(t) == IF Official(t) THEN "review_existing" ELSE "restore_or_rebuild_output"

(* _action_for_row, its tests in their order.                              *)
ActionFor(t) ==
    IF Clean(t) THEN "none"
    ELSE IF Declared(t) = "COMPLETED_WITH_PROOF_DEBT" THEN ReviewOrRestore(t)
    ELSE IF (\E d \in Under[t] : NeedsDiagnosis(d)) \/ Gated(t) THEN "skip_blocked"
    ELSE IF RowStatus(t) = "blocked" THEN "blocked"
    ELSE IF Pending(t) /\ request[t].basis = Basis(t) THEN "reviewer_required"
    ELSE IF Pending(t) /\ Official(t) THEN "review_existing"
    ELSE IF /\ ReportStatus(t) = "needs_fresh_review" /\ Authority(t) = "stale"
            /\ row[t].verify # "failed" /\ Official(t)
         THEN "review_existing"
    ELSE IF row[t].stop = "diagnoser_required" /\ diagnosis[t] = None THEN "diagnoser_required"
    ELSE IF row[t].triage /\ diagnosis[t] = None THEN "diagnoser_required"
    ELSE IF Diagnosed(t) /\ diagnosis[t] = "decision" /\ t \notin decided
         THEN "source_statement_decision_required"
    ELSE IF Diagnosed(t) /\ diagnosis[t] = "promotion" THEN "foundation_absorb_required"
    ELSE IF math[t] = "blocking_proof" THEN "blocking_proof_required"
    ELSE IF math[t] \in {"missing_review", "stop"} THEN "math_review_gate_required"
    ELSE IF Diagnosed(t) THEN "auto_loop"
    ELSE IF ReportStatus(t) = "needs_class_normalization" THEN ReviewOrRestore(t)
    ELSE IF row[t].verify = "review_existing_required" THEN ReviewOrRestore(t)
    ELSE IF row[t].verify # None THEN "auto_loop"
    ELSE IF ReportStatus(t) = "needs_fresh_review" THEN ReviewOrRestore(t)
    ELSE IF RowStatus(t) = "fail" THEN "auto_loop"
    ELSE "inspect"

Executable == {"review_existing", "auto_loop"}

-----------------------------------------------------------------------------
(* The batch-run.                                                          *)

Disturb == events < MaxEvents /\ events' = events + 1 /\ disturbed' = TRUE

(* plan_batch_from_ledger, at the start of run_batch_actions.              *)
Plan ==
    /\ queue = {} \/ left = 0
    /\ queue' = {[task |-> t, action |-> ActionFor(t)] :
                    t \in {u \in Tasks : ActionFor(u) \in Executable}}
    /\ left' = MaxActions
    /\ disturbed' = FALSE
    /\ UNCHANGED <<row, canon, request, pack, gate, events, passed, accepted>>

(* A number for bytes this task has not had.                               *)
Fresher(t) ==
    1 + Max({canon[t]} \cup {p[2] : p \in {q \in passed : q[1] = t}}
            \cup (IF request[t] = None THEN {} ELSE {request[t].subject}))

Dequeue(x) == queue' = queue \ {x} /\ left' = left - 1

Asked(subject, t) == [subject |-> subject, basis |-> Basis(t), answer |-> None]

(* review-now --review-subject existing, without applying: a new request   *)
(* each time, or a failed hard check or sanity build and no request.       *)
ReviewExisting(t) ==
    /\ \/ /\ Under[t] \cap ProofDebt # {}
          /\ UNCHANGED <<row, request>>
       \/ /\ Under[t] \cap ProofDebt = {} /\ Official(t)
          /\ request' = [request EXCEPT ![t] = Asked(canon[t], t)]
          /\ row' = [row EXCEPT ![t].verify = "review_existing_required"]
       \/ /\ Under[t] \cap ProofDebt = {} /\ Official(t)
          /\ request' = [request EXCEPT ![t] = None]
          /\ row' = [row EXCEPT ![t].verify = "failed"]
    /\ UNCHANGED <<canon, passed>>

(* What a review-apply leaves in the row and in the canonical file.  A     *)
(* stale request is refused before anything is written; a pass may still   *)
(* fail its final build, which records the pass without a receipt.         *)
Landed(t) ==
    LET cn == [canon EXCEPT ![t] = request[t].subject]
        rw == [row EXCEPT ![t].status = "COMPLETED"]
        r  == [rw[t] EXCEPT !.claim = "pass", !.class = "ok", !.hist = "pass",
                            !.reconciled = FALSE, !.verify = None, !.stop = None, !.bound = TRUE,
                            !.receipt = [origin |-> request[t].basis, post |-> BasisOf(rw, cn, t)]]
    IN  row' = [row EXCEPT ![t] = r] /\ canon' = cn

NotLanded(t, claim) ==
    LET official == request[t].subject = canon[t]
        r == [row[t] EXCEPT !.claim = claim, !.class = "ok", !.hist = claim, !.verify = "failed",
                            !.bound = FALSE]
    IN  /\ \E needs \in (IF claim = "fail" THEN BOOLEAN ELSE {row[t].triage}) :
            row' = [row EXCEPT ![t] =
                      [r EXCEPT !.triage = needs,
                                !.status = IF official \/ @ = "COMPLETED" THEN @ ELSE "PACKED"]]
        /\ UNCHANGED canon

FinalBuildFails(t) ==
    LET official == request[t].subject = canon[t]
        r == [row[t] EXCEPT !.claim = "pass", !.class = "ok", !.hist = "pass",
                            !.verify = "failed", !.bound = FALSE]
    IN  /\ row' = [row EXCEPT ![t] =
                      [r EXCEPT !.status = IF official \/ @ = "COMPLETED" THEN @ ELSE "PACKED"]]
        /\ UNCHANGED canon

ReviewApplied(t) ==
    \/ request[t].basis # Basis(t) /\ UNCHANGED <<row, canon, request>>
    \/ /\ request[t].basis = Basis(t)
       /\ request' = [request EXCEPT ![t] = None]
       /\ CASE request[t].answer = "pass" -> Landed(t) \/ FinalBuildFails(t)
            [] OTHER -> NotLanded(t, request[t].answer)

(* A review-apply that dies on its way, because it is killed or because    *)
(* another command's write has overtaken its copy of the ledger, leaves    *)
(* what it had committed; its request stays the current one.  With a pass  *)
(* that is the promoted file, then the status (register_success), for a    *)
(* candidate the result filed as the official one, and the verify result   *)
(* that finish writes before its transaction.                              *)
HalfLanded(t) ==
    LET candidate == request[t].subject # canon[t]
    IN  \E done \in {"registered", "filed", "summarised"} :
            /\ canon' = [canon EXCEPT ![t] = request[t].subject]
            /\ row' = [row EXCEPT ![t].status = "COMPLETED",
                         ![t].hist = IF candidate /\ done # "registered" /\ @ = None
                                     THEN "pass" ELSE @,
                         ![t].verify = IF done = "summarised" THEN None ELSE @]

PromotedOnly(t) == canon' = [canon EXCEPT ![t] = request[t].subject] /\ UNCHANGED row

(* A verdict that was not to land, or a pass whose final build failed.     *)
Unrecorded(t, failing) ==
    LET official == request[t].subject = canon[t]
    IN  /\ \E needs \in (IF failing THEN BOOLEAN ELSE {row[t].triage}), v \in {row[t].verify, "failed"} :
            row' = [row EXCEPT ![t].triage = needs, ![t].verify = v,
                      ![t].hist = IF failing /\ official /\ @ = None THEN "fail" ELSE @]
        /\ UNCHANGED canon

ReviewApplyDies(t) ==
    /\ request[t].basis = Basis(t) /\ UNCHANGED request
    /\ \/ request[t].answer = "pass" /\ (HalfLanded(t) \/ PromotedOnly(t))
       \/ Unrecorded(t, request[t].answer = "fail")

(* auto-loop on the current subject: it applies a waiting answer, or ends  *)
(* with a build-ready candidate under review, a failed build, a triage     *)
(* that wants a diagnoser, or its budget used up.                          *)
AutoLoop(t) ==
    \/ Answered(t) /\ ReviewApplied(t) /\ UNCHANGED passed
    \/ /\ ~Answered(t)
       /\ UNCHANGED <<canon, passed>>
       /\ \/ UNCHANGED <<row, request>>
          \/ /\ Under[t] \cap ProofDebt = {} /\ Fresher(t) <= MaxVersions
             /\ request' = [request EXCEPT ![t] = Asked(Fresher(t), t)]
             /\ row' = [row EXCEPT ![t].verify = "codex_review_required"]
          \/ /\ \E s \in {None, "diagnoser_required", "early", "exhausted"} :
                   row' = [row EXCEPT ![t].verify = "failed", ![t].stop = s,
                             ![t].status = IF s \in {"early", "exhausted"} /\ @ # "COMPLETED"
                                           THEN "FAILED_LOCAL" ELSE @]
             /\ UNCHANGED request

(* The next action of the plan, whatever has become of its task.  Nothing  *)
(* catches what an auto-loop raises: a review-apply that dies there is the *)
(* end of the batch-run.                                                   *)
Execute ==
    /\ left > 0
    /\ \E x \in queue :
        \/ /\ Dequeue(x)
           /\ IF x.action = "review_existing" THEN ReviewExisting(x.task) ELSE AutoLoop(x.task)
        \/ /\ x.action = "auto_loop" /\ Answered(x.task)
           /\ ReviewApplyDies(x.task)
           /\ queue' = queue \ {x} /\ left' = 0
           /\ UNCHANGED passed
    /\ UNCHANGED <<pack, gate, events, accepted, disturbed>>

-----------------------------------------------------------------------------
(* Reviewers, diagnosers, people and other commands.                       *)

(* An independent reviewer writes the result of a request; the task-level  *)
(* status is what its classes project to.                                  *)
Review(t) ==
    /\ Pending(t)
    /\ Disturb
    /\ \E a \in {"pass", "fail", "blocked"} :
        /\ request' = [request EXCEPT ![t].answer = a]
        /\ passed' = IF a = "pass"
                     THEN passed \cup {<<t, request[t].subject, {u[1] : u \in request[t].basis.up}>>}
                     ELSE passed
    /\ UNCHANGED <<row, canon, pack, gate, batch, accepted>>

Apply(t) ==
    /\ Answered(t) /\ Disturb
    /\ ReviewApplied(t) \/ ReviewApplyDies(t)
    /\ UNCHANGED <<pack, gate, batch, passed, accepted>>

Diagnose(t) ==
    /\ ActionFor(t) = "diagnoser_required" /\ Disturb
    /\ \E k \in {"local_repair", "decision", "promotion"} : diagnosis' = [diagnosis EXCEPT ![t] = k]
    /\ UNCHANGED <<row, canon, request, decided, math, gate, batch, passed, accepted>>

Decide(t) ==
    /\ ActionFor(t) = "source_statement_decision_required" /\ Disturb
    /\ decided' = decided \cup {t}
    /\ UNCHANGED <<row, canon, request, diagnosis, math, gate, batch, passed, accepted>>

MathReview(t) ==
    /\ math[t] \in {"missing_review", "stop", "blocking_proof"} /\ Disturb
    /\ \E v \in {"go", "stop", "blocking_proof"} : math' = [math EXCEPT ![t] = v]
    /\ UNCHANGED <<row, canon, request, diagnosis, decided, gate, batch, passed, accepted>>

(* reconcile_candidate_dependencies: the row starts over, the result files *)
(* stay as history.                                                        *)
Reconcile(t) ==
    /\ row[t].deps # Replanned[t] /\ Disturb
    /\ row' = [row EXCEPT ![t] = [@ EXCEPT !.deps = Replanned[t], !.status = "DISCOVERED",
                                          !.claim = None, !.receipt = None, !.reconciled = TRUE]]
    /\ request' = [request EXCEPT ![t] = None]
    /\ UNCHANGED <<canon, pack, gate, batch, passed, accepted>>

(* Somebody changes a canonical file outside the task's own loop.          *)
EditOutput(t) ==
    /\ Fresher(t) <= MaxVersions /\ Disturb
    /\ canon' = [canon EXCEPT ![t] = Fresher(t)]
    /\ UNCHANGED <<row, request, pack, gate, batch, passed, accepted>>

-----------------------------------------------------------------------------
(* Frozen dependencies.                                                    *)

(* build_frozen_dependency_evidence: the basis is the same before and      *)
(* after the build, the evidence and its run are recorded.                 *)
BuildEvidence(t) ==
    /\ Computable(t) /\ <<t, FrozenBasis(t)>> \notin built /\ Disturb
    /\ built' = built \cup {<<t, FrozenBasis(t)>>}
    /\ UNCHANGED <<row, canon, request, pack, frozen, head, decision, batch, passed, accepted>>

OwnerDecides(t) ==
    /\ t \in Chapters1to4 /\ Disturb
    /\ decision' = IF t \in decision THEN decision \ {t} ELSE decision \cup {t}
    /\ UNCHANGED <<row, canon, request, pack, frozen, head, built, batch, passed, accepted>>

\* mutant: a later grant changes the campaign row but not the head.
GrantInCampaignOnly(t) ==
    /\ Computable(t) /\ t \in decision /\ <<t, FrozenBasis(t)>> \in built
    /\ ~FrozenPass(t) /\ Disturb
    /\ frozen' = [frozen EXCEPT ![t] = [active |-> TRUE, tip |-> FrozenBasis(t), revoked |-> FALSE]]
    /\ accepted' = [accepted EXCEPT ![t] = FrozenBasis(t)]
    /\ UNCHANGED <<row, canon, request, pack, head, built, decision, batch, passed>>

(* accept_frozen_dependency_authority, with the tip its caller expects     *)
(* being the tip: the campaign row and the head change together.           *)
Grant(t) ==
    /\ Computable(t) /\ t \in decision /\ <<t, FrozenBasis(t)>> \in built
    /\ ~FrozenPass(t) /\ Disturb
    /\ frozen' = [frozen EXCEPT ![t] = [active |-> TRUE, tip |-> FrozenBasis(t), revoked |-> FALSE]]
    /\ head' = [head EXCEPT ![t] = [receipt |-> FrozenBasis(t), fresh |-> TRUE]]
    /\ accepted' = [accepted EXCEPT ![t] = FrozenBasis(t)]
    /\ UNCHANGED <<row, canon, request, pack, built, decision, batch, passed>>

Revoke(t) ==
    /\ frozen[t].active /\ Disturb
    /\ frozen' = [frozen EXCEPT ![t].active = FALSE, ![t].revoked = TRUE]
    /\ head' = [head EXCEPT ![t] = IF @ = None THEN None ELSE [@ EXCEPT !.fresh = FALSE]]
    /\ accepted' = [accepted EXCEPT ![t] = None]
    /\ UNCHANGED <<row, canon, request, pack, built, decision, batch, passed>>

(* A rebuild of the state database imports no frozen head and no run.      *)
Rebuild ==
    /\ Disturb
    /\ head' = [t \in Tasks |-> None] /\ built' = {}
    /\ UNCHANGED <<row, canon, request, pack, frozen, decision, batch, passed, accepted>>

Next ==
    \/ Plan
    \/ Execute
    \/ Rebuild
    \/ \E t \in Tasks :
        \/ Review(t)        \/ Apply(t)     \/ Diagnose(t)   \/ Decide(t)
        \/ MathReview(t)    \/ Reconcile(t) \/ EditOutput(t)
        \/ BuildEvidence(t) \/ OwnerDecides(t) \/ Grant(t)   \/ Revoke(t)

Spec == Init /\ [][Next]_vars

-----------------------------------------------------------------------------
(* Types: what the row, the pack, the gate and the batch can hold.         *)
Bases ==
    [own : {"DISCOVERED", "PACKED", "COMPLETED", "FAILED_LOCAL", "COMPLETED_WITH_PROOF_DEBT"},
     file : 0..MaxVersions,
     up : SUBSET (Tasks \X {"DISCOVERED", "PACKED", "COMPLETED", "FAILED_LOCAL",
                            "COMPLETED_WITH_PROOF_DEBT"} \X (0..MaxVersions))]

TypeOK ==
    /\ \A t \in Tasks :
        /\ row[t].status \in {"DISCOVERED", "PACKED", "COMPLETED", "FAILED_LOCAL",
                              "COMPLETED_WITH_PROOF_DEBT"}
        /\ row[t].claim \in {None, "pass", "fail", "blocked"}
        /\ row[t].deps \in {Planned[t], Replanned[t]}
        /\ row[t].stop \in {None, "diagnoser_required", "early", "exhausted"}
        /\ row[t].verify \in {None, "failed", "review_existing_required", "codex_review_required"}
        /\ row[t].receipt # None => {row[t].receipt.origin, row[t].receipt.post} \subseteq Bases
        /\ request[t] # None => request[t].basis \in Bases /\ request[t].subject \in 1..MaxVersions
        /\ frozen[t].tip # None => frozen[t].tip.file \in 1..MaxVersions
        /\ head[t] # None => head[t].receipt = frozen[t].tip
    /\ canon \in [Tasks -> 0..MaxVersions]
    /\ decision \subseteq Chapters1to4
    /\ left \in 0..MaxActions
    /\ \A x \in queue : x.task \in Tasks /\ x.action \in Executable

(* The file of now with the dependencies the row has now was passed by a   *)
(* reviewer, or accepted by the owner and not revoked since.               *)
Grounded(t) ==
    <<t, canon[t], row[t].deps>> \in passed \/ accepted[t] = FrozenBasis(t)

HasVerdict(t) == FrozenPass(t) \/ row[t].claim # None

(* What the batch reports clean is backed all the way down: the task and   *)
(* everything below it stand on accepted ground, as far as review-apply or *)
(* the owner has given them a verdict, and were passed by a reviewer at    *)
(* some time where the batch had to go by a result nobody finished         *)
(* applying.                                                               *)
CleanIsBacked ==
    \A t \in Tasks : Clean(t) =>
        \A d \in {t} \cup Under[t] :
            IF HasVerdict(d) THEN Grounded(d) ELSE \E p \in passed : p[1] = d

(* What the batch runner says of itself, that a pass is schedulable only   *)
(* while subject, basis and receipt agree with the current state: a clean  *)
(* task and everything below it stand on accepted ground.  The code does   *)
(* not keep it: a review-apply that dies after register_success leaves a   *)
(* completed row without a verdict, which is clean by its unapplied result *)
(* and stays so when its file changes.                                     *)
CleanIsGrounded == \A t \in Tasks : Clean(t) => \A d \in {t} \cup Under[t] : Grounded(d)

(* The batch never waits for nobody: below a skipped task there is one     *)
(* that somebody can act on, or one whose own review called it blocked     *)
(* (which the plan never takes up again, even when its dependencies pass), *)
(* or one with a half-applied pass, clean itself and yet in the way.       *)
WaitsForSomeone ==
    \A t \in Tasks : ActionFor(t) = "skip_blocked" =>
        \E d \in Under[t] :
            \/ ActionFor(d) \notin {"none", "skip_blocked"}
            \/ Clean(d) /\ ~HasVerdict(d) /\ (d \in Blocking \/ NeedsDiagnosis(d))

(* While nothing else happens a plan stays good to its last action: the    *)
(* batch-run never starts on a task over a dependency that is not clean.   *)
DispatchIsReady ==
    [][left' < left /\ ~disturbed =>
        \A x \in queue \ queue' :
            Declared(x.task) # "COMPLETED_WITH_PROOF_DEBT" =>
                \A d \in row[x.task].deps : Clean(d)]_vars
=============================================================================
