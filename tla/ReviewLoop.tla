----------------------------- MODULE ReviewLoop ------------------------------
(***************************************************************************)
(* The auto-loop of one Phase 2 task: phase2_review_loop, with the parts   *)
(* of phase2_prompt_pack, phase2_review_apply, phase2_failure_budget,      *)
(* phase2_semantic_fail_triage and phase2_math_review_gate it drives.      *)
(*                                                                         *)
(* The loop is not a daemon.  One call of auto-loop runs until it needs    *)
(* the author or the reviewer, writes where it is into the task's ledger   *)
(* row, and returns; the agent does that work and calls again.  What the   *)
(* next call knows is the row and the files: the attempt history, the      *)
(* repair requests, draft.lean.  A call can be killed at any step, and     *)
(* between two calls the agent may edit the draft or run the other review  *)
(* commands.  ReviewApply models what a review-apply may land; here its    *)
(* outcome is one of a few kinds and the loop's own bookkeeping is exact.  *)
(***************************************************************************)
EXTENDS ReviewContract, Sequences, FiniteSetsExt, SequencesExt

CONSTANTS
    Codes,            \* contents of draft.lean
    None,             \* "no such value"
    MustFix,          \* normalised must-fix lists a failed review can carry
    Routes,           \* failure categories that need a route diagnosis
    Subjects,         \* values of --review-subject the agent uses
    Original,         \* a canonical file that may be there at the start
    MaxRounds,        \* --max-auto-rounds
    NonprogressLimit, \* --nonprogress-limit
    BuildLimit,       \* --max-build-attempts-per-round
    FailLimit,        \* PHASE2_FAILURE_STREAK_LIMIT
    MaxEvents         \* bound on loops started, kills, commands by hand and
                      \* basis changes together

ASSUME LimitsAssumption ==
    /\ {MaxRounds, NonprogressLimit, BuildLimit, FailLimit} \subseteq Nat \ {0}
    /\ MaxEvents \in Nat
    /\ Subjects \subseteq {"current", "existing", "candidate"}
    /\ None \notin Codes \cup MustFix \cup Routes

VARIABLES
    row,       \* the task's ledger row
    history,   \* attempt_history.json
    latest,    \* the newest repair request file
    diagnosed, \* categories with a diagnoser prompt on disk
    draft,     \* draft.lean
    official,  \* the canonical file
    result,    \* the reviewer's file for the current request
    basis,     \* version of what a review basis hashes
    mathGo,    \* a math review with verdict "go" is on disk
    pc,        \* where the running command is, or "idle"
    cmd,       \* the running command
    code,      \* what the running build-check or review-apply works on
    outcome,   \* how its build or apply ended
    out,       \* next_action of the last auto-loop call
    loops,     \* history: number of loops started
    events,    \* what MaxEvents bounds
    seed       \* history: number of the request draft.lean was last seeded from

vars == <<row, history, latest, diagnosed, draft, official, result, basis,
          mathGo, pc, cmd, code, outcome, out, loops, events, seed>>
world == <<official, basis, mathGo, loops, events>>
command == <<cmd, code, outcome>>

NoLoop == [enabled |-> FALSE, subject |-> "", round |-> 0, nonprogress |-> 0,
           phase |-> "", status |-> "", reason |-> "",
           lastCode |-> None, lastMark |-> None, lastRepair |-> 0]

NoRequest == [kind |-> "none", code |-> None, basis |-> 0]

NoRepair == [n |-> 0, kind |-> "none", code |-> None, mustFix |-> None,
             verdict |-> "none", needsDiagnoser |-> FALSE]

NoReceipt == [code |-> None, basis |-> 0, post |-> 0]

NoResult == [verdict |-> "none", mustFix |-> None, route |-> None]

\* What a reviewer's file amounts to once review-apply has normalised it: the
\* outcome of ReviewContract, a must-fix list and, where the triage asks for
\* a diagnosis, a category.
Results == {[verdict |-> v, mustFix |-> m, route |-> r] :
               v \in {"fail"}, m \in MustFix, r \in Routes \cup {None}}
           \cup {[verdict |-> v, mustFix |-> m, route |-> None] :
                    v \in {"inconclusive", "downgraded"}, m \in MustFix}
           \cup {[verdict |-> v, mustFix |-> None, route |-> None] :
                    v \in {"pass", "blocked", "exception", "malformed"}}

LoopActive == row.loop.enabled /\ row.loop.status = "active"

-----------------------------------------------------------------------------
(* The attempt history and what is counted in it *)

BuildsOfRound(round) ==
    Cardinality({i \in DOMAIN history :
                    history[i].stage = "build" /\ history[i].round = round})

\* mutant: a failed build of the review stage does not break the streak
BuildFailuresAnyStage(h) ==
    FoldLeft(LAMBDA n, e : IF e.stage = "build" /\ ~e.ok THEN n + 1
                           ELSE IF e.ok THEN 0 ELSE n, 0, h)

BuildFailures(h) ==
    FoldLeft(LAMBDA n, e : IF e.stage = "build" /\ ~e.ok THEN n + 1 ELSE 0, 0, h)

ReviewFailures(h) ==
    FoldLeft(LAMBDA n, e :
                IF e.stage # "semantic_review" THEN n
                ELSE IF e.ok THEN 0
                ELSE IF e.kind \in {"fail", "inconclusive"} THEN n + 1 ELSE n, 0, h)

\* An attempt carries the round only while a loop is active.
Attempt(stage, content, ok, kind, repair) ==
    [stage |-> stage, code |-> content, ok |-> ok, kind |-> kind, repair |-> repair,
     round |-> IF LoopActive THEN row.loop.round ELSE 0,
     loop |-> IF LoopActive THEN loops ELSE 0]

Recorded(h, n) ==
    \E i \in DOMAIN h : h[i].stage = "semantic_review" /\ h[i].repair = n

\* mutant: seeding trusts that the review-apply has written its history entry
BackfillNothing(repair) == UNCHANGED history

BackfillHistory(repair) ==
    history' = IF Recorded(history, repair.n) THEN history
               ELSE Append(history,
                      [stage |-> "semantic_review", code |-> repair.code, ok |-> FALSE,
                       kind |-> IF repair.verdict = "fail" THEN "fail" ELSE "inconclusive",
                       repair |-> repair.n, round |-> 0, loop |-> 0])

\* mutant: the numbering of rounds trusts the row alone
NextRoundFromRow ==
    Max({row.loop.round + 1} \cup (IF row.rep.n # 0 THEN {2} ELSE {}))

NextRound ==
    Max({Max({row.loop.round} \cup {history[i].round : i \in DOMAIN history}) + 1}
        \cup (IF row.rep.n # 0 THEN {2} ELSE {}))

-----------------------------------------------------------------------------
(* The row *)

\* Every refresh of the pack's views drops a build-ready candidate that is no
\* longer the draft.
StoreWith(r, text) == row' = [r EXCEPT !.ready = IF @ = text THEN @ ELSE None]
Store(r) == StoreWith(r, draft)

InPhase(r, phase) ==
    [r EXCEPT !.loop.phase = phase, !.loop.status = "active", !.loop.enabled = TRUE]

Stopped(r, reason) ==
    [r EXCEPT !.loop.enabled = TRUE, !.loop.status = "stopped",
              !.loop.phase = "stopped", !.loop.reason = reason]

Completed(r) ==
    [r EXCEPT !.loop.enabled = TRUE, !.loop.status = "completed",
              !.loop.phase = "completed", !.loop.reason = "passed"]

Return(next) == out' = next /\ pc' = "idle" /\ cmd' = "none"
                /\ code' = None /\ outcome' = "none"

StopLoop(r, reason) ==
    /\ Store(Stopped(r, reason))
    /\ Return(IF reason = "diagnoser_required" THEN "diagnoser_read_only" ELSE "stopped")

\* The recorded semantic failure that an unchanged candidate may not bring
\* back to review.  Without an active request the newest file is used.
\* mutant: a pass that the task status turned into a failure is not one
FailedCodeOfVerdict ==
    LET r == IF row.rep.n # 0 THEN row.rep ELSE latest
    IN  IF r.verdict = "fail" THEN r.code ELSE None

FailedCode ==
    LET r == IF row.rep.n # 0 THEN row.rep ELSE latest
    IN  IF r.verdict \in {"fail", "downgraded"} THEN r.code ELSE None

GateClosed == row.triage # None /\ ~mathGo

Fresh == /\ row.req.basis = basis
         /\ row.req.kind = "candidate" => row.ready = row.req.code
         /\ row.req.kind = "official_output" => official = row.req.code

HasOutput == row.status = "COMPLETED" /\ official # None

-----------------------------------------------------------------------------
(* review-fix: seed the draft from the repair request *)

\* mutant: any row without a review request can be seeded from
NoNewerRequest == row.req = NoRequest

\* A repair request is stale while a newer review request is active.
RepairUsable == row.rep.n # 0 /\ row.req = NoRequest

Seed(repair) ==
    /\ draft' = repair.code
    /\ seed' = repair.n

-----------------------------------------------------------------------------
(* Starting and resuming a loop *)

Event == events < MaxEvents /\ events' = events + 1

SeededMarker == IF row.rep.n # 0 /\ row.loop.lastRepair = row.rep.n THEN row.rep.n ELSE 0

NewLoop(subject) ==
    [NoLoop EXCEPT !.enabled = TRUE, !.subject = subject, !.round = NextRound,
                   !.phase = "entry", !.status = "active", !.lastRepair = SeededMarker]

\* auto-loop resumes the active loop of the same subject as it stands.
Resume(subject) ==
    /\ pc = "idle"
    /\ LoopActive /\ row.loop.subject = subject
    /\ pc' = "top" /\ cmd' = "auto"
    /\ Store(row)
    /\ UNCHANGED <<history, latest, diagnosed, draft, result, code, outcome, out, seed, world>>

\* Anything else starts a new one; a draft that is already seeded is kept,
\* provided its repair request can still be used.
Start(subject) ==
    /\ pc = "idle"
    /\ ~(LoopActive /\ row.loop.subject = subject)
    /\ Event /\ loops' = loops + 1
    /\ LET r == [row EXCEPT !.loop = NewLoop(subject)]
           resumed == SeededMarker # 0
       IN  \/ /\ resumed /\ ~RepairUsable
              /\ StopLoop(r, "freshness_error")
              /\ UNCHANGED history
           \/ /\ resumed /\ RepairUsable
              /\ BackfillHistory(row.rep)
              /\ Store(r) /\ pc' = "top" /\ cmd' = "auto"
              /\ UNCHANGED <<code, outcome, out>>
           \/ /\ ~resumed
              /\ Store(r) /\ pc' = "top" /\ cmd' = "auto"
              /\ UNCHANGED <<history, code, outcome, out>>
    /\ UNCHANGED <<latest, diagnosed, draft, result, official, basis, mathGo, seed>>

-----------------------------------------------------------------------------
(* One iteration of the loop *)

RoundsLeft == row.loop.round <= MaxRounds

StopMaxRounds ==
    /\ pc = "top" /\ ~RoundsLeft
    /\ StopLoop(row, "max_rounds")
    /\ UNCHANGED <<history, latest, diagnosed, draft, result, seed, world>>

\* The reviewer's file is there: apply it.
BeginApply ==
    /\ pc = "top" /\ RoundsLeft
    /\ row.req # NoRequest /\ result # NoResult
    /\ Store(InPhase(row, "applying"))
    /\ pc' = "apply"
    /\ UNCHANGED <<history, latest, diagnosed, draft, result, command, out, seed, world>>

AwaitingReview == pc = "top" /\ RoundsLeft /\ row.req # NoRequest /\ result = NoResult

\* mutant: the stale request stays in the row
KeepStaleRequest ==
    /\ AwaitingReview /\ ~Fresh
    /\ Store(InPhase(row, "entry"))
    /\ pc' = "top"
    /\ UNCHANGED <<history, latest, diagnosed, draft, result, command, out, seed, world>>

DropStaleRequest ==
    /\ AwaitingReview /\ ~Fresh
    /\ Store(InPhase([row EXCEPT !.req = NoRequest], "entry"))
    /\ pc' = "top"
    /\ UNCHANGED <<history, latest, diagnosed, draft, result, command, out, seed, world>>

HandToReviewer ==
    /\ AwaitingReview /\ Fresh
    /\ Store(InPhase(row, "reviewing"))
    /\ Return("reviewer_write_result")
    /\ UNCHANGED <<history, latest, diagnosed, draft, result, seed, world>>

NothingUnderReview == pc = "top" /\ RoundsLeft /\ row.req = NoRequest

\* A repair request the loop has not seeded yet.
SeedRepair ==
    /\ NothingUnderReview
    /\ row.rep.n # 0 /\ row.rep.n # row.loop.lastRepair
    /\ BackfillHistory(row.rep)
    /\ Seed(row.rep)
    /\ StoreWith(InPhase([row EXCEPT !.loop.lastRepair = row.rep.n], "repair_seeded"),
                 row.rep.code)
    /\ pc' = "top"
    /\ UNCHANGED <<latest, diagnosed, result, command, out, world>>

Working == NothingUnderReview /\ row.rep.n \in {0, row.loop.lastRepair}

\* A new review request; candidate reviews end the repair they answer.
Request(r, kind, subject) ==
    [r EXCEPT !.req = [kind |-> kind, code |-> subject, basis |-> basis],
              !.rep = IF kind = "candidate" THEN NoRepair ELSE @]

PrepareExisting ==
    /\ Working /\ row.loop.phase = "entry" /\ row.loop.subject = "existing"
    /\ official # None
    /\ \/ /\ Store(Request(InPhase(row, "review_prepared"), "official_output", official))
          /\ result' = NoResult
          /\ pc' = "top"
          /\ UNCHANGED <<command, out>>
       \/ /\ StopLoop(row, "hard_failure")
          /\ UNCHANGED result
    /\ UNCHANGED <<history, latest, diagnosed, draft, seed, world>>

\* There is no canonical file: the command raises, and the phase stays.
PrepareExistingRaises ==
    /\ Working /\ row.loop.phase = "entry" /\ row.loop.subject = "existing"
    /\ official = None
    /\ Store(InPhase(row, "review_prepared"))
    /\ Return("error")
    /\ UNCHANGED <<history, latest, diagnosed, draft, result, seed, world>>

PrepareCandidate ==
    /\ Working /\ row.loop.phase = "entry" /\ row.loop.subject = "candidate"
    /\ IF row.ready # None /\ row.ready = draft
       THEN /\ Store(Request(InPhase(row, "review_prepared"), "candidate", row.ready))
            /\ result' = NoResult
            /\ pc' = "top"
            /\ UNCHANGED <<command, out>>
       ELSE /\ StopLoop(row, IF row.ready = None THEN "hard_failure" ELSE "freshness_error")
            /\ UNCHANGED result
    /\ UNCHANGED <<history, latest, diagnosed, draft, seed, world>>

Building == Working /\ ~(row.loop.phase = "entry" /\ row.loop.subject \in {"existing", "candidate"})

StopBuildBudget ==
    /\ Building /\ BuildsOfRound(row.loop.round) >= BuildLimit
    /\ StopLoop(row, "build_budget_exhausted")
    /\ UNCHANGED <<history, latest, diagnosed, draft, result, seed, world>>

BeginBuild ==
    /\ Building /\ BuildsOfRound(row.loop.round) < BuildLimit
    /\ Store(InPhase(row, "build_checking"))
    /\ pc' = "build"
    /\ UNCHANGED <<history, latest, diagnosed, draft, result, command, out, seed, world>>

-----------------------------------------------------------------------------
(* build-check *)

\* The math review gate refuses the build; nothing is recorded.
BuildRefused ==
    /\ pc = "build" /\ GateClosed
    /\ IF cmd = "auto"
       THEN /\ pc' = "built" /\ outcome' = "refused"
            /\ Store(row)
            /\ UNCHANGED <<cmd, code, out>>
       ELSE /\ Store(row)
            /\ pc' = "idle" /\ cmd' = "none" /\ UNCHANGED <<code, outcome, out>>
    /\ UNCHANGED <<history, latest, diagnosed, draft, result, seed, world>>

\* The build itself, up to the entry in the attempt history.
BuildRecord ==
    /\ pc = "build" /\ ~GateClosed
    /\ \E ok \in BOOLEAN :
          /\ history' = Append(history, Attempt("build", None, ok, IF ok THEN "" ELSE "build", 0))
          /\ outcome' = IF ok THEN "built" ELSE "failed"
    /\ code' = draft
    /\ pc' = "buildCommit"
    /\ UNCHANGED <<row, latest, diagnosed, draft, result, cmd, out, seed, world>>

\* The ledger update that follows; it also drops the current review request.
BuildCommit ==
    /\ pc = "buildCommit"
    /\ LET ok == outcome = "built"
       IN  Store([row EXCEPT !.req = NoRequest,
                    !.ready = IF ok THEN code ELSE @,
                    !.status = IF HasOutput THEN @
                               ELSE IF ~ok /\ BuildFailures(history) >= FailLimit
                               THEN "FAILED_LOCAL" ELSE "PACKED"])
    /\ result' = NoResult
    /\ IF cmd = "auto" THEN pc' = "built" /\ UNCHANGED <<command, out>>
       ELSE pc' = "idle" /\ cmd' = "none" /\ code' = None /\ outcome' = "none" /\ UNCHANGED out
    /\ UNCHANGED <<history, latest, diagnosed, draft, seed, world>>

\* Back in the loop.
AfterFailedBuild ==
    /\ pc = "built" /\ outcome \in {"failed", "refused"}
    /\ IF BuildsOfRound(row.loop.round) >= BuildLimit
       THEN StopLoop(row, "build_budget_exhausted")
       ELSE Store(InPhase(row, "authoring")) /\ Return("author_repair")
    /\ UNCHANGED <<history, latest, diagnosed, draft, result, seed, world>>

NeedsDiagnoser == IF row.rep.n # 0 THEN row.rep.needsDiagnoser ELSE latest.needsDiagnoser

AfterBuild ==
    /\ pc = "built" /\ outcome = "built"
    /\ IF code = FailedCode
       THEN /\ IF NeedsDiagnoser THEN StopLoop(row, "diagnoser_required")
               ELSE Store(InPhase(row, "authoring")) /\ Return("author_repair")
            /\ UNCHANGED result
       ELSE IF row.ready # None /\ row.ready = draft
       THEN /\ Store(Request(InPhase(row, "review_prepared"), "candidate", row.ready))
            /\ result' = NoResult
            /\ pc' = "top" /\ code' = None /\ outcome' = "none"
            /\ UNCHANGED <<cmd, out>>
       ELSE StopLoop(row, "hard_failure") /\ UNCHANGED result
    /\ UNCHANGED <<history, latest, diagnosed, draft, seed, world>>

-----------------------------------------------------------------------------
(* review-apply *)

\* A canonical file that already is the reviewed candidate: the review can only
\* be replayed, and only against the receipt of its promotion.
AlreadyPromoted == HasOutput /\ row.req.kind = "candidate" /\ result.verdict = "pass"
                   /\ official = row.req.code

\* mutant: a replay does not ask for the receipt
ReplayWithoutReceipt == AlreadyPromoted

ReplayMatches == AlreadyPromoted
    /\ row.receipt = [code |-> row.req.code, basis |-> row.req.basis, post |-> basis]

\* Refused before anything is written.  The newest verify_result file is still
\* the one the review request left, so the loop does not see the refusal's own
\* disposition.
ApplyRefused ==
    /\ pc = "apply"
    /\ \/ result.verdict = "malformed"
       \/ AlreadyPromoted /\ ~ReplayMatches
       \/ ~AlreadyPromoted /\ ~Fresh
    /\ IF cmd = "auto" THEN pc' = "applied" /\ outcome' = "refused" /\ UNCHANGED <<cmd, code, out>>
       ELSE pc' = "idle" /\ cmd' = "none" /\ UNCHANGED <<code, outcome, out>>
    /\ UNCHANGED <<row, history, latest, diagnosed, draft, result, seed, world>>

\* The receipt of the promotion matches: nothing to do, and a success.
ApplyReplayed ==
    /\ pc = "apply" /\ ReplayMatches
    /\ IF cmd = "auto" THEN Store(Completed(row)) /\ Return("completed")
       ELSE Store(row) /\ pc' = "idle" /\ cmd' = "none" /\ UNCHANGED <<code, outcome, out>>
    /\ UNCHANGED <<history, latest, diagnosed, draft, result, seed, world>>

Repairable == {"fail", "inconclusive", "downgraded"}

\* A category that was diagnosed before goes back to ordinary repair.
NeedsDiagnosis == result.route \notin diagnosed \cup {None}

RepairRequest ==
    [n |-> latest.n + 1, kind |-> row.req.kind, code |-> row.req.code,
     mustFix |-> result.mustFix, verdict |-> result.verdict,
     needsDiagnoser |-> NeedsDiagnosis]

\* The outcome of an accepted result, and what is written first: the repair
\* request with its triage, or the promoted file with its status.
ApplyOutcome ==
    /\ pc = "apply" /\ result.verdict # "malformed" /\ Fresh /\ ~AlreadyPromoted
    /\ code' = row.req.code
    /\ \E ends \in IF result.verdict = "pass" THEN {"pass", "buildFailed"} ELSE {result.verdict} :
          /\ outcome' = ends
          /\ official' = IF ends = "pass" THEN row.req.code ELSE official
          /\ latest' = IF ends \in Repairable THEN RepairRequest ELSE latest
          /\ diagnosed' = IF ends = "fail" THEN diagnosed \cup ({result.route} \ {None})
                          ELSE diagnosed
          /\ row' = CASE ends = "pass" -> [row EXCEPT !.status = "COMPLETED"]
                      [] ends \in Repairable ->
                            [row EXCEPT !.rep = RepairRequest, !.triage = result.route]
                      [] OTHER -> row
    /\ pc' = "applyRecord"
    /\ UNCHANGED <<history, draft, result, cmd, out, basis, mathGo, loops, events, seed>>

\* The entry in the attempt history.
ApplyRecord ==
    /\ pc = "applyRecord"
    /\ history' = Append(history,
          Attempt("semantic_review", code, outcome = "pass",
                  CASE outcome = "pass" -> ""
                    [] outcome \in {"fail", "inconclusive"} -> outcome
                    [] OTHER -> "blocked",
                  IF outcome \in Repairable THEN latest.n ELSE 0))
    /\ pc' = "applyCommit"
    /\ UNCHANGED <<row, latest, diagnosed, draft, result, command, out, seed, world>>

\* The final ledger update.
Released(r) == [r EXCEPT !.req = NoRequest]

AfterApply(r) ==
    CASE outcome = "pass" -> [Released(r) EXCEPT !.rep = NoRepair, !.loop = NoLoop,
                                !.ready = IF r.req.kind = "candidate" THEN None ELSE @,
                                !.receipt = [code |-> code, basis |-> r.req.basis,
                                             post |-> basis]]
      [] outcome = "exception" -> [Released(r) EXCEPT !.rep = NoRepair, !.loop = NoLoop]
      [] outcome \in Repairable -> [Released(r) EXCEPT !.rep = latest]
      [] OTHER -> Released(r)

StatusAfterApply ==
    CASE outcome = "pass" -> "COMPLETED"
      [] outcome # "pass" /\ (HasOutput \/ row.req.kind = "official_output") -> row.status
      [] outcome # "pass" /\ ~(HasOutput \/ row.req.kind = "official_output") ->
            IF ReviewFailures(history) >= FailLimit THEN "FAILED_LOCAL" ELSE "PACKED"

ApplyCommit ==
    /\ pc = "applyCommit"
    /\ LET r == [AfterApply(row) EXCEPT !.status = StatusAfterApply]
       IN  IF outcome = "pass" /\ cmd = "auto" THEN Store(Completed(r)) ELSE Store(r)
    /\ result' = NoResult
    /\ IF cmd = "auto"
       THEN IF outcome = "pass" THEN Return("completed")
            ELSE pc' = "applied" /\ UNCHANGED <<command, out>>
       ELSE IF outcome \in Repairable /\ ~latest.needsDiagnoser
       THEN pc' = "fix" /\ UNCHANGED <<command, out>>
       ELSE pc' = "idle" /\ cmd' = "none" /\ code' = None /\ outcome' = "none" /\ UNCHANGED out
    /\ UNCHANGED <<history, latest, diagnosed, draft, seed, world>>

\* Back in the loop after a review that did not land.
Mark(repair) == <<repair.mustFix, repair.kind>>

Repeated == \/ row.loop.lastCode # None /\ row.loop.lastCode = row.rep.code
            \/ row.loop.lastMark # None /\ row.loop.lastMark = Mark(row.rep)

Nonprogress == IF Repeated THEN row.loop.nonprogress + 1 ELSE 0

NextIteration(text) ==
    LET r == [row EXCEPT !.loop.lastCode = row.rep.code, !.loop.lastMark = Mark(row.rep),
                         !.loop.nonprogress = Nonprogress]
    IN  IF Nonprogress >= NonprogressLimit
        THEN /\ StoreWith(Stopped(r, "nonprogress"), text)
             /\ Return("stopped")
        ELSE /\ StoreWith(InPhase([r EXCEPT !.loop.round = @ + 1], "entry"), text)
             /\ pc' = "top" /\ code' = None /\ outcome' = "none"
             /\ UNCHANGED <<cmd, out>>

AfterFailedApply ==
    /\ pc = "applied"
    /\ \/ /\ outcome \in Repairable /\ latest.needsDiagnoser
          /\ StopLoop(row, "diagnoser_required")
          /\ UNCHANGED <<history, draft, seed>>
       \/ /\ row.rep.n = 0
          /\ StopLoop(row, "hard_failure")
          /\ UNCHANGED <<history, draft, seed>>
       \/ /\ outcome \in Repairable /\ ~latest.needsDiagnoser
          /\ BackfillHistory(row.rep) /\ Seed(row.rep)
          /\ NextIteration(row.rep.code)
       \/ /\ outcome \notin Repairable /\ row.rep.n # 0
          /\ NextIteration(draft)
          /\ UNCHANGED <<history, draft, seed>>
    /\ UNCHANGED <<latest, diagnosed, result, world>>

-----------------------------------------------------------------------------
(* The other commands, run by hand between two calls *)

Manual(command_, at) ==
    /\ pc = "idle" /\ Event
    /\ pc' = at /\ cmd' = command_

BuildByHand ==
    /\ Manual("build", "build") /\ Store(row)
    /\ UNCHANGED <<history, latest, diagnosed, draft, official, result, basis, mathGo,
                   code, outcome, out, loops, seed>>

ApplyByHand ==
    /\ row.req # NoRequest /\ result # NoResult
    /\ Manual("apply", "apply")
    /\ UNCHANGED <<row, history, latest, diagnosed, draft, official, result, basis, mathGo,
                   code, outcome, out, loops, seed>>

\* review-now --review-subject candidate.
ReviewByHand ==
    /\ pc = "idle" /\ row.ready # None /\ row.ready = draft
    /\ Event
    /\ Store(Request(row, "candidate", row.ready))
    /\ result' = NoResult
    /\ UNCHANGED <<history, latest, diagnosed, draft, official, basis, mathGo,
                   pc, command, out, loops, seed>>

\* review-fix, by hand or as the continuation of a review-apply.
FixByHand ==
    /\ RepairUsable
    /\ Manual("fix", "fix")
    /\ UNCHANGED <<row, history, latest, diagnosed, draft, official, result, basis, mathGo,
                   code, outcome, out, loops, seed>>

Fix ==
    /\ pc = "fix"
    /\ IF RepairUsable
       THEN BackfillHistory(row.rep) /\ Seed(row.rep) /\ StoreWith(row, row.rep.code)
       ELSE Store(row) /\ UNCHANGED <<history, draft, seed>>
    /\ pc' = "idle" /\ cmd' = "none" /\ code' = None /\ outcome' = "none"
    /\ UNCHANGED <<latest, diagnosed, result, out, world>>

\* review-fix --abandon-current-repair.
Abandon ==
    /\ pc = "idle" /\ row.rep.n # 0
    /\ Event
    /\ Store([row EXCEPT !.rep = NoRepair])
    /\ UNCHANGED <<history, latest, diagnosed, draft, official, result, basis, mathGo,
                   pc, command, out, loops, seed>>

-----------------------------------------------------------------------------
(* The agent and the surroundings *)

Edit ==
    /\ pc \in {"idle", "buildCommit"}
    /\ \E c \in Codes \ {draft} : draft' = c
    /\ UNCHANGED <<row, history, latest, diagnosed, result, pc, command, out, seed, world>>

WriteResult ==
    /\ pc = "idle" /\ row.req # NoRequest /\ result = NoResult
    /\ result' \in Results
    /\ UNCHANGED <<row, history, latest, diagnosed, draft, pc, command, out, seed, world>>

WriteMathReview ==
    /\ pc = "idle" /\ GateClosed
    /\ mathGo' = TRUE
    /\ UNCHANGED <<row, history, latest, diagnosed, draft, official, result, basis,
                   pc, command, out, loops, events, seed>>

ChangeBasis ==
    /\ Event /\ basis' = basis + 1
    /\ UNCHANGED <<row, history, latest, diagnosed, draft, official, result, mathGo,
                   pc, command, out, loops, seed>>

Kill ==
    /\ pc # "idle" /\ Event
    /\ pc' = "idle" /\ cmd' = "none" /\ code' = None /\ outcome' = "none"
    /\ UNCHANGED <<row, history, latest, diagnosed, draft, official, result, basis, mathGo, out, loops, seed>>

-----------------------------------------------------------------------------
Init ==
    /\ official \in {None, Original}
    /\ row = [loop |-> NoLoop, req |-> NoRequest, rep |-> NoRepair, ready |-> None,
              status |-> IF official = None THEN "PACKED" ELSE "COMPLETED", triage |-> None,
              receipt |-> NoReceipt]
    /\ history = << >> /\ latest = NoRepair /\ diagnosed = {}
    /\ draft \in Codes
    /\ result = NoResult /\ basis = 0 /\ mathGo = FALSE
    /\ pc = "idle" /\ cmd = "none" /\ code = None /\ outcome = "none" /\ out = "none"
    /\ loops = 0 /\ events = 0
    /\ seed = 0

Command ==
    \/ StopMaxRounds \/ BeginApply \/ DropStaleRequest \/ HandToReviewer
    \/ SeedRepair \/ PrepareExisting \/ PrepareExistingRaises \/ PrepareCandidate
    \/ StopBuildBudget \/ BeginBuild
    \/ BuildRefused \/ BuildRecord \/ BuildCommit \/ AfterFailedBuild \/ AfterBuild
    \/ ApplyRefused \/ ApplyReplayed \/ ApplyOutcome \/ ApplyRecord \/ ApplyCommit
    \/ AfterFailedApply \/ Fix

ByHand == BuildByHand \/ ApplyByHand \/ ReviewByHand \/ FixByHand \/ Abandon

Next ==
    \/ \E subject \in Subjects : Resume(subject) \/ Start(subject)
    \/ Command
    \/ ByHand
    \/ Edit \/ WriteResult \/ WriteMathReview \/ ChangeBasis \/ Kill

Spec == Init /\ [][Next]_vars

\* A command that runs gets on.  The agent keeps calling an active loop, and
\* whenever the loop waits for a review or the gate for a math review, it does
\* get it written in the end: the same-session contract of the auto-loop.
Fairness ==
    /\ WF_vars(Command)
    /\ WF_vars(\E subject \in Subjects : Resume(subject))
    /\ SF_vars(WriteResult)
    /\ SF_vars(WriteMathReview)

FairSpec == Spec /\ Fairness

-----------------------------------------------------------------------------
(* Properties *)

Phases == {"", "entry", "applying", "reviewing", "repair_seeded", "review_prepared",
           "build_checking", "authoring", "stopped", "completed"}
Reasons == {"", "max_rounds", "freshness_error", "hard_failure", "nonprogress",
            "build_budget_exhausted", "diagnoser_required", "passed"}
Outcomes == {"none", "author_repair", "reviewer_write_result", "diagnoser_read_only",
             "completed", "stopped", "error"}

\* Every variable has the shape the code gives it: phase, status and stop
\* reason are the ones the loop knows, and counters stay within their limits.
TypeOK ==
    /\ row.loop.phase \in Phases
    /\ row.loop.status \in {"", "active", "stopped", "completed"}
    /\ row.loop.reason \in Reasons
    /\ row.loop.round \in Nat /\ row.loop.nonprogress \in 0..NonprogressLimit
    /\ row.req.code \in Codes \cup {None, Original} /\ row.ready \in Codes \cup {None, Original}
    /\ row.status \in {"PACKED", "FAILED_LOCAL", "COMPLETED"}
    /\ row.rep.n \in {0, latest.n}
    /\ draft \in Codes \cup {Original} /\ official \in Codes \cup {None, Original}
    /\ result \in Results \cup {NoResult}
    /\ out \in Outcomes

\* The builds of one round all belong to one loop, so a loop never starts on
\* a budget another one has used: after a promotion has reset the row, the
\* round numbers go on from the attempt history (_next_auto_loop_round).
RoundHasOneLoop ==
    \A i, j \in DOMAIN history :
        history[i].loop # 0 /\ history[j].loop # 0 /\ history[i].round = history[j].round
            => history[i].loop = history[j].loop

\* A draft that was seeded from a repair request answers a failure that the
\* attempt history has, also when the review-apply that wrote the request was
\* killed before it wrote the history (the backfill in
\* _load_current_review_repair_request).
SeededRepairIsRecorded == seed # 0 => Recorded(history, seed)

\* A task becomes FAILED_LOCAL only after FailLimit failures in a row: builds
\* with nothing between them, or rejected reviews with no accepted one between
\* them (phase2_failure_budget).
InARow(h, i, stage) == \A j \in i..Len(h) : h[j].stage = stage => ~h[j].ok
FailedLocalIsEarned ==
    [][row.status # "FAILED_LOCAL" /\ row'.status = "FAILED_LOCAL" =>
         \/ /\ Len(history) >= FailLimit
            /\ \A i \in Len(history) - FailLimit + 1 .. Len(history) :
                  history[i].stage = "build" /\ ~history[i].ok
         \/ \E i \in DOMAIN history :
               /\ InARow(history, i, "semantic_review")
               /\ Cardinality({j \in i..Len(history) :
                                  history[j].kind \in {"fail", "inconclusive"}}) >= FailLimit]_vars

\* Once a loop is under way it never asks for a review of the very candidate
\* that the repair request in force was written against
\* (_same_candidate_after_semantic_failure_detail).
NoReviewOfRejected ==
    [][cmd = "auto" /\ row.loop.phase # "entry" /\ latest.verdict \in {"fail", "downgraded"}
         /\ row'.req # row.req /\ row'.req.kind = "candidate"
            => row'.req.code # latest.code]_vars

\* auto-loop says "completed" only when the canonical file is a candidate
\* whose accepted review is in the attempt history.
CompletedIsApplied ==
    [][cmd = "auto" /\ ~Kill /\ pc' = "idle" /\ out' = "completed" =>
         /\ row'.status = "COMPLETED"
         /\ \E i \in DOMAIN history' : /\ history'[i].stage = "semantic_review"
                                       /\ history'[i].ok /\ history'[i].code = official']_vars

\* An active loop comes to an end: it completes or stops with a reason.
LoopSettles == row.loop.status = "active" ~> row.loop.status # "active"
=============================================================================
