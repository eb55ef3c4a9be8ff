----------------------------- MODULE ReviewApply -----------------------------
(***************************************************************************)
(* One Phase 2 task from build-check to review-apply: phase2_prompt_pack,  *)
(* phase2_review_request, phase2_review_apply, and the ledger calls they   *)
(* make.                                                                   *)
(*                                                                         *)
(* Every command opens the ledger once, into memory, and then mixes three  *)
(* things that no lock covers together: reads of files, transactions on    *)
(* the task's ledger row, and writes of the canonical file.  A plain       *)
(* transaction starts from the stored row and moves the command's idea of  *)
(* the ledger revision along with it; only the last transaction of a       *)
(* review-apply compares revisions.  The staged build, whose own steps are *)
(* StagedBuild's, is one step here that may be killed halfway.             *)
(***************************************************************************)
EXTENDS Naturals, Sequences

CONSTANTS
    Procs,        \* CLI processes; with one process commands never overlap
    Candidates,   \* contents an author can give to the draft
    Original,     \* the content of a canonical file that predates the task's reviews
    NoFile,       \* there is no canonical file
    None,         \* "no such value" in a field
    Deps,         \* dependency lists a task can have
    Upstreams,    \* states of the dependencies' ledger rows and outputs
    Unaccepted,   \* statuses a failed command can leave: PACKED, or FAILED_LOCAL
                  \* when it used up the failure budget, which is not counted here
    MaxBuilds,    \* bound on recorded build-checks
    MaxReviews    \* bound on review requests

ASSUME ConstantsAssumption ==
    /\ MaxBuilds \in Nat /\ MaxReviews \in Nat
    /\ "PACKED" \in Unaccepted /\ Unaccepted \subseteq {"PACKED", "FAILED_LOCAL"}
    /\ {Original, NoFile, None} \cap Candidates = {}
    /\ Original # NoFile /\ None \notin {Original, NoFile}

Contents == Candidates \cup {Original}

VARIABLES
    row,        \* the task's ledger row
    canon,      \* the canonical Lean file
    log,        \* undo log of a staged build that was killed: the prior file
    draft,      \* the author's draft
    upstream,   \* what the dependencies' rows and outputs are now
    requests,   \* review requests on disk, by attempt
    results,    \* the reviewer's result file of each request
    receipts,   \* attempts with a receipt file
    reviews,    \* attempts with an authority-eligible row in the state database
    pc,         \* where each process is
    cmd,        \* the command each process runs
    mem,        \* the ledger row each process has in memory
    stale,      \* processes whose ledger revision is no longer the stored one
    tdeps,      \* the dependency list of the task a process resolved when it opened
    orig,       \* the status the process remembers as the one to go back to
    existing,   \* the process found a completed task with a canonical file
    cand,       \* the content a process builds or reviews
    att,        \* the attempt a review-apply applies
    built,      \* outcome of the process's build
    before      \* history: the canonical file when the process overwrote it

files == <<canon, log, draft, upstream, requests, results, receipts>>
local == <<cmd, tdeps, orig, existing, cand, att, built, before>>
ledger == <<row, mem, stale, reviews>>
vars == <<row, canon, log, draft, upstream, requests, results, receipts, reviews,
          pc, cmd, mem, stale, tdeps, orig, existing, cand, att, built, before>>

NewRow == [status |-> "DISCOVERED", ready |-> None, build |-> 0, deps |-> None,
           p2 |-> None, applied |-> None]

(* A task starts as planned, or as imported with a completed output.       *)
Init ==
    /\ \E d \in Deps :
        \/ row = [NewRow EXCEPT !.deps = d] /\ canon = NoFile
        \/ row = [NewRow EXCEPT !.deps = d, !.status = "COMPLETED"] /\ canon = Original
    /\ log = None
    /\ draft \in Candidates
    /\ upstream \in Upstreams
    /\ requests = <<>> /\ results = <<>>
    /\ receipts = {} /\ reviews = {}
    /\ pc = [p \in Procs |-> "idle"]
    /\ cmd = [p \in Procs |-> None]
    /\ mem = [p \in Procs |-> row]
    /\ stale = {}
    /\ tdeps = [p \in Procs |-> row.deps]
    /\ orig = [p \in Procs |-> None]
    /\ existing = [p \in Procs |-> FALSE]
    /\ cand = [p \in Procs |-> None]
    /\ att = [p \in Procs |-> 0]
    /\ built = [p \in Procs |-> FALSE]
    /\ before = [p \in Procs |-> None]

-----------------------------------------------------------------------------
(* The ledger calls.                                                       *)

Goto(p, l) == pc' = [pc EXCEPT ![p] = l]

(* A transaction leaves r in the row; its process adopts row and revision, *)
(* every other process that has the ledger open now has an old revision.   *)
Commit(p, r) ==
    /\ row' = r
    /\ mem' = [mem EXCEPT ![p] = r]
    /\ stale' = (stale \cup {q \in Procs : pc[q] # "idle"}) \ {p}

(* A transaction on fields this model leaves out still moves the revision. *)
Touch(p) == Commit(p, row)

(* A command opens the ledger; a review-apply names an answered request.   *)
Start(p) ==
    /\ pc[p] = "idle"
    /\ \E c \in {"build-check", "review-now", "review-existing", "review-apply"} :
        /\ cmd' = [cmd EXCEPT ![p] = c]
        /\ IF c = "review-apply"
           THEN \E a \in 1..Len(requests) :
                    /\ results[a] # "none"
                    /\ att' = [att EXCEPT ![p] = a]
                    /\ Goto(p, "validate")
           ELSE Goto(p, "register") /\ UNCHANGED att
    /\ mem' = [mem EXCEPT ![p] = row]
    /\ stale' = stale \ {p}
    /\ tdeps' = [tdeps EXCEPT ![p] = row.deps]
    /\ orig' = [orig EXCEPT ![p] = row.status]
    /\ before' = [before EXCEPT ![p] = None]
    /\ UNCHANGED <<row, reviews, existing, cand, built, files>>

(* ensure_task_registered writes the whole candidate snapshot, with the    *)
(* dependency list the command resolved from memory.                       *)
Register(p) ==
    /\ pc[p] = "register"
    /\ Commit(p, [row EXCEPT !.deps = tdeps[p]])
    /\ orig' = [orig EXCEPT ![p] = row.status]
    /\ Goto(p, IF cmd[p] = "review-existing" THEN "request" ELSE "sync")
    /\ UNCHANGED <<reviews, cmd, tdeps, existing, cand, att, built, before, files>>

(* _sync_stale_build_ready_candidate: a ready candidate that is no longer  *)
(* the draft is not ready.                                                 *)
Sync(p) ==
    /\ pc[p] = "sync"
    /\ IF mem[p].ready \in {None, draft}
       THEN UNCHANGED <<row, mem, stale>>
       ELSE Commit(p, [row EXCEPT !.ready = None])
    /\ Goto(p, IF cmd[p] = "build-check" THEN "build" ELSE "request")
    /\ UNCHANGED <<reviews, local, files>>

-----------------------------------------------------------------------------
(* build-check                                                             *)

RecoveredAlways == log   \* mutant: an undo log is replayed that is not there

(* The staged build first replays the undo log of a killed one.            *)
Recovered == IF log = None THEN canon ELSE log

(* The draft is read and built; a candidate that fails the hard checks or  *)
(* the temporary build never gets to the staged one.                       *)
BuildDraft(p) ==
    /\ pc[p] = "build"
    /\ cand' = [cand EXCEPT ![p] = draft]
    /\ existing' = [existing EXCEPT ![p] = mem[p].status = "COMPLETED" /\ canon # NoFile]
    /\ \E ok \in BOOLEAN : built' = [built EXCEPT ![p] = ok]
    /\ \/ canon' = Recovered /\ log' = None
       \/ ~built'[p] /\ UNCHANGED <<canon, log>>
    /\ Goto(p, "record")
    /\ UNCHANGED <<ledger, cmd, tdeps, orig, att, before,
                   draft, upstream, requests, results, receipts>>

(* finalize, first transaction: the build result and the ready candidate.  *)
RecordBuild(p) ==
    /\ pc[p] = "record" /\ row.build < MaxBuilds
    /\ Commit(p, [row EXCEPT !.build = @ + 1, !.ready = IF built[p] THEN cand[p] ELSE @])
    /\ Goto(p, "status")
    /\ UNCHANGED <<reviews, local, files>>

(* finalize, second transaction: the status.                               *)
RecordStatus(p) ==
    /\ pc[p] = "status"
    /\ \E s \in Unaccepted :
        /\ built[p] => s = "PACKED"
        /\ Commit(p, [row EXCEPT !.status = IF existing[p] THEN orig[p] ELSE s])
    /\ Goto(p, "done")
    /\ UNCHANGED <<reviews, local, files>>

-----------------------------------------------------------------------------
(* review-now, review-existing                                             *)

(* build_semantic_review_basis: the task's dependencies, its row r, the    *)
(* canonical file and the state of the dependencies.                       *)
Basis(deps, r) ==
    [deps |-> deps, status |-> r.status, ready |-> r.ready, build |-> r.build,
     output |-> canon, upstream |-> upstream]

(* The request files are written; a command with nothing to review, or     *)
(* whose sanity build of the canonical file fails, writes none.            *)
Request(p) ==
    /\ pc[p] = "request" /\ Len(requests) < MaxReviews
    /\ LET kind == IF cmd[p] = "review-now" THEN "candidate" ELSE "official_output"
           subject == IF cmd[p] = "review-now" THEN mem[p].ready ELSE canon
       IN /\ subject \notin {None, NoFile}
          /\ requests' = Append(requests, [kind |-> kind, subject |-> subject,
                                           basis |-> Basis(tdeps[p], mem[p])])
          /\ results' = Append(results, "none")
    /\ Goto(p, "bind")
    /\ UNCHANGED <<ledger, local, canon, log, draft, upstream, receipts>>

RequestRefused(p) ==
    /\ pc[p] = "request"
    /\ Goto(p, "failed")
    /\ UNCHANGED <<ledger, local, files>>

(* _set_current_review_metadata.                                           *)
Bind(p) ==
    /\ pc[p] = "bind"
    /\ Touch(p)
    /\ Goto(p, "done")
    /\ UNCHANGED <<reviews, local, files>>

-----------------------------------------------------------------------------
(* review-apply                                                            *)

Req(p) == requests[att[p]]
Answered(p) == results[att[p]] # "none"   \* mutant: any answer counts as a PASS
Passed(p) == results[att[p]] = "pass"
IsCandidate(p) == Req(p).kind = "candidate"
HasOutput(p) == mem[p].status = "COMPLETED" /\ canon # NoFile

(* already_promoted_candidate_review.                                      *)
Promoted(p) == HasOutput(p) /\ IsCandidate(p) /\ Passed(p) /\ canon = Req(p).subject

(* Mutant: only the subject is compared, not the review basis.             *)
SubjectIsFresh(p) ==
    Req(p).subject = IF IsCandidate(p) /\ ~Promoted(p) THEN mem[p].ready ELSE canon

(* _validate_review_input_freshness; a replay of what was already promoted *)
(* is compared with the receipt of the application instead.                *)
Fresh(p) ==
    LET now == Basis(tdeps[p], mem[p]) IN
    IF Promoted(p)
    THEN /\ mem[p].applied # None
         /\ requests[mem[p].applied.att] = Req(p)
         /\ mem[p].applied.post = now
    ELSE /\ Req(p).subject = IF IsCandidate(p) THEN mem[p].ready ELSE canon
         /\ Req(p).basis = now

Validate(p) ==
    /\ pc[p] = "validate"
    /\ existing' = [existing EXCEPT ![p] = HasOutput(p)]
    /\ Goto(p, IF ~Fresh(p) THEN "failed"
               ELSE IF Promoted(p) THEN "replayed"
               ELSE IF ~Passed(p) THEN "note"
               ELSE IF IsCandidate(p) THEN "promote" ELSE "rebuild")
    /\ UNCHANGED <<ledger, files, cmd, tdeps, orig, cand, att, built, before>>

(* The repair request of an answer that is not a clean PASS; a PASS whose  *)
(* task status is an exception writes none.                                *)
Note(p) ==
    /\ pc[p] = "note"
    /\ Touch(p) \/ UNCHANGED <<row, mem, stale>>
    /\ built' = [built EXCEPT ![p] = FALSE]
    /\ Goto(p, "finish")
    /\ UNCHANGED <<reviews, files, cmd, tdeps, orig, existing, cand, att, before>>

Overwritten(p, ok) == Req(p).subject   \* mutant: a failed build restores nothing
AfterBuild(p, ok) == IF ok THEN Req(p).subject ELSE Recovered

(* The staged build of the candidate, all or nothing.                      *)
Promote(p) ==
    /\ pc[p] = "promote"
    /\ before' = [before EXCEPT ![p] = Recovered]
    /\ log' = None
    /\ \E ok \in BOOLEAN :
        /\ built' = [built EXCEPT ![p] = ok]
        /\ canon' = AfterBuild(p, ok)
        /\ Goto(p, IF ok THEN "accept" ELSE "finish")
    /\ UNCHANGED <<ledger, cmd, tdeps, orig, existing, cand, att,
                   draft, upstream, requests, results, receipts>>

(* The canonical file is built again where it is, without the staging lock.*)
Rebuild(p) ==
    /\ pc[p] = "rebuild"
    /\ \E ok \in BOOLEAN :
        /\ built' = [built EXCEPT ![p] = ok]
        /\ Goto(p, IF ok THEN "accept" ELSE "finish")
    /\ UNCHANGED <<ledger, files, cmd, tdeps, orig, existing, cand, att, before>>

(* register_success.                                                       *)
Accept(p) ==
    /\ pc[p] = "accept"
    /\ Commit(p, [row EXCEPT !.status = "COMPLETED"])
    /\ Goto(p, IF IsCandidate(p) THEN "relabel" ELSE "finish")
    /\ UNCHANGED <<reviews, local, files>>

(* The markers of the superseded output are reset.                         *)
Relabel(p) ==
    /\ pc[p] = "relabel"
    /\ Touch(p)
    /\ Goto(p, "finish")
    /\ UNCHANGED <<reviews, local, files>>

RevisionHolds(p) == p \notin stale

ReceiptLater(p) == UNCHANGED receipts   \* mutant: the file comes after the COMMIT
WriteReceipt(p) == receipts' = receipts \cup {att[p]}

(* finish(success=True): the row with its receipt fields, the review row   *)
(* and the receipt file, if the ledger revision is the one in memory and   *)
(* the canonical file is the reviewed subject.                             *)
FinishOk(p) ==
    /\ pc[p] = "finish" /\ built[p]
    /\ RevisionHolds(p) /\ canon = Req(p).subject
    /\ LET r == [row EXCEPT !.status = "COMPLETED", !.p2 = "pass",
                            !.ready = IF IsCandidate(p) THEN None ELSE @]
       IN Commit(p, [r EXCEPT !.applied = [att |-> att[p], post |-> Basis(tdeps[p], r)]])
    /\ reviews' = reviews \cup {att[p]}
    /\ WriteReceipt(p)
    /\ Goto(p, "applied")
    /\ UNCHANGED <<local, canon, log, draft, upstream, requests, results>>

(* finish(success=False): the status goes back, the verdict is recorded,   *)
(* which is a PASS when it was the build that failed.                      *)
FinishFail(p) ==
    /\ pc[p] = "finish" /\ ~built[p]
    /\ RevisionHolds(p)
    /\ \E s \in Unaccepted :
        Commit(p, [row EXCEPT
                     !.status = IF existing[p] \/ ~IsCandidate(p) THEN orig[p] ELSE s,
                     !.p2 = IF Passed(p) THEN "pass" ELSE "unclean"])
    /\ Goto(p, IF Passed(p) /\ ~IsCandidate(p) THEN "flag" ELSE "failed")
    /\ UNCHANGED <<reviews, local, files>>

(* StateConcurrencyError, or the output differs from the reviewed bundle:  *)
(* the transaction is rolled back and the command ends with an error.      *)
FinishRaises(p) ==
    /\ pc[p] = "finish"
    /\ ~RevisionHolds(p) \/ (built[p] /\ canon # Req(p).subject)
    /\ Goto(p, "failed")
    /\ UNCHANGED <<ledger, local, files>>

(* The rebuild failed: mark the output as in need of repair.               *)
Flag(p) ==
    /\ pc[p] = "flag"
    /\ Touch(p)
    /\ Goto(p, "failed")
    /\ UNCHANGED <<reviews, local, files>>

-----------------------------------------------------------------------------
(* Processes end, or are killed.                                           *)

Ended == {"done", "failed", "replayed", "applied"}

(* What the process held in memory is gone.                                *)
Forget(p) ==
    /\ Goto(p, "idle")
    /\ cmd' = [cmd EXCEPT ![p] = None]
    /\ mem' = [mem EXCEPT ![p] = row]
    /\ tdeps' = [tdeps EXCEPT ![p] = row.deps]
    /\ stale' = stale \ {p}
    /\ orig' = [orig EXCEPT ![p] = None]
    /\ existing' = [existing EXCEPT ![p] = FALSE]
    /\ cand' = [cand EXCEPT ![p] = None]
    /\ att' = [att EXCEPT ![p] = 0]
    /\ built' = [built EXCEPT ![p] = FALSE]
    /\ before' = [before EXCEPT ![p] = None]
    /\ UNCHANGED <<row, reviews>>

End(p) == pc[p] \in Ended /\ Forget(p) /\ UNCHANGED files

Kill(p) == pc[p] \notin Ended \cup {"idle"} /\ Forget(p) /\ UNCHANGED files

(* Killed inside the staged build: the candidate is on the canonical path  *)
(* and the undo log waits for the next staged build.                       *)
KillInPromotion(p) ==
    /\ pc[p] = "promote"
    /\ log' = Recovered
    /\ canon' = Req(p).subject
    /\ Forget(p)
    /\ UNCHANGED <<draft, upstream, requests, results, receipts>>

(* Killed between the receipt file and the COMMIT of finish.               *)
KillBeforeCommit(p) ==
    /\ pc[p] = "finish" /\ built[p] /\ RevisionHolds(p) /\ canon = Req(p).subject
    /\ WriteReceipt(p)
    /\ Forget(p)
    /\ UNCHANGED <<canon, log, draft, upstream, requests, results>>

-----------------------------------------------------------------------------
(* What the rest of the workspace does.                                    *)

ReconciledInPart(d) ==   \* mutant: the receipt of the old review stays
    [row EXCEPT !.deps = d, !.status = "DISCOVERED", !.p2 = None, !.ready = None]

Reconciled(d) ==
    [row EXCEPT !.deps = d, !.status = "DISCOVERED", !.p2 = None, !.ready = None,
                !.applied = None]

(* dependency-reconcile: one transaction, compare-and-swap on the list.    *)
Reconcile(p) ==
    /\ pc[p] = "idle"
    /\ \E d \in Deps \ {row.deps} : Commit(p, Reconciled(d))
    /\ UNCHANGED <<pc, reviews, local, files>>

(* A command for another task commits to the shared ledger: whoever has it *)
(* open is overtaken, and the task may be a dependency of this one.        *)
OtherTask ==
    /\ upstream' \in Upstreams
    /\ stale' = {p \in Procs : pc[p] # "idle"}
    /\ UNCHANGED <<row, mem, reviews, pc, local, canon, log, draft, requests,
                   results, receipts>>

AuthorEdits ==
    /\ draft' \in Candidates \ {draft}
    /\ UNCHANGED <<ledger, pc, local, canon, log, upstream, requests, results, receipts>>

ReviewerAnswers ==
    /\ \E a \in 1..Len(requests), v \in {"pass", "unclean"} :
        results[a] = "none" /\ results' = [results EXCEPT ![a] = v]
    /\ UNCHANGED <<ledger, pc, local, canon, log, draft, upstream, requests, receipts>>

BuildCheck(p) == Register(p) \/ Sync(p) \/ BuildDraft(p) \/ RecordBuild(p) \/ RecordStatus(p)
ReviewNow(p) == Request(p) \/ RequestRefused(p) \/ Bind(p)
Finish(p) == FinishOk(p) \/ FinishFail(p) \/ FinishRaises(p) \/ Flag(p)
Apply(p) == Validate(p) \/ Note(p) \/ Promote(p) \/ Rebuild(p) \/ Accept(p) \/ Relabel(p)
            \/ Finish(p)
Stop(p) == End(p) \/ Kill(p) \/ KillInPromotion(p) \/ KillBeforeCommit(p)

Next ==
    \/ \E p \in Procs : Start(p) \/ BuildCheck(p) \/ ReviewNow(p) \/ Apply(p) \/ Stop(p)
                        \/ Reconcile(p)
    \/ OtherTask \/ AuthorEdits \/ ReviewerAnswers

Spec == Init /\ [][Next]_vars

-----------------------------------------------------------------------------
Statuses == {"DISCOVERED", "PACKED", "COMPLETED", "FAILED_LOCAL"}
Labels == {"idle", "register", "sync", "build", "record", "status", "request", "bind",
           "validate", "note", "promote", "rebuild", "accept", "relabel", "finish",
           "flag"} \cup Ended
Bases == [deps : Deps, status : Statuses, ready : Candidates \cup {None},
          build : 0..MaxBuilds, output : Contents \cup {NoFile}, upstream : Upstreams]
Requests == [kind : {"candidate", "official_output"}, subject : Contents, basis : Bases]
Rows == [status : Statuses, ready : Candidates \cup {None}, build : 0..MaxBuilds,
         deps : Deps, p2 : {None, "pass", "unclean"},
         applied : {None} \cup [att : 1..MaxReviews, post : Bases]]

(* Every variable has its type.                                            *)
TypeOK ==
    /\ row \in Rows
    /\ canon \in Contents \cup {NoFile}
    /\ log \in Contents \cup {NoFile, None}
    /\ draft \in Candidates /\ upstream \in Upstreams
    /\ requests \in Seq(Requests) /\ Len(requests) <= MaxReviews
    /\ results \in Seq({"none", "pass", "unclean"}) /\ Len(results) = Len(requests)
    /\ receipts \subseteq 1..Len(requests) /\ reviews \subseteq 1..Len(requests)
    /\ pc \in [Procs -> Labels]
    /\ mem \in [Procs -> Rows] /\ stale \subseteq Procs
    /\ tdeps \in [Procs -> Deps] /\ orig \in [Procs -> Statuses \cup {None}]
    /\ existing \in [Procs -> BOOLEAN] /\ built \in [Procs -> BOOLEAN]
    /\ cand \in [Procs -> Candidates \cup {None}]
    /\ att \in [Procs -> 0..Len(requests)]
    /\ before \in [Procs -> Contents \cup {NoFile, None}]

PassedFor(c) == \E a \in 1..Len(requests) : results[a] = "pass" /\ requests[a].subject = c

(* Whatever is killed or overlaps, the canonical file is the one the task  *)
(* began with or a content some reviewer passed.                           *)
CanonicalIsReviewed == canon \in {NoFile, Original} \/ PassedFor(canon)

(* An acceptance in the ledger row has all its evidence: the reviewer's    *)
(* PASS, the eligible review row and the receipt file, although the file   *)
(* is not part of the transaction.                                         *)
AcceptanceHasEvidence ==
    /\ reviews \subseteq receipts
    /\ row.applied # None => row.applied.att \in reviews
    /\ \A a \in receipts : results[a] = "pass"

(* An acceptance in the ledger row is for the dependency list in that row. *)
AcceptedForCurrentDeps ==
    row.applied # None => requests[row.applied.att].basis.deps = row.deps

(* A review-apply that overwrote the canonical file and then fails has put *)
(* the file back, unless another command's commit overtook it: then finish *)
(* raises after the promotion, and the promoted bytes stay.                *)
UncontestedFailureRestores ==
    \A p \in Procs : pc[p] = "failed" /\ before[p] # None /\ p \notin stale =>
                         canon = before[p] \/ canon # Req(p).subject

(* What a review-apply accepts was reviewed for the dependency list and    *)
(* the build count that the ledger row has at the moment of acceptance.    *)
(* What the dependencies' rows and outputs (upstream) have become since    *)
(* the validation is not part of it: the code does not look again.         *)
AcceptanceIsFresh ==
    [][\A p \in Procs : pc[p] = "finish" /\ pc'[p] = "applied" =>
         Req(p).basis.deps = row.deps /\ Req(p).basis.build = row.build]_vars

(* The transaction that accepts starts from the row its process has seen:  *)
(* no update of another process comes between.                             *)
AcceptanceSawTheRow ==
    [][\A p \in Procs : pc[p] = "finish" /\ pc'[p] = "applied" => mem[p] = row]_vars

(* A task is cleanly completed only through review-apply: with status      *)
(* COMPLETED and phase2_status pass, the canonical file is one whose       *)
(* review was applied.                                                     *)
CleanCompletionIsApplied ==
    row.status = "COMPLETED" /\ row.p2 = "pass" /\ (\A p \in Procs : pc[p] = "idle") =>
        \E a \in receipts : requests[a].subject = canon

(* Once a review-apply has accepted the canonical file, only a             *)
(* review-apply replaces it.                                               *)
AcceptedOutputStays ==
    [][row.applied # None /\ canon = requests[row.applied.att].subject /\ canon' # canon =>
         \E p \in Procs : pc[p] = "promote"]_vars
=============================================================================
