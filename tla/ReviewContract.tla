--------------------------- MODULE ReviewContract ----------------------------
(***************************************************************************)
(* What a reviewer's JSON file amounts to: phase2_semantic_review          *)
(* .normalize_reviewer_result, phase2_review_decision, phase2_task_status  *)
(* and the triage of phase2_semantic_fail_triage.  Pure operators, without *)
(* state: review-apply evaluates them on every file it reads.              *)
(*                                                                         *)
(* Every check that fails gives the same outcome, "operational_failure":   *)
(* the checks differ in the sentence they write.  So the order of the      *)
(* code's early returns is not kept and Accepted is a conjunction.  Hashes *)
(* are the values they hash, texts are the features the code looks for.    *)
(***************************************************************************)
EXTENDS Naturals, FiniteSets

\* What review-apply and the auto-loop tell apart.  A "malformed" file is
\* refused; "downgraded" is a pass whose task status is fail, "blocked" one
\* whose task status waits for a dependency, "exception" one that is an
\* allowed exception.
Verdicts == {"pass", "fail", "inconclusive", "downgraded", "blocked",
             "exception", "malformed"}

Statuses5 == {"covered", "partial", "missing", "violated", "unclear"}

Statuses6 == Statuses5 \cup {"not_applicable"}

Harmless == {"covered", "not_applicable"}

StopGo == {"go", "stop", "needs_reassembly", "needs_route_redesign", "unclear",
           "not_applicable"}

SubjectKinds == {"candidate", "official_output", "existing_support", "external_pr"}

-----------------------------------------------------------------------------
(* The request a result answers *)

\* The bundle, where there is one, lists files, names the request's task and
\* primary file, hashes to what it lists and lists that file with that hash.
BundleBound(i) ==
    i.bundle.there =>
        LET b == i.bundle IN
        /\ b.files # {} /\ b.bundleHash = b.files
        /\ b.task = i.task /\ b.path = i.file /\ b.hash = i.subjectHash
        /\ [path |-> i.file, hash |-> i.subjectHash] \in b.files

InputBound(i) ==
    /\ i.schemaKnown /\ i.promptVersion \in i.supported /\ i.rubricVersion = i.rubric
    /\ i.basisHash = i.basis /\ i.task = i.basis.task
    /\ i.kind \in SubjectKinds
    /\ i.candidate.hash = i.subjectHash /\ i.candidate.lean = i.subjectHash
    /\ i.candidate.file = i.file
    /\ BundleBound(i)
    /\ i.contextHash = i.context

\* The loops of the code fill a dictionary from a list of entries: the last
\* entry for a key is the one that counts.
LastOf(entries, key) ==
    LET mine == {n \in DOMAIN entries : entries[n].key = key}
    IN  entries[CHOOSE n \in mine : \A m \in mine : m <= n]

Listed(entries, key) == \E n \in DOMAIN entries : entries[n].key = key

Entry(entries) == {entries[n] : n \in DOMAIN entries}

-----------------------------------------------------------------------------
(* The parts of a result *)

Independent(r) ==
    LET s == r.reviewer IN
    /\ s.role = "independent_read_only_reviewer"
    /\ s.readOnly /\ ~s.didEdit /\ s.usedRequest /\ s.attested

\* The result names the request it answers.  The path of the request may be
\* left out.
AnswersRequest(i, r) ==
    /\ r.task = i.task
    /\ r.promptVersion = i.promptVersion /\ r.rubricVersion = i.rubricVersion
    /\ r.inputHash = i
    /\ r.inputFile \in {"", i.inputFile}
    /\ r.candidateHash = i.candidate.hash

RouteOk(r) ==
    /\ r.route.status \in Statuses6 /\ r.route.stopGo \in StopGo
    /\ r.verdict = "pass" =>
          r.route.status \in Harmless /\ r.route.stopGo = "go" /\ r.route.filledIn

EvidenceOk(i, r) ==
    LET e == r.evidence IN
    /\ e.status \in Statuses6
    /\ \A item \in Entry(e.items) : item.key # "" /\ item.status \in Statuses6
    /\ r.verdict = "pass" =>
          /\ e.status = "covered" /\ ~e.blockingIssues
          /\ \A class \in i.basis.evidenceClasses :
                Listed(e.items, class) /\ LastOf(e.items, class).status \in Harmless

\* Only the cordis profile asks for divergences; there the field must be
\* present and may be null (the empty set here).
DivergenceOk(i, r) ==
    i.basis.profile = "cordis" =>
        /\ \A d \in r.divergences :
              d \in {"documented_divergence", "resolve_to_intended", "weakening_risk"}
        /\ r.verdict = "pass" => "weakening_risk" \notin r.divergences

\* A source-backed pass needs the TeX, and whatever it says of the TeX has to
\* be "covered", in every entry.
SourceOk(i, r) ==
    r.verdict = "pass" /\ i.basis.sourceKind = "source_tex" =>
        /\ i.basis.texPresent
        /\ \A item \in Entry(r.evidence.items) :
              item.key = "source_tex" => item.status = "covered"

\* The sections a pass has to fill in.  Older prompts review a list of proof
\* obligations instead of the missing source steps.
SectionsOk(i, r) ==
    /\ {r.spine.status, r.interface, r.downstream.status} \subseteq Statuses5
    /\ r.verdict = "pass" =>
          /\ r.claims /\ r.mapping
          /\ r.spine.status = "covered" /\ r.spine.steps
          /\ i.legacy \/ ~r.spine.missing
          /\ r.interface = "covered" /\ r.downstream.status = "covered"

WeakeningsOk(r) ==
    r.verdict = "pass" =>
        /\ r.weakenings # {}
        /\ r.weakenings \subseteq {"not_present", "not_applicable"}

ItemStatuses == Statuses6 \cup {"accepted_as_proof_debt"}

PassingItems == Harmless \cup {"accepted_as_proof_debt"}

ObligationsShaped(r) ==
    /\ r.obligations.status \in Statuses5
    /\ \A item \in Entry(r.obligations.items) : item.status \in ItemStatuses

ObligationsRequired(i) ==
    LET open == {o \in i.basis.obligations : o.blocking /\ ~o.passing}
        ids  == {o.id : o \in open}
    IN  IF i.basis.focus = {} THEN ids ELSE ids \cap i.basis.focus

\* A "covered" obligation needs a verified contract in its last entry.
ObligationsOk(i, r) ==
    i.legacy =>
        /\ ObligationsShaped(r)
        /\ r.verdict = "pass" =>
              /\ r.obligations.status = "covered" /\ ~r.obligations.openBlockers
              /\ ~i.basis.undecomposed
              /\ \A o \in ObligationsRequired(i) :
                    /\ Listed(r.obligations.items, o)
                    /\ LastOf(r.obligations.items, o).status \in PassingItems
                    /\ LastOf(r.obligations.items, o).status = "covered" =>
                          LastOf(r.obligations.items, o).verified

\* Consumers are looked at only when the basis lists some.
ConsumersOk(i, r) ==
    r.verdict = "pass" /\ i.basis.consumers # {} =>
        LET checked == r.downstream.checked IN
        /\ \A item \in Entry(checked) :
              item.key # "" /\ item.status \in {"covered", "not_applicable", "blocked"}
        /\ \A c \in i.basis.consumers : Listed(checked, c) /\ LastOf(checked, c).status # "blocked"
        /\ ~r.downstream.blockingIssues

-----------------------------------------------------------------------------
(* normalize_reviewer_result: does the file carry a semantic verdict? *)

Required(i, r) ==
    /\ r.fields                           \* every required field is there
    /\ i.legacy => r.hasObligations
    /\ i.basis.profile = "cordis" => r.hasDivergences
    /\ ~r.proofClass.empty /\ ~r.completionClass.empty
    /\ r.shapes                           \* lists are lists, objects are objects

Accepted(i, r) ==
    /\ i.formed /\ InputBound(i)
    /\ r.isObject /\ Required(i, r)
    /\ Independent(r) /\ AnswersRequest(i, r)
    /\ r.verdict \in {"pass", "fail", "inconclusive"}
    /\ RouteOk(r) /\ EvidenceOk(i, r) /\ DivergenceOk(i, r) /\ SourceOk(i, r)
    /\ SectionsOk(i, r) /\ WeakeningsOk(r) /\ ObligationsOk(i, r)
    /\ ConsumersOk(i, r)

-----------------------------------------------------------------------------
(* The task status.  A class of the reviewer is a word; what matters of it  *)
(* is which marker it contains, which list of prefixes it starts with and   *)
(* whether it is, exactly, a bridge, a child class or an exception.         *)

\* A marker of the task's type decides before the prefix of its name, and
\* proof before definition before remark.
Role(t) ==
    LET known == {"proof_bearing", "definition_interface", "remark"} IN
    CASE "proof_bearing" \in t.type -> "proof_bearing"
      [] "proof_bearing" \notin t.type /\ "definition_interface" \in t.type ->
            "definition_interface"
      [] t.type \cap known = {"remark"} -> "remark"
      [] t.type \cap known = {} /\ t.prefix \in known -> t.prefix
      [] OTHER -> "unknown"

Classes(r) ==
    {c \in {r.proofClass, r.completionClass} : ~c.empty}

FitsRole(t, c) == c.passes = Role(t) /\ Role(t) # "unknown"

ChildPass(t, classes) ==
    /\ t.isChild
    /\ \E c \in classes : c.child
    /\ \A c \in classes : c.child \/ c.passes = "proof_bearing"

\* classify_phase2_task_status
TaskStatus(t, verdict, classes) ==
    CASE classes = {} -> "fail"
      [] classes # {} /\ \E c \in classes : c.defect -> "fail"
      [] /\ classes # {} /\ \A c \in classes : ~c.defect
         /\ \E c \in classes : c.blocked -> "blocked"
      [] OTHER ->
            IF verdict # "pass" THEN "fail"
            ELSE IF \A c \in classes : c.word \in t.exceptions THEN "allowed_exception"
            ELSE IF ChildPass(t, classes) \/ \A c \in classes : FitsRole(t, c) THEN "pass"
            ELSE "fail"

\* What review-apply acts on: a file without a semantic verdict is refused,
\* and only a pass is asked for its task status.
Outcome(i, r, t) ==
    IF ~Accepted(i, r) THEN "malformed"
    ELSE IF r.verdict # "pass" THEN r.verdict
    ELSE LET s == TaskStatus(t, r.verdict, Classes(r))
         IN  CASE s = "pass" -> "pass"
               [] s = "blocked" -> "blocked"
               [] s = "allowed_exception" -> "exception"
               [] s = "fail" -> "downgraded"

-----------------------------------------------------------------------------
(* The triage of a failed review: the first category whose words its text   *)
(* has.  All but the first two, and a review that did not fail, ask for a   *)
(* diagnosis of the route before the next draft.                            *)

Category(text, verdict) ==
    CASE "lean" \in text -> "lean_engineering"
      [] "lean" \notin text /\ {"accepted_route", "missing_step"} \subseteq text ->
            "missing_step"
      [] OTHER ->
            IF "mismatch" \in text THEN "statement_or_source_mismatch"
            ELSE IF "adapter" \in text THEN "mathlib_adapter"
            ELSE IF "premise" \in text THEN "public_premise"
            ELSE IF "debt" \in text THEN "private_axiom_or_open_math_debt"
            ELSE IF "wrong_route" \in text THEN "wrong_route"
            ELSE IF verdict \in {"fail", "inconclusive"} THEN "unclear_semantic_failure"
            ELSE "not_a_semantic_failure"

AsksForDiagnosis(category) ==
    category \notin {"lean_engineering", "missing_step", "not_a_semantic_failure"}
=============================================================================
