---------------------------- MODULE MCReviewLoop ----------------------------
(***************************************************************************)
(* Small instances of ReviewLoop, and the checks of ReviewContract that    *)
(* are made once, before the run: its operators against what the code's    *)
(* loops compute and against a second definition.                          *)
(***************************************************************************)
EXTENDS ReviewLoop

CONSTANTS c1, c2, old, m1, route

-----------------------------------------------------------------------------
(* A request, an answer nothing can be said against, and classes *)

Class(passes, defect, blocked, child) ==
    [empty |-> FALSE, passes |-> passes, word |-> passes, defect |-> defect,
     blocked |-> blocked, child |-> child]

NoClass == [Class("none", FALSE, FALSE, FALSE) EXCEPT !.empty = TRUE]

SomeClasses ==
    {NoClass, Class("other", FALSE, FALSE, TRUE)}
    \cup {Class(p, d, b, FALSE) :
             p \in {"proof_bearing", "definition_interface", "remark", "excepted", "other"},
             d \in BOOLEAN, b \in BOOLEAN}

SomeTasks ==
    [type : SUBSET {"proof_bearing", "definition_interface", "remark"},
     prefix : {"proof_bearing", "definition_interface", "remark", "none"},
     isChild : BOOLEAN, exceptions : {{}, {"excepted"}}]

Theorem == [type |-> {"proof_bearing"}, prefix |-> "none", isChild |-> FALSE,
            exceptions |-> {"excepted"}]

Basis == [task |-> "t", evidenceClasses |-> {"source_tex"}, profile |-> "mat",
          sourceKind |-> "source_tex", texPresent |-> TRUE,
          obligations |-> {[id |-> "o", blocking |-> TRUE, passing |-> FALSE]},
          focus |-> {}, undecomposed |-> FALSE, consumers |-> {"k1", "k2"}]

Input == [formed |-> TRUE, schemaKnown |-> TRUE, promptVersion |-> 11,
          supported |-> {9, 10, 11}, rubricVersion |-> 9, rubric |-> 9,
          basis |-> Basis, basisHash |-> Basis, task |-> "t", kind |-> "candidate",
          subjectHash |-> "h", file |-> "f", inputFile |-> "i",
          candidate |-> [hash |-> "h", lean |-> "h", file |-> "f"],
          bundle |-> [there |-> TRUE, task |-> "t", path |-> "f", hash |-> "h",
                      files |-> {[path |-> "f", hash |-> "h"]},
                      bundleHash |-> {[path |-> "f", hash |-> "h"]}],
          context |-> "x", contextHash |-> "x", legacy |-> FALSE]

Item(key, status) == [key |-> key, status |-> status, verified |-> TRUE]

Review(i) ==
    [isObject |-> TRUE, fields |-> TRUE, hasObligations |-> TRUE,
     hasDivergences |-> TRUE, shapes |-> TRUE,
     proofClass |-> Class("proof_bearing", FALSE, FALSE, FALSE),
     completionClass |-> Class("proof_bearing", FALSE, FALSE, FALSE),
     reviewer |-> [role |-> "independent_read_only_reviewer", readOnly |-> TRUE,
                   didEdit |-> FALSE, usedRequest |-> TRUE, attested |-> TRUE],
     task |-> i.task, promptVersion |-> i.promptVersion,
     rubricVersion |-> i.rubricVersion, inputHash |-> i, inputFile |-> "",
     candidateHash |-> "h", verdict |-> "pass",
     route |-> [status |-> "covered", stopGo |-> "go", filledIn |-> TRUE],
     evidence |-> [status |-> "covered", items |-> <<Item("source_tex", "covered")>>,
                   blockingIssues |-> FALSE],
     divergences |-> {}, claims |-> TRUE, mapping |-> TRUE,
     spine |-> [status |-> "covered", steps |-> TRUE, missing |-> FALSE],
     interface |-> "covered",
     downstream |-> [status |-> "covered", blockingIssues |-> FALSE,
                     checked |-> <<Item("k1", "covered"), Item("k2", "not_applicable")>>],
     weakenings |-> {"not_present"},
     obligations |-> [status |-> "covered", openBlockers |-> FALSE,
                      items |-> <<Item("o", "covered")>>]]

LegacyInput == [Input EXCEPT !.promptVersion = 10, !.legacy = TRUE]

-----------------------------------------------------------------------------
(* Checks *)

Lists(n) == UNION {[1..k -> [key : {"k1", "k2"}, verified : BOOLEAN,
                             status : {"covered", "not_applicable", "blocked"}]] : k \in 0..n}

\* What the code's loop leaves in its dictionary.
Dictionary(entries) ==
    FoldLeft(LAMBDA d, e : [d EXCEPT ![e.key] = e.status],
             [k \in {"k1", "k2"} |-> "absent"], entries)

\* The last entry of a key is what the loop over the entries leaves.
ASSUME LastEntryAssumption ==
    \A entries \in Lists(3) : \A k \in {"k1", "k2"} :
        Dictionary(entries)[k] =
            IF Listed(entries, k) THEN LastOf(entries, k).status ELSE "absent"

\* A pass is accepted for a task with direct consumers exactly when the
\* dictionary has a harmless entry for each of them.
ASSUME ConsumersAssumption ==
    \A entries \in Lists(3) :
        LET r == [Review(Input) EXCEPT !.downstream.checked = entries] IN
        Accepted(Input, r) <=>
            \A k \in {"k1", "k2"} : Dictionary(entries)[k] \notin {"absent", "blocked"}

\* One thing wrong with the request or with the answer and the file is
\* refused, whichever it is; the same things are no obstacle to a failing
\* review unless they are about the form or the binding.
Unbound(i) ==
    LET r == Review(i) IN
    {[r EXCEPT !.isObject = FALSE], [r EXCEPT !.fields = FALSE], [r EXCEPT !.shapes = FALSE],
     [r EXCEPT !.proofClass = NoClass], [r EXCEPT !.completionClass = NoClass],
     [r EXCEPT !.reviewer.role = "author"], [r EXCEPT !.reviewer.didEdit = TRUE],
     [r EXCEPT !.reviewer.attested = FALSE], [r EXCEPT !.task = "other"],
     [r EXCEPT !.promptVersion = 1], [r EXCEPT !.inputHash = [i EXCEPT !.context = "y"]],
     [r EXCEPT !.inputFile = "j"], [r EXCEPT !.candidateHash = "g"],
     [r EXCEPT !.verdict = "accept"], [r EXCEPT !.route.stopGo = "maybe"],
     [r EXCEPT !.evidence.status = "fine"], [r EXCEPT !.spine.status = "not_applicable"]}

Incomplete(i) ==
    LET r == Review(i) IN
    {[r EXCEPT !.route.stopGo = "stop"], [r EXCEPT !.route.filledIn = FALSE],
     [r EXCEPT !.evidence.blockingIssues = TRUE], [r EXCEPT !.evidence.items = <<>>],
     [r EXCEPT !.evidence.items = <<Item("source_tex", "not_applicable")>>],
     [r EXCEPT !.evidence.items = <<Item("source_tex", "missing"), Item("source_tex", "covered")>>],
     [r EXCEPT !.claims = FALSE], [r EXCEPT !.mapping = FALSE],
     [r EXCEPT !.spine.steps = FALSE], [r EXCEPT !.interface = "partial"],
     [r EXCEPT !.downstream.status = "unclear"], [r EXCEPT !.weakenings = {}],
     [r EXCEPT !.weakenings = {"not_present", "present"}],
     [r EXCEPT !.downstream.checked = <<>>], [r EXCEPT !.downstream.blockingIssues = TRUE]}

BadInputs ==
    {[Input EXCEPT !.formed = FALSE], [Input EXCEPT !.promptVersion = 8],
     [Input EXCEPT !.rubricVersion = 8], [Input EXCEPT !.basisHash.task = "u"],
     [Input EXCEPT !.task = "u"], [Input EXCEPT !.kind = "draft"],
     [Input EXCEPT !.candidate.lean = "g"], [Input EXCEPT !.candidate.file = "g"],
     [Input EXCEPT !.bundle.hash = "g"], [Input EXCEPT !.bundle.files = {}],
     [Input EXCEPT !.contextHash = "y"]}

ASSUME RefusalsAssumption ==
    /\ \A i \in {Input, LegacyInput} : Accepted(i, Review(i))
    /\ \A i \in BadInputs : ~Accepted(i, Review(i))
    /\ \A i \in {Input, LegacyInput} : \A r \in Unbound(i) :
          ~Accepted(i, r) /\ (r.verdict = "pass" => ~Accepted(i, [r EXCEPT !.verdict = "fail"]))
    /\ \A i \in {Input, LegacyInput} : \A r \in Incomplete(i) :
          ~Accepted(i, r) /\ Accepted(i, [r EXCEPT !.verdict = "fail"])
    /\ ~Accepted(Input, [Review(Input) EXCEPT !.spine.missing = TRUE])
    /\ Accepted(LegacyInput, [Review(LegacyInput) EXCEPT !.spine.missing = TRUE])
    /\ ~Accepted(LegacyInput, [Review(LegacyInput) EXCEPT
                                  !.obligations.items = <<[Item("o", "covered") EXCEPT !.verified = FALSE]>>])

\* The task status against a definition by what each status requires.
ASSUME TaskStatusAssumption ==
    \A t \in SomeTasks, p \in SomeClasses, c \in SomeClasses :
    \A v \in {"pass", "fail", "inconclusive"} :
        LET cs     == {p, c} \ {NoClass}
            clean  == cs # {} /\ \A x \in cs : ~x.defect /\ ~x.blocked
            excuse == \A x \in cs : x.word \in t.exceptions
            fits   == \A x \in cs : x.passes = Role(t)
            child  == t.isChild /\ \E x \in cs : x.child
                      /\ \A y \in cs : y.child \/ y.passes = "proof_bearing"
            status == TaskStatus(t, v, cs)
        IN  /\ status = "pass" <=> v = "pass" /\ clean /\ ~excuse /\ (fits \/ child)
            /\ status = "allowed_exception" <=> v = "pass" /\ clean /\ excuse
            /\ status = "blocked" <=> /\ \E x \in cs : x.blocked
                                      /\ \A x \in cs : ~x.defect

\* Every kind of outcome the auto-loop is modelled for is the outcome of some
\* answer to a request.
ASSUME OutcomesAssumption ==
    {Outcome(Input, [Review(Input) EXCEPT !.verdict = v, !.proofClass = c,
                                          !.completionClass = c], Theorem) :
        v \in {"pass", "fail", "inconclusive", "accept"}, c \in SomeClasses} = Verdicts

\* The triage lets a failed review go on without a diagnosis of its route only
\* when its text is about Lean or about a missing step of an accepted route.
ASSUME TriageAssumption ==
    \A text \in SUBSET {"lean", "accepted_route", "missing_step", "mismatch", "adapter",
                        "premise", "debt", "wrong_route"} :
        AsksForDiagnosis(Category(text, "fail")) <=>
            "lean" \notin text /\ ~({"accepted_route", "missing_step"} \subseteq text)
=============================================================================
