------------------------------ MODULE Planning -------------------------------
(***************************************************************************)
(* Phases 0 and 1: a cleaned TeX draft becomes an input, and the plan an   *)
(* agent draws up for it becomes rows of the ledger, a plan file and       *)
(* dependency decisions.  Pure operators: what each command accepts and    *)
(* what it leaves behind, stopped half way or not.                         *)
(*                                                                         *)
(* A TeX text is the kinds of its subsection titles, the faults Phase 0    *)
(* looks for and the environments Phase 1 counts.  A block of a plan is    *)
(* its id, its type, its content with the references it makes, and the     *)
(* ids it declares.                                                        *)
(***************************************************************************)
EXTENDS TaskIds

CONSTANTS NumeralPrefix     \* <<m, n>>: the digits of n begin with those of m

-----------------------------------------------------------------------------
\* Phase 0.

\* _parse_page_range and _extract_pdf_pages: physical pages, inclusive.
PagesAccepted(first, last, total) == 1 <= first /\ first <= last /\ last <= total

\* One numbered subsection, or one Problems section: the same rule in Phase
\* 0 and in Phase 1.
Many(units, kind) == \E i, j \in DOMAIN units : i # j /\ units[i] = kind /\ units[j] = kind
SourceUnitError(units) ==
    \/ Many(units, "numbered")
    \/ Contains(units, "numbered") /\ Contains(units, "problems")

\* What a draft can have wrong, beside its source units.
Shapes == {"missing_section_heading", "pdf_noise", "pdf_page_number",
           "definition_box", "theorem_box", "example_format"}
ShapeFindings(tex) ==
    (tex.faults \cap Shapes) \cup
    (IF SourceUnitError(tex.units) THEN {"multiple_source_units"} ELSE {})

\* pack: [exists, draft], draft: "missing", "empty" or a text.
Phase0Findings(pack) ==
    IF ~pack.exists THEN {"missing_pack"}
    ELSE IF pack.draft = "missing" THEN {"missing_draft"}
    ELSE IF pack.draft = "empty" THEN {"empty_draft"}
    ELSE ShapeFindings(pack.text)

\* write_phase0_pack keeps a draft, and reports that exist, of an earlier pack.
Phase0Written(pack) ==
    [exists |-> TRUE, text |-> pack.text,
     draft |-> IF pack.draft = "missing" THEN "empty" ELSE pack.draft,
     report |-> IF pack.report = "missing" THEN "not_run" ELSE pack.report,
     applied |-> IF pack.applied = "missing" THEN "not_applied" ELSE pack.applied]

Phase0Validated(pack) ==
    IF ~pack.exists THEN pack
    ELSE [pack EXCEPT !.report = IF Phase0Findings(pack) = {} THEN "pass" ELSE "fail"]

\* apply_phase0_pack validates again, whatever the report on disk says.
Phase0Applied(pack, input) ==
    LET p == Phase0Validated(pack)
    IN  IF Phase0Findings(pack) # {}
        THEN [pack |-> IF p.exists THEN [p EXCEPT !.applied = "failed"] ELSE p,
              input |-> input]
        ELSE [pack |-> [p EXCEPT !.applied = "applied"], input |-> p.text]

-----------------------------------------------------------------------------
\* Phase 1: the types of tasks and the structure of a plan.

Phase1Types == {"Definition", "Theorem_Statement", "Theorem_with_Proof",
                "Example_Proof", "Problem", "Remark", "Lemma", "Corollary"}
\* normalize_phase1_task_type; the profiles share the set, and "invalid"
\* stands for the types that have no normal form.
TypeAliases == [exercise |-> "Problem"]
TaskType(raw) == IF raw \in DOMAIN TypeAliases THEN TypeAliases[raw]
                 ELSE IF raw \in Phase1Types THEN raw ELSE "invalid"

TheoremTypes == {"Theorem_Statement", "Theorem_with_Proof", "Lemma", "Corollary"}

\* extract_phase1_tex_signals: how many problems the text marks.
ProblemMarkers(tex) ==
    LET items == IF tex.header THEN tex.items ELSE 0
    IN  IF items > tex.numbered THEN items ELSE tex.numbered

Has(blocks, types) == \E i \in DOMAIN blocks : blocks[i].type \in types

\* validate_phase1_plan_structure.
StructureFindings(blocks, tex) ==
    {f \in {"empty_plan", "formal_envs_but_only_remarks",
            "theorem_envs_without_theorem_tasks", "problem_items_without_problem_tasks"} :
        CASE f = "empty_plan" -> blocks = <<>>
          [] f = "formal_envs_but_only_remarks" ->
                tex.theorems + tex.others > 0 /\ ~Has(blocks, Phase1Types \ {"Remark"})
          [] f = "theorem_envs_without_theorem_tasks" ->
                tex.theorems > 0 /\ ~Has(blocks, TheoremTypes)
          [] f = "problem_items_without_problem_tasks" ->
                ProblemMarkers(tex) >= 2 /\ ~Has(blocks, {"Problem"})}

\* audit_phase1_plan: an audit reports every block it cannot read and goes on
\* with the others.  files: [plan: "missing", "other" or "list", input].
AuditFindings(files, plan, tex) ==
    LET readable == SelectSeq(plan, LAMBDA b : b.object /\ TaskType(b.type) # "invalid")
        blocks == [k \in DOMAIN readable |->
                     [readable[k] EXCEPT !.type = TaskType(readable[k].type)]]
        Some(P(_)) == \E i \in DOMAIN plan : P(plan[i])
    IN  IF files.plan = "missing" THEN {<<"error", "missing_plan_file">>}
        ELSE IF ~files.input THEN {<<"error", "missing_input_file">>}
        ELSE IF files.plan = "other" THEN {<<"error", "plan_not_list">>}
        ELSE ({"error"} \X StructureFindings(blocks, tex))
             \cup {f \in {<<"error", "non_object_block">>, <<"error", "invalid_task_type">>,
                          <<"warning", "normalized_task_type">>} :
                     CASE f[2] = "non_object_block" -> Some(LAMBDA b : ~b.object)
                       [] f[2] = "invalid_task_type" ->
                             Some(LAMBDA b : b.object /\ TaskType(b.type) = "invalid")
                       [] f[2] = "normalized_task_type" ->
                             Some(LAMBDA b : b.object /\ b.type \in DOMAIN TypeAliases)}

\* _report_status.
ReportStatus(findings) ==
    IF \E f \in findings : f[1] = "error" THEN "error"
    ELSE IF \E f \in findings : f[1] = "warning" THEN "warning" ELSE "ok"

-----------------------------------------------------------------------------
\* The apply of a plan.

\* write_phase1_pack copies the text and keeps a draft that is there.
Phase1Written(pack, source) ==
    [input |-> source,
     draft |-> IF pack.draft = "missing" THEN "list" ELSE pack.draft,
     plan |-> IF pack.draft = "missing" THEN <<>> ELSE pack.plan]

\* _load_phase1_input_tex: the copy in the pack comes first.
InputOf(pack, source, noFile) == IF pack.input # noFile THEN pack.input ELSE source

\* The block apply_phase1_pack works on.
Block(b, profile) ==
    [b EXCEPT !.id = Canonicalize(b.id, profile), !.type = TaskType(b.type),
              !.deps = CanonicalList(b.deps, profile),
              !.soft = CanonicalList(b.soft, profile)]
Blocks(plan, profile) == [k \in DOMAIN plan |-> Block(plan[k], profile)]

\* Every reason to refuse comes before the first write.
ApplyAccepted(pack, source, noFile, profile) ==
    LET tex == InputOf(pack, source, noFile)
    IN  /\ pack.draft = "list"
        /\ tex # noFile
        /\ ~SourceUnitError(tex.units)
        /\ \A k \in DOMAIN pack.plan :
              pack.plan[k].object /\ TaskType(pack.plan[k].type) # "invalid"
        /\ StructureFindings(Blocks(pack.plan, profile), tex) = {}

\* A reference in a content, [word, numbers], and the id it is taken for: a
\* lemma is looked for among the theorems.
ReferencePrefix == [Theorem |-> "thm", Lemma |-> "thm", Definition |-> "def",
                    Example |-> "ex", Problem |-> "prob"]
Target(ref) == <<(<<ReferencePrefix[ref.word]>> \o ref.numbers)>>

\* current_id.startswith(target_id), a comparison of texts: 3_12 begins with 3_1.
StartsWith(id, target) ==
    LET s == target[1]  n == Len(target[1])
    IN  /\ id # <<>> /\ Len(id[1]) >= n
        /\ SubSeq(id[1], 1, n - 1) = SubSeq(s, 1, n - 1)
        /\ (id[1][n] = s[n] \/ <<s[n], id[1][n]>> \in NumeralPrefix)

\* _inject_cross_references.
Injected(b) ==
    IF b.type = "Remark" THEN {}
    ELSE {t \in {Target(r) : r \in b.refs} : ~StartsWith(b.id, t) /\ ~Contains(b.deps, t)}
Linked(b) == [b EXCEPT !.deps = @ \o SetToSeq(Injected(b))]

\* LedgerManager.add_or_update_task on the row of a task, or on no row.
NewTask(b) == [hash |-> b.content, status |-> "DISCOVERED", soft |-> b.soft,
               confirmed |-> FALSE, deps |-> ToSet(CanonicalList(b.deps, "mat"))]
UpdatedTask(row, b) ==
    LET drifted == row.hash # b.content
        confirmed == row.confirmed /\ ~drifted
    IN  [hash |-> b.content,
         status |-> IF row.status = "ORPHANED" \/ (drifted /\ row.status = "COMPLETED")
                    THEN "DISCOVERED" ELSE row.status,
         soft |-> IF b.soft # <<>> /\ (b.type # "Problem" \/ ~confirmed) THEN b.soft
                  ELSE IF drifted THEN <<>> ELSE row.soft,
         confirmed |-> confirmed,
         deps |-> ToSet(CanonicalList(b.deps, "mat"))]
WithTask(rows, b) ==
    LET t == Canonicalize(b.id, "mat")
    IN  (t :> IF t \in DOMAIN rows THEN UpdatedTask(rows[t], b) ELSE NewTask(b)) @@ rows

\* The rows after the first n blocks: each is a transaction of its own.
RowsAfter(rows, plan, n, profile) ==
    FoldLeft(LAMBDA r, b : WithTask(r, Linked(b)), rows,
             SubSeq(Blocks(plan, profile), 1, n))

\* A block without content makes its registration raise, and the blocks
\* before it stay registered.
Registrable(plan) ==
    LET bad == {k \in DOMAIN plan : plan[k].content = "missing"}
    IN  IF bad = {} THEN Len(plan) ELSE (CHOOSE k \in bad : \A j \in bad : k <= j) - 1

\* _record_phase1_dependency_decisions: one decision for each edge, task and
\* criterion; a decision that is recorded is kept as it is.
Decisions(plan, profile) ==
    UNION {LET b == Blocks(plan, profile)[k]
           IN  {<<Canonicalize(b.id, profile), d,
                  IF d \in Injected(b) THEN "explicit_text_reference"
                  ELSE "operator_declared_reliance">> :
                    d \in ToSet(CanonicalList(Linked(b).deps, profile))} : k \in DOMAIN plan}

\* The whole command, from [rows, plan, decisions], stopped after n steps:
\* the registrations, the plan file, the decisions.
Applied(world, plan, profile, n) ==
    LET m == Len(plan)
        last == Registrable(plan)
        k == IF n < last THEN n ELSE last
    IN  [rows |-> RowsAfter(world.rows, plan, k, profile),
         plan |-> IF last = m /\ n > m
                  THEN [i \in DOMAIN plan |-> Linked(Block(plan[i], profile))] ELSE world.plan,
         decisions |-> IF last = m /\ n > m + 1
                       THEN world.decisions \cup Decisions(plan, profile)
                       ELSE world.decisions]
=============================================================================
