--------------------------- MODULE CatalogReview -----------------------------
(***************************************************************************)
(* tools/mat_catalog_review_prepare, its batch and the validation of the   *)
(* packs they leave (mat_catalog_review_apply._validate_pack): the review  *)
(* of a task as it stands in the catalog's MAT commit, or of a candidate   *)
(* for it in the build checkout.                                           *)
(*                                                                         *)
(* A pack is a function from its files' names to what they hold, a hash    *)
(* the value it hashes; the file that names the others is written last.    *)
(* A world is that of ExactBuilds and [receipts, specs, disk, upstream]:   *)
(* build receipts, supplement specs and evidence by path, and the upstream *)
(* repository.  An optional value is a sequence of length one at most.     *)
(***************************************************************************)
EXTENDS ExactBuilds

MetadataFile == <<"metadata", 0>>

\* The supplement: reviewer context, every part checked against its source.
\* Upstream files must be in the target commit, byte for byte.
UpstreamAccepted(u, commit, w) ==
    CASE u.status = "absent" -> u.reason # ""
      [] u.status = "present" ->
            /\ u.ref \in DOMAIN w.upstream.refs /\ w.upstream.refs[u.ref] = u.commit
            /\ u.files # <<>>
            /\ \A k \in DOMAIN u.files :
                  LET f == u.files[k]  tree == w.upstream.tree[u.commit]
                  IN  /\ f.relationship = "byte_identical"
                      /\ f.path \in DOMAIN tree /\ tree[f.path] = f.blob
                      /\ f.target \in DOMAIN w.tree[commit] /\ w.tree[commit][f.target] = f.blob
      [] OTHER -> FALSE

\* Evidence by path: on disk, or in the target commit.
EvidenceAccepted(items, files) ==
    \A k \in DOMAIN items :
        /\ items[k].purpose # ""
        /\ items[k].path \in DOMAIN files /\ files[items[k].path] = items[k].hash

SupplementAccepted(spec, t, w) ==
    LET commit == w.catalog.origin
    IN  /\ spec.task = t /\ spec.commit = commit
        /\ UpstreamAccepted(spec.upstream, commit, w)
        /\ EvidenceAccepted(spec.historical, w.disk)
        /\ EvidenceAccepted(spec.closure, w.tree[commit])
        /\ \A k \in DOMAIN spec.resolutions :
              /\ spec.resolutions[k].status \in {"resolved", "superseded"}
              /\ spec.resolutions[k].risk # "" /\ spec.resolutions[k].rationale # ""
        /\ spec.instruction # ""
Supplement(spec, subject) == [spec |-> spec, subject |-> subject]

-----------------------------------------------------------------------------
\* prepare_review.  a: [task, attempt, build, candidate, spec, prebuilt, at],
\* build the checkout; spec and prebuilt are optional paths, and at stands
\* for the time stamps.

CandidateSubject(w, t) ==
    Bundle(w.catalog, t, "mat_candidate_bundle", w.catalog.origin, w.work)
SubjectOf(a, w) == IF a.candidate THEN CandidateSubject(w, a.task) ELSE CatalogSubject(w, a.task)

\* _forbidden_findings, without comments.
NoForbidden(files, paths) == \A p \in paths : files[p].token # "code"

PrimaryOk(c, t) ==
    OnePrimary(c, {t}) /\ PrimaryModule(c, t) = ModuleName(PrimaryPath(c, t))

\* The tests before a pack is touched.  A checkout at another commit with
\* the same files passes the first of them.
CheckoutAccepted(a, w) ==
    /\ w.main = w.catalog.origin
    /\ w.dirty => a.candidate
    /\ w.tree[w.head] = w.tree[w.catalog.origin]
PrepareAccepted(a, w, after) ==
    LET c == w.catalog
        paths == OwnedPaths(c, a.task, TRUE)
        files == IF a.candidate THEN w.work ELSE w.tree[c.origin]
    IN  /\ a.candidate => a.spec = <<>> /\ a.prebuilt = <<>>
        /\ CheckoutAccepted(a, w)
        /\ \E x \in c.tasks : x.id = a.task /\ x.source.id = a.task
        /\ Inventoried(w, a.task)
        /\ a.candidate => paths \subseteq DOMAIN w.work
        /\ PrimaryOk(c, a.task)
        /\ IF a.prebuilt = <<>> THEN BuildPasses(w, OwnedModules(c, a.task))
           ELSE /\ a.prebuilt[1] \in DOMAIN w.receipts
                /\ ReceiptValid(w.receipts[a.prebuilt[1]], SubjectOf(a, w), c, a.build)
        /\ NoForbidden(files, paths)
        /\ ~a.candidate => ExactTree(after, c.origin)

BuildReceipt(a, w) ==
    IF a.prebuilt # <<>> THEN w.receipts[a.prebuilt[1]]
    ELSE [Receipt(w, a.task, OwnedModules(w.catalog, a.task), a.build, a.at) EXCEPT
             !.schema = IF a.candidate THEN "candidate-exact-build" ELSE @,
             !.subject = SubjectOf(a, w)]

\* _direct_consumers: the files of the commit that import an owned module.
Consumers(w, t) ==
    LET c == w.catalog  files == w.tree[c.origin]
        owned == {m.name : m \in {m \in c.modules : m.owner = t}}
    IN  {[path |-> p, tasks |-> TasksForPath(c, p)] :
            p \in {p \in DOMAIN files : files[p].imports \cap owned # {}}}

Mode(a) == IF a.prebuilt = <<>> THEN "built_during_prepare" ELSE "reused_prebuilt"
SourceOf(a, w) == [k \in DOMAIN a.prebuilt |->
                     [path |-> a.prebuilt[k], hash |-> w.receipts[a.prebuilt[k]]]]
SupplementOf(a, w) == [k \in DOMAIN a.spec |-> Supplement(w.specs[a.spec[k]], SubjectOf(a, w))]

\* What the review is based on, and the context and the input made of it.
Basis(a, w) ==
    [task |-> a.task, receipt |-> BuildReceipt(a, w), consumers |-> Consumers(w, a.task),
     mode |-> Mode(a), checkout |-> a.build, source |-> SourceOf(a, w),
     supplement |-> SupplementOf(a, w)]
Context(a, w) == [subject |-> SubjectOf(a, w), consumers |-> Cardinality(Consumers(w, a.task)),
                  supplement |-> SupplementOf(a, w)]
\* The Lean text of an exact subject comes from Git as it is, that of a
\* candidate is read with its line ends made alike.
Lean(a, w) ==
    LET p == PrimaryPath(w.catalog, a.task)
    IN  IF a.candidate THEN [text |-> w.work[p].text, crlf |-> FALSE]
        ELSE [text |-> w.tree[w.catalog.origin][p].text,
              crlf |-> w.tree[w.catalog.origin][p].crlf]
Input(a, w) ==
    [task |-> a.task, attempt |-> a.attempt, subject |-> SubjectOf(a, w), lean |-> Lean(a, w),
     basis |-> Basis(a, w), context |-> Context(a, w), at |-> a.at]

\* The files made of an input.
Prompt(input) == [prompt |-> input]
Template(input) == [template |-> input]
Request(input) == [task |-> input.task, input |-> input, subject |-> input.lean]

Metadata(a, w) ==
    LET input == Input(a, w)
    IN  [candidate |-> a.candidate, task |-> a.task, attempt |-> a.attempt,
         subject |-> SubjectOf(a, w), build |-> BuildReceipt(a, w), mode |-> Mode(a),
         checkout |-> a.build, source |-> SourceOf(a, w), supplement |-> SupplementOf(a, w),
         spec |-> [k \in DOMAIN a.spec |-> [path |-> a.spec[k], hash |-> w.specs[a.spec[k]]]],
         input |-> input, context |-> Context(a, w), prompt |-> Prompt(input),
         template |-> Template(input), request |-> Request(input)]

\* A file that is written: may, whether the command gets as far; once,
\* whether it may not change what is there.
Write(file, a, content, may, once) ==
    [name |-> <<file, a.attempt>>, content |-> content, may |-> may, once |-> once]

\* _write_codex_handoff_review_artifacts: the context, then the input, whose
\* text must be the one the subject's primary hash is of, then what is made
\* of it.
ReviewFiles(a, w, may) ==
    LET input == Input(a, w)
    IN  <<Write("context", a, Context(a, w), may, FALSE),
          Write("input", a, input, ~input.lean.crlf, FALSE),
          Write("prompt", a, Prompt(input), TRUE, FALSE),
          Write("template", a, Template(input), TRUE, FALSE),
          Write("request", a, Request(input), TRUE, FALSE)>>

\* The receipt in the pack is read back, and the checkout must hold the
\* subject's primary file.
ReceiptBound(a, w, after) ==
    LET p == PrimaryPath(w.catalog, a.task)
    IN  \/ a.candidate
        \/ /\ ReceiptValid(BuildReceipt(a, w), SubjectOf(a, w), w.catalog, a.build)
           /\ p \in DOMAIN after.work /\ after.work[p].text = SubjectOf(a, w).files[p]

\* What must still hold before the metadata is written.
StillFresh(a, w, end) ==
    /\ ~a.candidate => ExactTree(end, w.catalog.origin)
    /\ \A k \in DOMAIN a.prebuilt : end.receipts[a.prebuilt[k]] = w.receipts[a.prebuilt[k]]

\* What a prepare writes, in order.
Writes(a, ws) ==
    LET w == ws[1]
        bound == ReceiptBound(a, w, ws[2])
        specOk == \A k \in DOMAIN a.spec : SupplementAccepted(w.specs[a.spec[k]], a.task, w)
    IN  <<Write("build", a, BuildReceipt(a, w), PrepareAccepted(a, w, ws[2]), a.prebuilt # <<>>)>>
        \o [k \in DOMAIN a.spec |->
              Write("supplement", a, SupplementOf(a, w)[k], bound /\ specOk, TRUE)]
        \o ReviewFiles(a, w, bound)
        \o <<[Write("metadata", a, Metadata(a, w), StillFresh(a, w, ws[3]), FALSE)
                 EXCEPT !.name = MetadataFile]>>

\* s: [packs, on, left], left the writes before a kill.
WriteFile(s, t, x) ==
    LET pack == IF t \in DOMAIN s.packs THEN s.packs[t] ELSE <<>>
        clash == x.once /\ x.name \in DOMAIN pack /\ pack[x.name] # x.content
    IN  IF ~s.on THEN s
        ELSE IF s.left = 0 \/ ~x.may \/ clash THEN [s EXCEPT !.on = FALSE]
        ELSE [s EXCEPT !.packs = (t :> ((x.name :> x.content) @@ pack)) @@ @, !.left = @ - 1]

\* The command, in the worlds of its start, its build and its end.
Prepared(s, a, ws) ==
    IF ~PrepareAccepted(a, ws[1], ws[2]) THEN [s EXCEPT !.on = FALSE]
    ELSE FoldLeft(LAMBDA r, x : WriteFile(r, a.task, x), s, Writes(a, ws))
Prepare(packs, a, ws, n) == Prepared([packs |-> packs, on |-> TRUE, left |-> n], a, ws).packs

-----------------------------------------------------------------------------
\* _validate_review_input_internal_binding, on what the input carries.
InternallyBound(input) ==
    LET s == input.subject
    IN  /\ input.basis.task = input.task /\ s.task = input.task
        /\ DOMAIN s.files # {} /\ s.primary \in DOMAIN s.files
        /\ s.files[s.primary] = input.lean.text /\ ~input.lean.crlf

\* _validate_build_receipt_provenance.
ProvenanceOk(m, input) ==
    LET b == input.basis
    IN  /\ b.mode = m.mode /\ b.checkout = m.checkout /\ b.receipt = m.build
        /\ b.source = m.source
        /\ (m.mode = "reused_prebuilt") = (m.source # <<>>)
        /\ \A k \in DOMAIN m.source : m.source[k].hash = m.build

\* _validate_build_receipt.
BuildOk(m, r, subject, c) ==
    IF m.candidate THEN r.schema = "candidate-exact-build" /\ r.subject = subject
    ELSE ReceiptValid(r, subject, c, m.checkout)

\* _validate_review_supplement_binding; a pack may have no supplement.
SupplementBound(pack, m, input, subject) ==
    \A k \in DOMAIN m.supplement :
        LET file == <<"supplement", m.attempt>>
        IN  /\ file \in DOMAIN pack /\ pack[file] = m.supplement[k]
            /\ m.supplement[k].subject = subject
            /\ input.basis.supplement = m.supplement
            /\ input.context.supplement = m.supplement

\* _validate_pack: every file is there, is the one the metadata names and
\* says what the input says; the answer may be asked for or not.
PackValid(pack, subject, c, answered) ==
    LET m == pack[MetadataFile]
        File(name) == pack[<<name, m.attempt>>]
        Bound(name, value) == <<name, m.attempt>> \in DOMAIN pack /\ File(name) = value
    IN  /\ MetadataFile \in DOMAIN pack
        /\ m.subject = subject /\ m.task = subject.task
        /\ Bound("build", m.build) /\ BuildOk(m, m.build, subject, c)
        /\ Bound("input", m.input)
        /\ ProvenanceOk(m, m.input) /\ InternallyBound(m.input)
        /\ m.input.subject = subject
        /\ SupplementBound(pack, m, m.input, subject)
        /\ Bound("request", m.request) /\ m.request = Request(m.input)
        /\ Bound("prompt", m.prompt) /\ m.prompt = Prompt(m.input)
        /\ Bound("context", m.context) /\ m.context = m.input.context
        /\ Bound("template", m.template)
        /\ answered => <<"result", m.attempt>> \in DOMAIN pack

\* What the apply asks of a pack, in the world it runs in.
ApplyValid(pack, t, candidate, w) ==
    /\ w.main = w.catalog.origin
    /\ Inventoried(w, t)
    /\ PackValid(pack, SubjectOf([candidate |-> candidate, task |-> t], w), w.catalog, TRUE)

-----------------------------------------------------------------------------
\* load_prepare_batch_manifest, on [commit, items, unique, expected].
BatchManifestAccepted(m) ==
    LET Id(item) == Canonical(item.id, "mat")
    IN  /\ m.items # <<>> /\ m.unique = Len(m.items) /\ m.expected = Len(m.items)
        /\ \A k \in DOMAIN m.items :
              /\ IsId(Id(m.items[k]), "mat")
              /\ m.items[k].commit = m.commit /\ m.items[k].validated
        /\ \A j, k \in DOMAIN m.items : Id(m.items[j]) = Id(m.items[k]) => j = k

\* The prepare of an item; its receipt lies under the task's name.
ItemPrepare(b, item) ==
    [task |-> Canonical(item.id, "mat"), attempt |-> b.attempt, build |-> b.checkout,
     candidate |-> FALSE, spec |-> <<item.spec>>, at |-> b.at,
     prebuilt |-> <<Canonical(item.id, "mat")>>]

\* Spec, subject and receipt are the ones the manifest pins.
SpecPinned(item, w) == item.spec \in DOMAIN w.specs /\ w.specs[item.spec] = item.specHash
ItemAccepted(b, item, w) ==
    LET t == Canonical(item.id, "mat")
    IN  /\ SpecPinned(item, w)
        /\ \E x \in w.catalog.tasks : x.id = t
        /\ Inventoried(w, t) /\ item.subject = CatalogSubject(w, t)
        /\ t \in DOMAIN w.receipts
        /\ ReceiptValid(w.receipts[t], CatalogSubject(w, t), w.catalog, b.checkout)

\* _validate_existing_pack: a directory without metadata is partial, and one
\* with it must be what this batch would make, and complete.
ExistingAccepted(b, item, w, pack) ==
    LET t == Canonical(item.id, "mat")
        m == pack[MetadataFile]
    IN  /\ MetadataFile \in DOMAIN pack
        /\ ~m.candidate /\ m.task = t /\ m.attempt = b.attempt
        /\ m.subject.commit = w.catalog.origin
        /\ m.mode = "reused_prebuilt" /\ m.checkout = b.checkout
        /\ m.source = <<[path |-> t, hash |-> w.receipts[t]]>>
        /\ m.spec = <<[path |-> item.spec, hash |-> item.specHash]>>
        /\ PackValid(pack, CatalogSubject(w, t), w.catalog, FALSE)

\* prepare_review_batch: every item is looked at before the first is
\* prepared.  b: [manifest, checkout, inside, attempt, skip, at].
BatchAccepted(b, w, packs) ==
    LET m == b.manifest
        ids == {Canonical(m.items[k].id, "mat") : k \in DOMAIN m.items}
    IN  /\ b.attempt > 0 /\ ~b.inside
        /\ BatchManifestAccepted(m)
        /\ m.commit = w.catalog.origin /\ ExactTree(w, m.commit)
        /\ OnePrimary(w.catalog, ids)
        /\ \A k \in DOMAIN m.items :
              LET t == Canonical(m.items[k].id, "mat")
              IN  /\ ItemAccepted(b, m.items[k], w)
                  /\ t \in DOMAIN packs =>
                        b.skip /\ ExistingAccepted(b, m.items[k], w, packs[t])

\* Worlds as in Prepare for the k-th item to prepare, the last for the rest;
\* first is the world in which the batch looks at its items.
BatchPrepared(b, first, worlds, packs, n) ==
    LET todo == SelectSeq(b.manifest.items, LAMBDA x : Canonical(x.id, "mat") \notin DOMAIN packs)
        Of(k) == worlds[IF k < Len(worlds) THEN k ELSE Len(worlds)]
        Item(s, k) ==
            LET t == Canonical(todo[k].id, "mat")
                same == /\ SpecPinned(todo[k], Of(k)[1])
                        /\ Of(k)[1].receipts[t] = first.receipts[t]
            IN  IF s.on /\ same THEN Prepared(s, ItemPrepare(b, todo[k]), Of(k))
                ELSE [s EXCEPT !.on = FALSE]
    IN  IF ~BatchAccepted(b, first, packs) THEN packs
        ELSE FoldLeft(Item, [packs |-> packs, on |-> TRUE, left |-> n],
                      [k \in DOMAIN todo |-> k]).packs
=============================================================================
