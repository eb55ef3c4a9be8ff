------------------------------ MODULE PackChecks -----------------------------
(***************************************************************************)
(* ExactBuilds and CatalogReview over a catalog of two tasks, the first    *)
(* with a support module, and worlds that move under a command.            *)
(***************************************************************************)
EXTENDS CatalogChecks
LOCAL INSTANCE Naturals
LOCAL INSTANCE FiniteSets
LOCAL INSTANCE Sequences
LOCAL INSTANCE SequencesExt
LOCAL INSTANCE TLC

NameOfPath == [p1 |-> "n1", p2 |-> "n2", p3 |-> "n3"]
R == INSTANCE CatalogReview WITH Canonical <- Canon, IsId <- IsText,
        TaskType <- P!TaskType, ModuleName <- LAMBDA p : NameOfPath[p]

TaskRow(t, path) == [id |-> t, primary |-> path, source |-> [id |-> t]]
ModuleOf(path, owner, role) ==
    [path |-> path, name |-> NameOfPath[path], owner |-> owner, role |-> role]
Pinned == [origin |-> "m1", homes |-> <<>>,
           tasks |-> {TaskRow(T1, "p1"), TaskRow(D1, "p3")},
           modules |-> {ModuleOf("p1", T1, "primary"), ModuleOf("p2", T1, "owned_support"),
                        ModuleOf("p3", D1, "primary")}]

LeanFile(text, crlf, token, builds, imports) ==
    [text |-> text, crlf |-> crlf, token |-> token, builds |-> builds, imports |-> imports]
Plain(text) == LeanFile(text, FALSE, "none", TRUE, {})
\* Commits "m1" and "m2" hold the same files, "m3" another primary for T1.
TreeWith(first) == [p1 |-> first, p2 |-> Plain("b"),
                    p3 |-> LeanFile("c", FALSE, "none", TRUE, {"n1"})]
SpecOf(t) == [task |-> t, commit |-> "m1", historical |-> <<>>, closure |-> <<>>,
              resolutions |-> <<>>, instruction |-> "read",
              upstream |-> [status |-> "present", ref |-> "main", commit |-> "k1",
                            files |-> <<[path |-> "k", target |-> "p2", blob |-> Plain("b"),
                                         relationship |-> "byte_identical"]>>]]
World(first, main, head, dirty) ==
    LET tree == TreeWith(first)
        trees == [m1 |-> tree, m2 |-> tree, m3 |-> TreeWith(Plain("a3"))]
    IN  [catalog |-> Pinned, main |-> main, head |-> head, dirty |-> dirty,
         tree |-> trees, work |-> trees[head], receipts |-> <<>>,
         specs |-> [s1 |-> SpecOf(T1), s3 |-> SpecOf(D1)], disk |-> <<>>,
         upstream |-> [refs |-> [main |-> "k1"], tree |-> [k1 |-> [k |-> Plain("b")]]]]
Calm(first) == World(first, "m1", "m1", FALSE)
Firsts == {Plain("a"), LeanFile("a", TRUE, "none", TRUE, {}), LeanFile("a", FALSE, "comment", TRUE, {}),
           LeanFile("a", FALSE, "code", TRUE, {}), LeanFile("a", FALSE, "none", FALSE, {})}
\* What may happen under a command: nothing, MAT moves, the checkout moves
\* or is edited.
Moves(first) == {Calm(first)} \cup {World(first, m, h, d) :
                    m \in {"m1", "m2"}, h \in {"m1", "m3"}, d \in BOOLEAN}

Request(size) == [tasks |-> <<T1, D1>>, expected |-> [commits |-> {"m1"}, modules |-> {}],
                  checkout |-> "co", inside |-> FALSE, size |-> size, skip |-> TRUE]
AllSteps == 4

(* A receipt an emission leaves is one a later command accepts, comes from *)
(* a build that passed on files without forbidden words, and is written    *)
(* only while MAT and the checkout stand at the pin.                       *)
ASSUME EmittedReceiptAssumption ==
    \A first \in Firsts, size \in 1..2, n \in 0..AllSteps :
    \A w \in Moves(first), v \in Moves(first) :
        LET out == R!Emitted(Request(size), <<Calm(first), w, v>>, <<>>, n, "t")
        IN  \A t \in DOMAIN out : out[t] # R!Partial =>
               /\ R!ReceiptValid(out[t], R!CatalogSubject(Calm(first), t), Pinned, "co")
               /\ R!BuildPasses(Calm(first), R!OwnedModules(Pinned, t))
               /\ R!ScanClean(TreeWith(first), R!OwnedPaths(Pinned, t, TRUE))
               /\ R!ExactTree(IF size = 1 /\ t = D1 THEN v ELSE w, "m1")

(* An emission killed between two receipts goes on where it stopped; one   *)
(* killed inside a write is refused ever after, for all its tasks.         *)
ASSUME ResumedEmissionAssumption ==
    \A size \in 1..2, n \in 0..AllSteps :
        LET w == Calm(Plain("a"))
            out == R!Emitted(Request(size), <<w>>, <<>>, n, "t")
            again == R!Emitted(Request(size), <<w>>, out, AllSteps, "u")
        IN  IF \E t \in DOMAIN out : out[t] = R!Partial THEN again = out
            ELSE /\ DOMAIN again = {T1, D1}
                 /\ \A t \in DOMAIN out : again[t] = out[t]
                 /\ R!Emitted(Request(size), <<w>>, again, AllSteps, "v") = again

EntryOf(t, modules, primary) == [id |-> t, modules |-> modules, primary |-> primary]
ManifestOf(schema, first, actions, counts) ==
    [schema |-> schema, commit |-> "m1", actions |-> actions, counts |-> counts,
     entries |-> <<EntryOf(T1, first, "n1"), EntryOf(D1, <<"n3">>, "n3")>>]
Actions(last) == <<[id |-> T1, module |-> "n1", primary |-> TRUE],
                   [id |-> T1, module |-> "n2", primary |-> FALSE],
                   [id |-> D1, module |-> "n3", primary |-> last]>>
Manifests34 == {ManifestOf(R!Boundary34, f, Actions(b),
                           [unique_exact_build_tasks |-> 2, unique_owned_modules |-> n]) :
                  f \in {<<"n1", "n2">>, <<"n1">>, <<"n1", "n1">>}, b \in BOOLEAN, n \in 2..3}
Resolved3 == ManifestOf(R!Resolved, <<"n2", "n1">>, <<>>,
                        [unique_exact_build_tasks |-> 2, unique_owned_modules |-> 3,
                         unique_primary_build_modules |-> 2])

(* One of the ch3-4 manifests spells its entries out; it agrees with the   *)
(* other schema, and the modules they pin are the catalog's.               *)
ASSUME SelectionAssumption ==
    LET good == ManifestOf(R!Boundary34, <<"n1", "n2">>, Actions(TRUE),
                           [unique_exact_build_tasks |-> 2, unique_owned_modules |-> 3])
    IN  /\ {m \in Manifests34 : R!ManifestAccepted(m)} = {good}
        /\ R!SelectionAccepted(<<D1>>, <<good, Resolved3>>)
        /\ R!Listed(<<D1>>, <<good, Resolved3>>) = <<D1, T1>>
        /\ R!EmitAccepted([Request(2) EXCEPT !.expected = R!Expected(<<good, Resolved3>>)],
                          Calm(Plain("a")), <<>>)
        /\ ~R!SelectionAccepted(<<>>, <<good, [Resolved3 EXCEPT !.entries[1].modules = <<"n1">>,
                                              !.counts.unique_owned_modules = 2]>>)
-----------------------------------------------------------------------------
\* Review packs.

\* The receipts of a finished emission, where the batch looks for them.
WithReceipts(w) ==
    [w EXCEPT !.receipts = R!Emitted(Request(2), <<Calm(Plain("a"))>>, <<>>, AllSteps, "t")]
Ready == WithReceipts(Calm(Plain("a")))
Still(w) == <<w, w, w>>
PrepareOf(candidate, spec, prebuilt, attempt, at) ==
    [task |-> T1, attempt |-> attempt, build |-> "co", candidate |-> candidate, spec |-> spec,
     prebuilt |-> prebuilt, at |-> at]
Prepares(at) == {PrepareOf(c, s, p, k, at) : c \in BOOLEAN, s \in {<<>>, <<"s1">>},
                    p \in {<<>>, <<T1>>}, k \in 1..2}
AllWrites == 8
Answered(packs) ==
    [t \in DOMAIN packs |-> (<<"result", packs[t][R!MetadataFile].attempt>> :> "answer") @@ packs[t]]
Complete(packs, t) == t \in DOMAIN packs /\ R!MetadataFile \in DOMAIN packs[t]

(* A pack that is finished is one the apply accepts once it is answered,   *)
(* in the world it was made in and as long as the subject stays what it    *)
(* was; and there are such packs of each kind, exact, reused and candidate.*)
ASSUME PreparedPackAssumption ==
    LET made == {<<a, first>> \in Prepares("t") \X Firsts :
                   Complete(R!Prepare(<<>>, a, Still(WithReceipts(Calm(first))), AllWrites), T1)}
    IN  /\ \A x \in made :
              LET a == x[1]
                  w == WithReceipts(Calm(x[2]))
                  pack == Answered(R!Prepare(<<>>, a, Still(w), AllWrites))[T1]
              IN  /\ R!ApplyValid(pack, T1, a.candidate, w)
                  /\ ~R!ApplyValid(pack, T1, ~a.candidate, w)
                  /\ ~R!ApplyValid(pack, T1, a.candidate, [w EXCEPT !.main = "m2"])
                  /\ \A v \in {[w EXCEPT !.work["p2"].text = "edited"]} :
                        R!ApplyValid(pack, T1, a.candidate, v) <=> ~a.candidate
        /\ {[c |-> x[1].candidate, p |-> x[1].prebuilt] : x \in made}
              = {[c |-> TRUE, p |-> <<>>], [c |-> FALSE, p |-> <<>>], [c |-> FALSE, p |-> <<T1>>]}

(* A pack made again and killed half way is never a mixture: what the      *)
(* apply accepts is one prepare's files, the old ones or the new ones.     *)
ASSUME NeverMixedAssumption ==
    \A a \in Prepares("t"), b \in Prepares("u"), n \in 0..AllWrites :
        a.candidate = b.candidate =>
            LET old == R!Prepare(<<>>, a, Still(Ready), AllWrites)
                new == R!Prepare(old, b, Still(Ready), n)
                m == new[T1][R!MetadataFile]
            IN  Complete(old, T1) =>
                  LET valid == R!PackValid(new[T1], R!SubjectOf(a, Ready), Pinned, FALSE)
                  IN  /\ valid => m.input.at = new[T1][<<"input", m.attempt>>].at
                      /\ valid => m.input.basis.receipt = new[T1][<<"build", m.attempt>>]
                      /\ b.attempt # a.attempt => valid

(* The tools disagree on two kinds of file.  One whose comments hold a     *)
(* forbidden word is reviewed when prepare builds it, but no emission will *)
(* give it a receipt to reuse.  One with CRLF line ends gets a receipt,    *)
(* and its prepare dies after the first writes: the text that is reviewed  *)
(* is not the text that is hashed.                                         *)
ASSUME ScanAndLineEndsAssumption ==
    LET comment == WithReceipts(Calm(LeanFile("a", FALSE, "comment", TRUE, {})))
        crlf == WithReceipts(Calm(LeanFile("a", TRUE, "none", TRUE, {})))
        direct == PrepareOf(FALSE, <<>>, <<>>, 1, "t")
        half == R!Prepare(<<>>, direct, Still(crlf), AllWrites)
    IN  /\ Complete(R!Prepare(<<>>, direct, Still(comment), AllWrites), T1)
        /\ R!Emitted(Request(2), <<comment>>, <<>>, AllSteps, "t") = <<>>
        /\ DOMAIN R!Emitted(Request(2), <<crlf>>, <<>>, AllSteps, "t") = {T1, D1}
        /\ DOMAIN half = {T1} /\ ~Complete(half, T1)

(* The first test of the checkout lets another commit with the same files  *)
(* pass; the second does not, so nothing is written for it.                *)
ASSUME SameTreeAssumption ==
    LET a == PrepareOf(FALSE, <<>>, <<>>, 1, "t")
        w == World(Plain("a"), "m1", "m2", FALSE)
    IN  R!CheckoutAccepted(a, w) /\ R!Prepare(<<>>, a, Still(w), AllWrites) = <<>>

Item(t, spec) == [id |-> t, commit |-> "m1", validated |-> TRUE, spec |-> spec,
                  specHash |-> SpecOf(t), subject |-> R!CatalogSubject(Ready, t)]
Batch(at) == [checkout |-> "co", inside |-> FALSE, attempt |-> 1, skip |-> TRUE, at |-> at,
              manifest |-> [commit |-> "m1", unique |-> 2, expected |-> 2,
                            items |-> <<Item(T1, "s1"), Item(D1, "s3")>>]]
Whole(packs) == {t \in DOMAIN packs : Complete(packs, t)}

(* A batch that is killed, or refused at its end because MAT or the        *)
(* checkout moved, leaves each pack whole or without its metadata.  If all *)
(* are whole the next batch makes the others and leaves these alone,       *)
(* answered or not; if one is not, every later batch refuses all of them.  *)
ASSUME ResumedBatchAssumption ==
    \A n \in 0..(2 * AllWrites), v \in Moves(Plain("a")) :
        LET late == <<Ready, Ready, WithReceipts(v)>>
            packs == R!BatchPrepared(Batch("t"), Ready, <<late>>, <<>>, n)
            again == R!BatchPrepared(Batch("u"), Ready, <<Still(Ready)>>, packs, 2 * AllWrites)
        IN  IF Whole(packs) = DOMAIN packs
            THEN /\ Whole(again) = {T1, D1}
                 /\ \A t \in DOMAIN packs : again[t] = packs[t]
                 /\ R!BatchPrepared(Batch("v"), Ready, <<Still(Ready)>>, Answered(again), 1)
                       = Answered(again)
            ELSE again = packs
=============================================================================
