---------------------------- MODULE CatalogChecks ----------------------------
(***************************************************************************)
(* TaskIds, Planning and TaskCatalog over small inputs.  They have no      *)
(* state; TLC evaluates these assumptions before it explores the ledger    *)
(* whose rows the plans become (MCCampaignLedger extends this module).     *)
(***************************************************************************)
LOCAL INSTANCE Naturals
LOCAL INSTANCE FiniteSets
LOCAL INSTANCE Sequences
LOCAL INSTANCE SequencesExt
LOCAL INSTANCE TLC

Thm31 == <<<<"thm", "3", "1">>>>
Thm312 == <<<<"thm", "3", "12">>>>
Def31 == <<<<"def", "3", "1">>>>
OldName == <<<<"proof", "thm">>>>
Note == <<<<"rem", "before">>>>

\* Two aliases: of an id, and of a note that is itself not canonical.
P == INSTANCE Planning WITH
        Numbers <- {"1", "3", "12"},
        Aliases <- OldName :> Thm31 @@ <<<<"note">>>> :> Note,
        NumeralPrefix <- {<<"1", "12">>}

Words == {"thm", "proof", "3", "1", "lemma", "main", "step"}
Flat == {<<s>> : s \in UNION {[1..n -> Words] : n \in 1..4}}
             \cup {<<(<<"thm", "3", "1">> \o s)>> : s \in UNION {[1..n -> Words] : n \in 1..3}}
Nested == {Thm31 \o s : s \in UNION {[1..n -> {<<"lemma", "1">>, <<"main">>, <<"proof">>}] :
                                        n \in 1..3}}

(* A canonical id is what canonicalization returns for itself, an id has   *)
(* one canonical form whatever the number of passes, and what it returns   *)
(* is canonical or the id as it was, but where "main" is not the last      *)
(* derivation: canonicalize_block_id then returns an id that               *)
(* is_canonical_block_id refuses.                                          *)
ASSUME CanonicalFormAssumption ==
    \A id \in Flat \cup Nested :
        LET c == P!Canonicalize(id, "mat")
        IN  /\ P!Canonicalize(c, "mat") = c
            /\ P!IsBlockId(id, "mat") => c = id
            /\ \/ P!IsBlockId(c, "mat") \/ c = P!ResolveAlias(id)
               \/ \E k \in 2..(Len(c) - 1) : c[k] = <<"main">>

(* A derived id has its base's chapter and its derivation's parent.        *)
ASSUME DerivationAssumption ==
    \A id \in {Thm31, OldName, Thm31 \o <<<<"lemma", "1">>>>}, n \in {"1", "3"} :
        LET d == P!Derived(id, <<n>>, "mat")
        IN  /\ P!CanDerive(id, <<n>>, {"1", "3"}, "mat") /\ P!IsBlockId(d, "mat")
            /\ P!HasParent(d) /\ P!Parent(d) = P!Canonicalize(id, "mat")
            /\ P!HasChapter(d) /\ P!Chapter(d) = "3"

(* The examples of tests/test_block_id_naming.py, and the two names of one *)
(* task in a text.                                                         *)
ASSUME ExamplesAssumption ==
    /\ P!Canonicalize(<<<<"thm", "3", "1", "lemma", "3", "main">>>>, "mat")
          = Thm31 \o <<<<"lemma", "3">>, <<"main">>>>
    /\ P!Canonicalize(<<<<"proof", "thm", "step", "3">>>>, "mat")
          = Thm31 \o <<<<"lemma", "3">>>>
    /\ ~P!IsBase(<<<<"thm", "3">>>>, "mat") /\ P!IsBase(<<<<"thm", "3">>>>, "cordis")
    /\ P!Mentioned(<<OldName>>, {Thm31, Def31}) = {Thm31}
    /\ P!CanonicalList(<<OldName, Thm31, Def31>>, "mat") = <<Thm31, Def31>>

-----------------------------------------------------------------------------
\* Phase 0 and Phase 1.

Texts == {[units |-> u, faults |-> f] :
            u \in {<<>>, <<"numbered">>, <<"numbered", "numbered">>,
                   <<"problems", "numbered">>, <<"other", "problems">>},
            f \in {{}, {"pdf_noise"}}}
Packs == {[exists |-> e, draft |-> d, text |-> t, report |-> r, applied |-> "not_applied"] :
            e \in BOOLEAN, d \in {"missing", "empty", "text"}, t \in Texts,
            r \in {"not_run", "pass", "fail"}}

(* An input Phase 0 writes is one source unit without faults, and the      *)
(* report says so, whatever the report said before.                        *)
ASSUME CleanInputAssumption ==
    \A pack \in Packs :
        LET old == [units |-> <<>>, faults |-> {"old"}]
            after == P!Phase0Applied(pack, old)
        IN  after.input # old =>
                /\ after.pack.report = "pass" /\ after.pack.applied = "applied"
                /\ after.input = pack.text /\ pack.text.faults = {}
                /\ ~P!SourceUnitError(pack.text.units)

Entry(object, id, type, content) ==
    [object |-> object, id |-> id, type |-> type, content |-> content,
     refs |-> IF content = "v2" THEN {[word |-> "Theorem", numbers |-> <<"3", "1">>]} ELSE {},
     deps |-> <<>>, soft |-> <<>>]
Entries == {Entry(o, id, t, "v1") : o \in BOOLEAN, id \in {OldName},
              t \in {"Remark", "exercise", "Lemma", "Nonsense"}}
Drafts == UNION {[1..n -> Entries] : n \in 0..2}
Tex == {[units |-> <<"numbered">>, theorems |-> a, others |-> b, header |-> h,
         items |-> i, numbered |-> 0] : a \in 0..1, b \in 0..1, h \in BOOLEAN, i \in {0, 2}}

(* The apply refuses exactly the plans the audit finds an error in.        *)
ASSUME AuditAgreesAssumption ==
    \A plan \in Drafts, tex \in Tex :
        P!ApplyAccepted([draft |-> "list", plan |-> plan, input |-> tex], tex, [units |-> "none"], "mat")
        <=> P!ReportStatus(P!AuditFindings([plan |-> "list", input |-> TRUE], plan, tex)) # "error"

Rows(h, s, c) == Thm31 :> [hash |-> h, status |-> s, soft |-> <<Def31>>, confirmed |-> c,
                           deps |-> {}]
Worlds == {[rows |-> r, plan |-> <<>>, decisions |-> {}] :
             r \in {<<>>} \cup {Rows(h, s, c) : h \in {"v1", "v2"}, c \in BOOLEAN,
                                  s \in {"COMPLETED", "ORPHANED", "FAILED_LOCAL"}}}
TwoTasks == {<<Entry(TRUE, id, t, h), Entry(TRUE, Thm312, "Lemma", g)>> :
               id \in {OldName, Thm31}, t \in {"Problem", "Lemma"}, h \in {"v1", "v2"},
               g \in {"v1", "v2", "missing"}}
Same(a, b) == a.rows = b.rows /\ a.plan = b.plan /\ a.decisions = b.decisions

(* An apply that stopped anywhere and is run again leaves what one run     *)
(* leaves, when the plan names each task once.                             *)
ASSUME ResumedApplyAssumption ==
    \A w \in Worlds, plan \in TwoTasks, n \in 0..4 :
        Same(P!Applied(P!Applied(w, plan, "mat", n), plan, "mat", 4),
             P!Applied(w, plan, "mat", 4))

(* Nothing refuses a plan that names a task twice.  With two contents each *)
(* apply of the same plan takes a completed task back to DISCOVERED.       *)
ASSUME DuplicateTaskAssumption ==
    LET plan == <<Entry(TRUE, Thm31, "Lemma", "v1"), Entry(TRUE, OldName, "Lemma", "v2")>>
        w == [rows |-> Rows("v2", "COMPLETED", TRUE), plan |-> <<>>, decisions |-> {}]
    IN  P!Applied(w, plan, "mat", 4).rows[Thm31].status = "DISCOVERED"

(* A reference to Theorem 3.1 in the content of thm_3_12 is taken for a    *)
(* reference to itself and gives no dependency (startswith).               *)
ASSUME PrefixReferenceAssumption ==
    /\ P!Injected(Entry(TRUE, Thm312, "Lemma", "v2")) = {}
    /\ P!Injected(Entry(TRUE, Def31, "Lemma", "v2")) = {Thm31}

-----------------------------------------------------------------------------
\* The catalog.  Its ids are token sequences, "" where a "__" stood.

Text(id) == FlattenSeq([k \in DOMAIN id |-> IF k = 1 THEN id[1] ELSE <<"">> \o id[k]])
Known == {Thm31, Thm312, Def31, Thm31 \o <<<<"main">>>>}
IdOf(text) == IF \E id \in Known : Text(id) = text
              THEN CHOOSE id \in Known : Text(id) = text ELSE <<text>>
Canon(text, profile) == Text(P!Canonicalize(IdOf(text), profile))
IsText(text, profile) == P!IsBlockId(IdOf(text), profile)

C == INSTANCE TaskCatalog WITH Canonical <- Canon, IsId <- IsText, TaskType <- P!TaskType

T1 == <<"thm", "3", "1">>
T2 == <<"thm", "3", "12">>
T3 == <<"thm", "3", "1", "", "main">>
D1 == <<"def", "3", "1">>

Plans == {<<[id |-> a, type |-> "Lemma"]>> : a \in {T1}}
         \cup {<<[id |-> T1, type |-> "Theorem_Statement"], [id |-> b, type |-> t]>> :
                 b \in {T1, T2, T3, D1}, t \in {"Theorem_with_Proof", "Definition"}}
         \cup {<<[id |-> T1, type |-> "Theorem_Statement"], [id |-> D1, type |-> "Definition"],
                 [id |-> T3, type |-> "Theorem_Statement"]>>}
RowOf(i, base, role) == [path |-> <<"p1", "p2", "p3">>[i], name |-> <<"n1", "n2", "n3">>[i],
                         base |-> base, role |-> role]
Roles == {C!TaskRole, C!OwnedRole, C!SharedRole}
Manifests ==
    {<<RowOf(1, T1, r), RowOf(2, b, s), RowOf(3, c, u)>> :
       r \in Roles \ {C!SharedRole}, b \in {T2, T3, D1}, s \in Roles \ {C!SharedRole},
       c \in {T3, T1 \o <<"aux">>, T3 \o <<"aux">>, D1 \o <<"aux">>}, u \in Roles}
Overrides == {<<>>} \cup {<<[id |-> f, members |-> m]>> :
                            f \in {T3, <<"book">>},
                            m \in {<<T1, T2>>, <<T1, T3>>, <<D1, T1>>}}
Builds == {[plan |-> p, rows |-> m, overrides |-> o, restored |-> s, commit |-> "c1",
            origin |-> "c0", tree |-> [known |-> TRUE, paths |-> {"p1", "p2", "p3"}],
            expected |-> [tasks |-> Len(p)]] :
             p \in Plans, m \in Manifests, o \in Overrides,
             s \in {{}, {T1}, {T3}}}

Apart(b) == LET ids == C!FormalIds(b.plan, "mat")
            IN  \A o \in DOMAIN b.overrides :
                    b.overrides[o].id \notin ids \ C!Grouped(b.overrides)

(* A build that is accepted gives a valid catalog when the ids of its      *)
(* families are apart, and only then; a support module belongs to the task *)
(* with the longest id; and the lookups agree with each other.             *)
ASSUME BuiltCatalogAssumption ==
    \A b \in {b \in Builds : C!BuildAccepted(b)} :
        LET c == C!Payload(b)
        IN  /\ C!Valid(C!Identified(c)) <=> Apart(b)
            /\ \A m \in C!InRole(c, "owned_support") :
                  \A t \in C!Ids(c) : t \in C!Owners(m.base, C!Ids(c)) => Len(t) <= Len(m.owner)
            /\ \A t \in C!Ids(c) : \A p \in C!OwnedPaths(c, t, TRUE) :
                  C!TasksForPath(c, p) = {t}

(* Such builds exist: an override under the id of a task that it does not  *)
(* group is accepted, and the group is lost.                               *)
ASSUME LostFamilyAssumption ==
    \E b \in Builds : C!BuildAccepted(b) /\ ~Apart(b) /\ ~C!Valid(C!Identified(C!Payload(b)))

(* Activating a catalog makes no head fresh and takes none away: a head    *)
(* that is fresh afterwards was fresh, and its bundle is the current one.  *)
ASSUME SyncAssumption ==
    LET heads == UNION {[d -> [bundle : {"b1", "b2"}, fresh : BOOLEAN]] :
                          d \in SUBSET {T1, T2, D1}}
    IN  \A reviewed \in heads, subjects \in [{T1, T2} -> {"b1", "b2"}] :
            LET after == C!SyncedReviewed(reviewed, subjects)
            IN  /\ DOMAIN after = DOMAIN reviewed
                /\ \A t \in DOMAIN after : after[t].fresh =>
                      /\ reviewed[t].fresh /\ t \in DOMAIN subjects
                      /\ C!SyncedCurrent(<<>>, subjects)[t].bundle = after[t].bundle
=============================================================================
