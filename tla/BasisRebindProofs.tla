-------------------------- MODULE BasisRebindProofs --------------------------
(***************************************************************************)
(* What basis-rebind guarantees for any number of commands, consumers and  *)
(* versions: a link of a chain keeps its receipt, a receipt claims nothing *)
(* of a consumer that no review of that output has passed, and a basis     *)
(* that was moved is worth what the review was made for.                   *)
(***************************************************************************)
EXTENDS BasisRebind, WellFoundedInduction, TLAPS

(* The records and functions have the fields that the steps change.        *)
Shape ==
    /\ {"history", "post", "revision"} \subseteq DOMAIN row
    /\ DOMAIN crow = Consumers /\ DOMAIN out = Consumers
    /\ \A c \in Consumers : {"status", "p2", "subject"} \subseteq DOMAIN crow[c]
    /\ DOMAIN pc = Procs /\ DOMAIN cmd = Procs
    /\ \A p \in Procs : DOMAIN cmd[p] = {"row", "crow", "body", "version"}

(* The subject a consumer's row names is an output that some review has    *)
(* passed, and so it is in every copy of the rows a command decides from.  *)
RowsPassed(m) ==
    \A c \in Consumers : m[c].subject # None => <<c, m[c].subject>> \in passed

(* What a command is about to write, or has written, is true already.      *)
ClaimsInv ==
    /\ Shape
    /\ standing \subseteq passed
    /\ RowsPassed(crow)
    /\ \A p \in Procs : pc[p] = "check" => RowsPassed(cmd[p].crow)
    /\ \A p \in Procs : pc[p] = "write" => cmd[p].body.claims \subseteq passed
    /\ ClaimsWereReviewed

(* A command between writing its receipt and the swap holds a receipt that *)
(* is on disk, that no link names yet, and that is no other command's.     *)
Holds(p) ==
    /\ cmd[p].version \in DOMAIN receipts /\ receipts[cmd[p].version] = cmd[p].body
    /\ \A i \in DOMAIN row.history : row.history[i].receipt # cmd[p].version
    /\ \A q \in Procs : pc[q] = "land" /\ cmd[q].version = cmd[p].version => q = p

Links == {row.history[i] : i \in DOMAIN row.history}

ReceiptInv ==
    /\ Shape
    /\ row.history \in Seq(Links)
    /\ HistoryIsReceipted
    /\ \A p \in Procs : pc[p] = "land" => Holds(p)

-----------------------------------------------------------------------------
(* Both invariants.                                                        *)

(* Every step keeps the fields.                                            *)
LEMMA ShapeKept ==
    ASSUME Shape, [Next]_vars
    PROVE  Shape'
<1> USE DEF Shape
<1>1. ASSUME NEW p \in Procs, Rebind(p) PROVE Shape'
    BY <1>1 DEF Rebind, Open, Check, Write, Create, Tear, Land, Kill, Idle, NoCmd, files
<1>2. ASSUME NEW c \in Consumers, Consumer(c) PROVE Shape'
    <2>1. CASE EditPlan(c) \/ Build(c)
        BY <2>1 DEF EditPlan, Build, files
    <2>2. CASE ReconcileConsumer(c)
        BY <2>2 DEF ReconcileConsumer, files
    <2>4. CASE Retire(c)
        BY <2>4 DEF Retire, files
    <2>5. CASE Accept(c)
        BY <2>5 DEF Accept, files
    <2>3. CASE ReviewUnfinished(c)
        BY <2>3 DEF ReviewUnfinished, files
    <2> QED
        BY <1>2, <2>1, <2>2, <2>3, <2>4, <2>5 DEF Consumer
<1>3. ASSUME BeginApply \/ FinishApply \/ ReviewFails \/ Reconcile \/ Forget \/ Surroundings
      PROVE  Shape'
    BY <1>3 DEF BeginApply, FinishApply, ReviewFails, Reconcile, Forget, Surroundings, files
<1>4. CASE UNCHANGED vars
    BY <1>4 DEF vars, files
<1> QED
    BY <1>1, <1>2, <1>3, <1>4 DEF Next

(* The initial state has the fields, no receipt and no link.               *)
LEMMA ShapeInit ==
    ASSUME Init
    PROVE  /\ Shape /\ RowsPassed(crow) /\ standing = passed
           /\ DOMAIN receipts = {} /\ row.history = << >>
           /\ \A p \in Procs : pc[p] = "idle"
<1> DEFINE St(c) == IF out[c] = None THEN "DISCOVERED" ELSE "COMPLETED"
           P2(c) == IF out[c] = None THEN "" ELSE "pass"
           Dep(c) == plan[c] = "hard"
<1>1. /\ crow = [c \in Consumers |->
                    [status |-> St(c), p2 |-> P2(c), subject |-> out[c], dep |-> Dep(c)]]
      /\ passed = {<<c, out[c]>> : c \in {x \in Consumers : out[x] # None}}
      /\ DOMAIN out = Consumers
    BY DEF Init
<1>2. RowsPassed(crow) /\ \A c \in Consumers : {"status", "p2", "subject"} \subseteq DOMAIN crow[c]
    <2> HIDE DEF St, P2, Dep
    <2>1. ASSUME NEW c \in Consumers
          PROVE  /\ {"status", "p2", "subject"} \subseteq DOMAIN crow[c]
                 /\ crow[c].subject = out[c]
        BY <1>1
    <2>2. ASSUME NEW c \in Consumers, crow[c].subject # None
          PROVE  <<c, crow[c].subject>> \in passed
        BY <1>1, <2>1, <2>2
    <2> QED
        BY <2>1, <2>2 DEF RowsPassed
<1>3. row.history = << >> /\ {"history", "post", "revision"} \subseteq DOMAIN row
    <2>1. PICK b : row = [status |-> "COMPLETED", p2 |-> "pass", deps |-> planDeps,
                          subject |-> official, review |-> 1, origin |-> b, post |-> b,
                          revision |-> 0, history |-> << >>]
        BY DEF Init
    <2> QED
        BY <2>1
<1>4. /\ standing = passed /\ DOMAIN receipts = {}
      /\ \A p \in Procs : pc[p] = "idle" /\ DOMAIN cmd[p] = {"row", "crow", "body", "version"}
      /\ DOMAIN pc = Procs /\ DOMAIN cmd = Procs
    BY DEF Init, NoCmd
<1>5. DOMAIN crow = Consumers
    BY <1>1
<1> QED
    BY <1>1, <1>2, <1>3, <1>4, <1>5 DEF Shape

-----------------------------------------------------------------------------
(* Claims.                                                                 *)

(* A consumer that a delta names is one.                                   *)
LEMMA DeltaNamesConsumers ==
    ASSUME NEW r, NEW old, NEW k \in Added(old, BasisOf(r)) \cup Advanced(old, BasisOf(r))
    PROVE  k[1] \in Consumers
BY DEF Added, Advanced, BasisOf, Evidence, Key, Planned

(* The claims of the receipt that Check prepares are true.                 *)
LEMMA ReceiptClaims ==
    ASSUME standing \subseteq passed, NEW m, RowsPassed(m),
           NEW r, NEW old, NEW new, new = BasisOf(r),
           Additions(m, old, new), Advancements(m, old, new)
    PROVE  Receipt(r, m, old, new).claims \subseteq passed
<1>1. ASSUME NEW k \in Added(old, new), Complete(m, k[1])
      PROVE  <<k[1], out[k[1]]>> \in passed
    BY <1>1, DeltaNamesConsumers, ConstantsAssumption DEF Additions, AcceptedOutput, RowsPassed
<1>2. ASSUME NEW k \in Advanced(old, new)
      PROVE  <<k[1], out[k[1]]>> \in passed
    BY <1>2, DeltaNamesConsumers, ConstantsAssumption DEF Advancements, AcceptedOutput, RowsPassed
<1> QED
    BY <1>1, <1>2 DEF Receipt

(* A step that keeps rows, receipts and commands and forgets no review.    *)
LEMMA ClaimsUntouched ==
    ASSUME ClaimsInv, Shape', UNCHANGED <<crow, receipts, pc, cmd, passed>>,
           standing' \subseteq standing
    PROVE  ClaimsInv'
BY DEF ClaimsInv, RowsPassed, ClaimsWereReviewed

(* A step of one command that writes no receipt.                           *)
LEMMA ClaimsOfCommand ==
    ASSUME ClaimsInv, Shape', UNCHANGED <<crow, receipts, files>>, NEW p \in Procs,
           \A q \in Procs \ {p} : pc'[q] = pc[q] /\ cmd'[q] = cmd[q],
           pc'[p] = "check" => RowsPassed(cmd'[p].crow),
           pc'[p] = "write" => cmd'[p].body.claims \subseteq passed
    PROVE  ClaimsInv'
<1>1. passed' = passed /\ standing' = standing
    BY DEF files
<1> QED
    BY <1>1 DEF ClaimsInv, RowsPassed, ClaimsWereReviewed

(* A step that changes consumers' rows and adds reviews.                   *)
LEMMA ClaimsOfConsumers ==
    ASSUME ClaimsInv, Shape', UNCHANGED <<receipts, pc, cmd>>,
           passed \subseteq passed', standing' \subseteq passed',
           \A c \in Consumers : crow'[c].subject # None =>
                                  <<c, crow'[c].subject>> \in passed'
    PROVE  ClaimsInv'
<1>1. /\ \A p \in Procs : pc'[p] = "check" => RowsPassed(cmd[p].crow)'
      /\ \A p \in Procs : pc'[p] = "write" => cmd'[p].body.claims \subseteq passed'
    BY DEF ClaimsInv, RowsPassed
<1>2. RowsPassed(crow)' /\ ClaimsWereReviewed'
    BY DEF ClaimsInv, RowsPassed, ClaimsWereReviewed
<1> QED
    BY <1>1, <1>2 DEF ClaimsInv

(* Each step keeps the claims true.                                        *)
LEMMA ClaimsStep ==
    ASSUME ClaimsInv, [Next]_vars
    PROVE  ClaimsInv'
<1>0. Shape' /\ Shape
    BY ShapeKept DEF ClaimsInv
<1>1. ASSUME NEW p \in Procs, Rebind(p) PROVE ClaimsInv'
    <2>1. CASE Open(p)
        BY <1>0, <2>1, ClaimsOfCommand DEF Open, ClaimsInv, Shape, NoCmd
    <2>2. CASE Check(p)
        <3>1. RowsPassed(cmd[p].crow) /\ standing \subseteq passed
            BY <2>2 DEF Check, ClaimsInv
        <3>2. cmd'[p].body.claims \subseteq passed
            BY <1>0, <2>2, <3>1, ReceiptClaims DEF Check, Shape
        <3> QED
            BY <1>0, <2>2, <3>2, ClaimsOfCommand DEF Check, Shape
    <2>3. CASE Write(p)
        <3>1. cmd[p].body.claims \subseteq passed
            BY <2>3 DEF Write, Create, ClaimsInv
        <3> QED
            BY <1>0, <2>3, <3>1 DEF Write, Create, files, ClaimsInv, RowsPassed,
                                    ClaimsWereReviewed, Shape
    <2>4. CASE Tear(p)
        BY <1>0, <2>4 DEF Tear, Create, Idle, files, ClaimsInv, RowsPassed,
                          ClaimsWereReviewed, Shape
    <2>5. CASE Land(p) \/ Kill(p)
        BY <1>0, <2>5, ClaimsOfCommand DEF Land, Kill, Idle, Shape
    <2> QED
        BY <1>1, <2>1, <2>2, <2>3, <2>4, <2>5 DEF Rebind
<1>2. ASSUME NEW c \in Consumers, Consumer(c) PROVE ClaimsInv'
    <2>1. CASE EditPlan(c) \/ Build(c)
        BY <1>0, <2>1, ClaimsUntouched DEF EditPlan, Build
    <2>2. CASE ReconcileConsumer(c) \/ Retire(c) \/ ReviewUnfinished(c)
        <3>1. passed' = passed /\ standing' = standing
            BY <2>2 DEF ReconcileConsumer, Retire, ReviewUnfinished, files
        <3>2. \A d \in Consumers : crow'[d].subject # None =>
                                      <<d, crow'[d].subject>> \in passed
            <4>1. \A d \in Consumers : crow'[d].subject \in {crow[d].subject, None}
                <5>1. CASE ReconcileConsumer(c)
                    BY <1>0, <5>1 DEF ReconcileConsumer, Shape
                <5>2. CASE Retire(c)
                    BY <1>0, <5>2 DEF Retire, Shape
                <5>3. CASE ReviewUnfinished(c)
                    BY <1>0, <5>3 DEF ReviewUnfinished, Shape
                <5> QED
                    BY <2>2, <5>1, <5>2, <5>3
            <4> QED
                BY <4>1 DEF ClaimsInv, RowsPassed
        <3> QED
            BY <1>0, <2>2, <3>1, <3>2, ClaimsOfConsumers
               DEF ReconcileConsumer, Retire, ReviewUnfinished, ClaimsInv
    <2>3. CASE Accept(c)
        <3>1. \A d \in Consumers : crow'[d].subject # None =>
                                      <<d, crow'[d].subject>> \in passed'
            BY <1>0, <2>3 DEF Accept, ClaimsInv, RowsPassed, Shape
        <3> QED
            BY <1>0, <2>3, <3>1, ClaimsOfConsumers DEF Accept, ClaimsInv
    <2> QED
        BY <1>2, <2>1, <2>2, <2>3 DEF Consumer
<1>3. ASSUME BeginApply \/ FinishApply \/ ReviewFails \/ Reconcile \/ Forget \/ Surroundings
      PROVE  ClaimsInv'
    BY <1>0, <1>3, ClaimsUntouched
       DEF BeginApply, FinishApply, ReviewFails, Reconcile, Forget, Surroundings, files
<1>4. CASE UNCHANGED vars
    BY <1>0, <1>4, ClaimsUntouched DEF vars, files
<1> QED
    BY <1>1, <1>2, <1>3, <1>4 DEF Next

(* No receipt of a rebind ever says of a consumer that its output is       *)
(* accepted when no review of that output was applied, however many        *)
(* commands overlap with reconciles, builds and lost files                 *)
(* (_validate_accepted_output_advancement, _validate_added_consumer).      *)
THEOREM ReceiptsClaimReviewedOutputs == Spec => []ClaimsWereReviewed
<1>1. Init => ClaimsInv
    BY ShapeInit DEF ClaimsInv, ClaimsWereReviewed
<1>2. ClaimsInv /\ [Next]_vars => ClaimsInv'
    BY ClaimsStep
<1>3. ClaimsInv => ClaimsWereReviewed
    BY DEF ClaimsInv
<1> QED
    BY <1>1, <1>2, <1>3, PTL DEF Spec

-----------------------------------------------------------------------------
(* Receipts and links.                                                     *)

(* A history that gets one link more.                                      *)
LEMMA OneMoreLink ==
    ASSUME NEW S, NEW h \in Seq(S), NEW e, NEW g, g = Append(h, e)
    PROVE  /\ g \in Seq({g[i] : i \in DOMAIN g})
           /\ DOMAIN g = DOMAIN h \cup {Len(h) + 1} /\ Len(h) + 1 \notin DOMAIN h
           /\ \A i \in DOMAIN h : g[i] = h[i]
           /\ g[Len(h) + 1] = e
<1>1. h \in Seq(S \cup {e})
    OBVIOUS
<1>2. g \in Seq(S \cup {e}) /\ Len(g) = Len(h) + 1
    BY <1>1
<1>3. /\ DOMAIN g = DOMAIN h \cup {Len(h) + 1} /\ Len(h) + 1 \notin DOMAIN h
      /\ \A i \in DOMAIN h : g[i] = h[i]
      /\ g[Len(h) + 1] = e
    BY <1>1, <1>2
<1>4. g \in Seq({g[i] : i \in DOMAIN g})
    BY <1>2
<1> QED
    BY <1>3, <1>4

(* A step of a command that neither writes a receipt nor lands.            *)
LEMMA ReceiptsUntouched ==
    ASSUME ReceiptInv, Shape', UNCHANGED receipts, row'.history = row.history,
           \A p \in Procs : pc'[p] = "land" => pc[p] = "land" /\ cmd'[p] = cmd[p]
    PROVE  ReceiptInv'
<1>1. HistoryIsReceipted' /\ row'.history \in Seq(Links')
    BY DEF ReceiptInv, HistoryIsReceipted, Links
<1>2. \A p \in Procs : pc'[p] = "land" => Holds(p)'
    BY DEF ReceiptInv, Holds
<1> QED
    BY <1>1, <1>2 DEF ReceiptInv

(* A receipt with a new version belongs to nothing that is there.          *)
LEMMA ReceiptCreated ==
    ASSUME ReceiptInv, Shape', NEW p \in Procs, NEW bytes, Create(p, bytes), UNCHANGED row,
           \A q \in Procs \ {p} : pc'[q] = pc[q] /\ cmd'[q] = cmd[q],
           pc'[p] = "land" => cmd'[p] = cmd[p] /\ bytes = cmd[p].body
    PROVE  ReceiptInv'
<1>1. /\ cmd[p].version \notin DOMAIN receipts /\ cmd[p].version \in DOMAIN receipts'
      /\ receipts'[cmd[p].version] = bytes
      /\ \A v \in DOMAIN receipts : v \in DOMAIN receipts' /\ receipts'[v] = receipts[v]
    BY DEF Create
<1>2. HistoryIsReceipted' /\ row'.history \in Seq(Links')
    BY <1>1 DEF ReceiptInv, HistoryIsReceipted, Links
<1>3. ASSUME NEW q \in Procs, pc'[q] = "land" PROVE Holds(q)'
    <2>1. CASE q = p
        BY <1>1, <1>3, <2>1 DEF ReceiptInv, Holds, HistoryIsReceipted
    <2>2. CASE q # p
        BY <1>1, <1>3, <2>2 DEF ReceiptInv, Holds
    <2> QED
        BY <2>1, <2>2
<1> QED
    BY <1>2, <1>3 DEF ReceiptInv

(* The swap appends a link whose receipt only this command holds.          *)
LEMMA LinkLanded ==
    ASSUME ReceiptInv, Shape', NEW p \in Procs, Land(p)
    PROVE  ReceiptInv'
<1> DEFINE h == row.history
           n == Len(h) + 1
<1>1. row'.history = Append(h, Event(p))
    BY DEF Land, ReceiptInv, Shape
<1>2. /\ row'.history \in Seq(Links')
      /\ DOMAIN row'.history = DOMAIN h \cup {n} /\ n \notin DOMAIN h
      /\ \A i \in DOMAIN h : row'.history[i] = h[i]
      /\ row'.history[n] = Event(p)
    BY <1>1, OneMoreLink DEF ReceiptInv, Links
<1>3. /\ Holds(p) /\ receipts' = receipts
      /\ \A q \in Procs : pc'[q] = "land" => q # p /\ pc[q] = "land" /\ cmd'[q] = cmd[q]
    BY DEF Land, Idle, ReceiptInv, Shape
<1>4. Event(p).receipt = cmd[p].version /\ Event(p).body = cmd[p].body
    BY DEF Event
<1>5. HistoryIsReceipted'
    BY <1>2, <1>3, <1>4 DEF ReceiptInv, HistoryIsReceipted, Holds
<1>6. ASSUME NEW q \in Procs, pc'[q] = "land" PROVE Holds(q)'
    BY <1>2, <1>3, <1>4, <1>6 DEF ReceiptInv, Holds, Land
<1> QED
    BY <1>2, <1>5, <1>6 DEF ReceiptInv

(* Each step keeps receipts and links.                                     *)
LEMMA ReceiptStep ==
    ASSUME ReceiptInv, [Next]_vars
    PROVE  ReceiptInv'
<1>0. Shape' /\ Shape
    BY ShapeKept DEF ReceiptInv
<1>1. ASSUME NEW p \in Procs, Rebind(p) PROVE ReceiptInv'
    <2>1. CASE Open(p) \/ Check(p) \/ Kill(p)
        BY <1>0, <2>1, ReceiptsUntouched DEF Open, Check, Kill, Idle, Shape
    <2>2. CASE Write(p)
        BY <1>0, <2>2, ReceiptCreated DEF Write, Shape
    <2>3. CASE Tear(p)
        BY <1>0, <2>3, ReceiptCreated DEF Tear, Idle, Shape
    <2>4. CASE Land(p)
        BY <1>0, <2>4, LinkLanded
    <2> QED
        BY <1>1, <2>1, <2>2, <2>3, <2>4 DEF Rebind
<1>2. ASSUME NEW c \in Consumers, Consumer(c) PROVE ReceiptInv'
    BY <1>0, <1>2, ReceiptsUntouched
       DEF Consumer, EditPlan, ReconcileConsumer, Retire, Build, Accept,
           ReviewUnfinished
<1>3. CASE FinishApply \/ ReviewFails \/ Reconcile
    BY <1>0, <1>3, ReceiptsUntouched DEF FinishApply, ReviewFails, Reconcile, Shape
<1>4. CASE BeginApply \/ Forget \/ Surroundings \/ UNCHANGED vars
    BY <1>0, <1>4, ReceiptsUntouched DEF BeginApply, Forget, Surroundings, vars
<1> QED
    BY <1>1, <1>2, <1>3, <1>4 DEF Next

(* Every link of a chain has its receipt, whole and as the link was made   *)
(* from it, and no receipt stands for two links, wherever commands overlap *)
(* or die between receipt and swap (_materialize_receipt_before_cas).      *)
THEOREM LinksKeepTheirReceipts == Spec => []HistoryIsReceipted
<1>1. ASSUME Init PROVE ReceiptInv
    <2>1. row.history = << >>
        BY <1>1, ShapeInit
    <2>2. DOMAIN row.history = {} /\ row.history \in Seq(Links)
        BY <2>1
    <2> QED
        BY <1>1, <2>2, ShapeInit DEF ReceiptInv, HistoryIsReceipted
<1>2. ReceiptInv /\ [Next]_vars => ReceiptInv'
    BY ReceiptStep
<1>3. ReceiptInv => HistoryIsReceipted
    BY DEF ReceiptInv
<1> QED
    BY <1>1, <1>2, <1>3, PTL DEF Spec

-----------------------------------------------------------------------------
(* Types.                                                                  *)

RowFields ==
    {"status", "p2", "deps", "subject", "review", "origin", "post", "revision", "history"}

(* A row with a review has both bases of it, and one without has none.     *)
RowTyped(r) ==
    /\ DOMAIN r = RowFields
    /\ r.status \in {"COMPLETED", "DISCOVERED"} /\ r.p2 \in {"pass", "fail", ""}
    /\ r.deps \in DepLists /\ r.review \in Nat
    /\ IF r.review = 0 THEN r.post = None /\ r.origin = None
       ELSE r.post \in Bases /\ r.origin \in Bases
    /\ r.history \in Seq({r.history[i] : i \in DOMAIN r.history})
    /\ r.revision = Len(r.history)

FilesTyped ==
    /\ plan \in [Consumers -> {"none", "hard", "soft"}] /\ planDeps \in DepLists
    /\ out \in [Consumers -> Outputs \cup {None}]
    /\ official \in Contents /\ core \in Cores
    /\ passed \subseteq Consumers \X Outputs /\ standing \subseteq passed

(* A command that has prepared a receipt works on a reviewed row.          *)
Prepared(p) ==
    /\ cmd[p].version \in Nat \ {0}
    /\ cmd[p].row.review # 0 /\ cmd[p].body.new \in Bases

TypeInv ==
    /\ Shape /\ RowTyped(row) /\ FilesTyped
    /\ applying \in Bases \cup {None}
    /\ DOMAIN receipts \subseteq Versions
    /\ pc \in [Procs -> {"idle", "check", "write", "land"}]
    /\ \A p \in Procs : pc[p] # "idle" => RowTyped(cmd[p].row)
    /\ \A p \in Procs : pc[p] \in {"write", "land"} => Prepared(p)

LEMMA TypeInvIsTyped == TypeInv => TypeOK
BY NoneIsNoBasis DEF TypeInv, RowTyped, FilesTyped, TypeOK

LEMMA BasisTyped ==
    ASSUME FilesTyped, NEW r, r.status \in {"COMPLETED", "DISCOVERED"}, r.deps \in DepLists
    PROVE  BasisOf(r) \in Bases
<1>1. DOMAIN Evidence \subseteq Keys
    BY DEF FilesTyped, Evidence, Keys, Key, Planned
<1>2. Evidence \in [DOMAIN Evidence -> Outputs \cup {None}]
    <2>1. \A k \in {Key(c) : c \in Planned} : out[k[1]] \in Outputs \cup {None}
        BY DEF FilesTyped, Key, Planned
    <2> QED
        BY <2>1 DEF Evidence
<1> HIDE DEF Evidence
<1>3. Evidence \in UNION {[S -> Outputs \cup {None}] : S \in SUBSET Keys}
    BY <1>1, <1>2
<1> QED
    BY <1>3 DEF BasisOf, Bases, FilesTyped

(* The least of a set of numbers, and so the next version of a receipt.    *)
LEMMA LeastNumber ==
    ASSUME NEW S, S \subseteq Nat, S # {}
    PROVE  \E n \in S : \A m \in S : n <= m
<1>1. PICK n \in S : \A m \in S : ~ (<<m, n>> \in OpToRel(<, Nat))
    BY NatLessThanWellFounded, WFMin
<1>2. \A m \in S : ~ (m < n)
    BY <1>1 DEF OpToRel
<1> QED
    BY <1>2

LEMMA NextVersionTyped ==
    ASSUME DOMAIN receipts \subseteq Versions
    PROVE  NextVersion \in Nat \ {0}
<1> DEFINE Above == {v \in 1..MaxVersions + 1 : \A w \in DOMAIN receipts : w < v}
<1>1. MaxVersions + 1 \in Above
    BY ConstantsAssumption DEF Versions
<1>2. PICK v \in Above : \A u \in Above : v <= u
    <2>1. Above \subseteq Nat /\ Above # {}
        BY <1>1
    <2> QED
        BY <2>1, LeastNumber
<1>3. v = 1 \/ v - 1 \in DOMAIN receipts
    <2> SUFFICES ASSUME v # 1, v - 1 \notin DOMAIN receipts PROVE FALSE
        OBVIOUS
    <2>1. v \in 2..MaxVersions + 1
        BY <1>2, ConstantsAssumption
    <2>2. \A w \in DOMAIN receipts : w \in Nat /\ w < v /\ w # v - 1
        BY <1>2, ConstantsAssumption DEF Versions
    <2>3. v - 1 \in Above
        BY <2>1, <2>2, ConstantsAssumption
    <2> QED
        BY <1>2, <2>1, <2>3
<1>4. v \in 1..MaxVersions + 1 /\ v \notin DOMAIN receipts /\ \A w \in DOMAIN receipts : w < v
    BY <1>2, ConstantsAssumption DEF Versions
<1>5. NextVersion \in 1..MaxVersions + 1
    BY <1>3, <1>4 DEF NextVersion
<1> QED
    BY <1>5, ConstantsAssumption

LEMMA TypeInitially == Init => TypeInv
<1> SUFFICES ASSUME Init PROVE TypeInv
    OBVIOUS
<1>1. FilesTyped
    <2>1. /\ plan \in [Consumers -> {"none", "hard"}] /\ planDeps \in DepLists
          /\ out \in [Consumers -> Importing \cup {None}]
          /\ official \in Contents /\ core \in Cores
          /\ passed = {<<c, out[c]>> : c \in {x \in Consumers : out[x] # None}}
          /\ standing = passed
        BY DEF Init
    <2> QED
        BY <2>1, ConstantsAssumption DEF FilesTyped
<1>2. PICK seen \in SUBSET DOMAIN Evidence : \E old \in {FALSE, seen = {}} :
          LET b == [own |-> "COMPLETED", deps |-> planDeps, core |-> core, subject |-> official,
                    down |-> [k \in seen |-> Evidence[k]], retired |-> old]
          IN  row = [status |-> "COMPLETED", p2 |-> "pass", deps |-> planDeps,
                     subject |-> official, review |-> 1, origin |-> b, post |-> b,
                     revision |-> 0, history |-> << >>]
    BY DEF Init
<1>3. PICK old \in BOOLEAN :
          LET b == [own |-> "COMPLETED", deps |-> planDeps, core |-> core, subject |-> official,
                    down |-> [k \in seen |-> Evidence[k]], retired |-> old]
          IN  row = [status |-> "COMPLETED", p2 |-> "pass", deps |-> planDeps,
                     subject |-> official, review |-> 1, origin |-> b, post |-> b,
                     revision |-> 0, history |-> << >>]
    BY <1>2
<1> DEFINE b == [own |-> "COMPLETED", deps |-> planDeps, core |-> core, subject |-> official,
                 down |-> [k \in seen |-> Evidence[k]], retired |-> old]
<1>4. b \in Bases
    <2>1. \A k \in seen : Evidence[k] \in Outputs \cup {None}
        BY <1>1 DEF FilesTyped, Evidence, Key, Planned
    <2>2. seen \in SUBSET Keys
        BY <1>1 DEF FilesTyped, Evidence, Keys, Key, Planned
    <2>3. [k \in seen |-> Evidence[k]] \in UNION {[S -> Outputs \cup {None}] : S \in SUBSET Keys}
        BY <2>1, <2>2
    <2> HIDE DEF Evidence
    <2> QED
        BY <1>1, <2>3 DEF Bases, FilesTyped
<1> HIDE DEF b
<1>5. row = [status |-> "COMPLETED", p2 |-> "pass", deps |-> planDeps,
             subject |-> official, review |-> 1, origin |-> b, post |-> b,
             revision |-> 0, history |-> << >>]
    BY <1>3 DEF b
<1>6. RowTyped(row)
    BY <1>1, <1>4, <1>5 DEF RowTyped, RowFields, FilesTyped
<1> QED
    BY <1>1, <1>6, ShapeInit DEF TypeInv, Init

(* A history that gets a link more is one still.                           *)
LEMMA HistoryGrows ==
    ASSUME NEW h, h \in Seq({h[i] : i \in DOMAIN h}), NEW e
    PROVE  /\ Append(h, e) \in Seq({Append(h, e)[i] : i \in DOMAIN Append(h, e)})
           /\ Len(Append(h, e)) = Len(h) + 1 /\ Len(h) \in Nat
<1> DEFINE g == Append(h, e)
           S == {h[i] : i \in DOMAIN h}
<1>1. g \in Seq({g[i] : i \in DOMAIN g})
    <2> HIDE DEF S
    <2>1. h \in Seq(S) /\ g = Append(h, e)
        BY DEF S
    <2> HIDE DEF g
    <2> QED
        BY <2>1, OneMoreLink
<1>2. h \in Seq({h[i] : i \in DOMAIN h} \cup {e})
    OBVIOUS
<1> QED
    BY <1>1, <1>2

LEMMA TypeStep == TypeInv /\ [Next]_vars => TypeInv'
<1> SUFFICES ASSUME TypeInv, [Next]_vars PROVE TypeInv'
    OBVIOUS
<1>0. Shape /\ Shape'
    BY ShapeKept DEF TypeInv
<1>a. /\ DOMAIN pc = Procs /\ DOMAIN cmd = Procs
      /\ \A p \in Procs : DOMAIN cmd[p] = {"row", "crow", "body", "version"}
    BY <1>0 DEF Shape
<1>b. BasisOf(row) \in Bases
    <2>1. FilesTyped /\ row.status \in {"COMPLETED", "DISCOVERED"} /\ row.deps \in DepLists
        BY DEF TypeInv, RowTyped
    <2> QED
        BY <2>1, BasisTyped
<1>c. ASSUME NEW p \in Procs, pc[p] # "idle"
      PROVE  /\ cmd[p].row.status \in {"COMPLETED", "DISCOVERED"} /\ cmd[p].row.deps \in DepLists
             /\ RowTyped(cmd[p].row)
    BY <1>c DEF TypeInv, RowTyped
<1>d. /\ DOMAIN row = RowFields /\ row.status \in {"COMPLETED", "DISCOVERED"}
      /\ row.p2 \in {"pass", "fail", ""} /\ row.deps \in DepLists /\ row.review \in Nat
      /\ row.history \in Seq({row.history[i] : i \in DOMAIN row.history})
      /\ row.revision = Len(row.history) /\ FilesTyped /\ applying \in Bases \cup {None}
    BY DEF TypeInv, RowTyped
<1>e. FilesTyped
    BY DEF TypeInv
<1>1. ASSUME NEW p \in Procs, Open(p) PROVE TypeInv'
    BY <1>0, <1>a, <1>1 DEF Open, TypeInv, FilesTyped, Prepared, files
<1>2. ASSUME NEW p \in Procs, Check(p) PROVE TypeInv'
    <2> DEFINE b == Receipt(cmd[p].row, cmd[p].crow, BasisAtTip(cmd[p].row), BasisOf(cmd[p].row))
    <2>1. /\ cmd' = [cmd EXCEPT ![p].body = b, ![p].version = NextVersion]
          /\ pc[p] = "check" /\ pc' = [pc EXCEPT ![p] = "write"]
          /\ cmd[p].row.review # 0
          /\ UNCHANGED <<row, crow, files, applying, receipts, events>>
        BY <1>2 DEF Check
    <2>2. b.new = BasisOf(cmd[p].row)
        BY DEF Receipt
    <2>3. b.new \in Bases
        <3>1. /\ cmd[p].row.status \in {"COMPLETED", "DISCOVERED"}
              /\ cmd[p].row.deps \in DepLists
            BY <1>c, <2>1
        <3>2. BasisOf(cmd[p].row) \in Bases
            BY <1>e, <3>1, BasisTyped
        <3> QED
            BY <2>2, <3>2
    <2>4. NextVersion \in Nat \ {0}
        BY NextVersionTyped DEF TypeInv
    <2> HIDE DEF b
    <2>5. /\ cmd'[p].row = cmd[p].row /\ cmd'[p].body = b /\ cmd'[p].version = NextVersion
          /\ \A q \in Procs \ {p} : cmd'[q] = cmd[q] /\ pc'[q] = pc[q]
        BY <1>a, <2>1
    <2>6. Prepared(p)'
        BY <2>1, <2>3, <2>4, <2>5 DEF Prepared
    <2> QED
        BY <1>0, <1>a, <2>1, <2>5, <2>6 DEF TypeInv, FilesTyped, Prepared, files
<1>3. ASSUME NEW p \in Procs, Write(p) \/ Tear(p) PROVE TypeInv'
    <2>1. DOMAIN receipts' \subseteq Versions
        BY <1>3, ConstantsAssumption DEF Write, Tear, Create, TypeInv, Prepared, Versions
    <2> QED
        BY <1>0, <1>a, <1>3, <2>1 DEF Write, Tear, Create, Idle, TypeInv, FilesTyped, Prepared, files
<1>4. ASSUME NEW p \in Procs, Land(p) PROVE TypeInv'
    <2>1. /\ row' = [row EXCEPT !.post = cmd[p].body.new, !.revision = @ + 1,
                                !.history = Append(@, Event(p))]
          /\ Idle(p) /\ applying' = None /\ UNCHANGED <<crow, files, receipts, events>>
          /\ row.review = cmd[p].row.review /\ pc[p] = "land"
        BY <1>4 DEF Land, Unmoved
    <2>2. row.review # 0 /\ cmd[p].body.new \in Bases
        BY <2>1 DEF TypeInv, Prepared
    <2>3. RowTyped(row')
        <3> DEFINE e == Event(p)
                   new == cmd[p].body.new
        <3> HIDE DEF e, new
        <3>1. row' = [row EXCEPT !.post = new, !.revision = @ + 1, !.history = Append(@, e)]
            BY <2>1 DEF e, new
        <3>2. /\ DOMAIN row' = RowFields /\ row'.status = row.status /\ row'.p2 = row.p2
              /\ row'.deps = row.deps /\ row'.review = row.review /\ row'.origin = row.origin
              /\ row'.post = new /\ row'.revision = row.revision + 1
              /\ row'.history = Append(row.history, e)
            BY <1>d, <3>1 DEF RowFields
        <3>3. /\ row'.history \in Seq({row'.history[i] : i \in DOMAIN row'.history})
              /\ row'.revision = Len(row'.history)
            <4> DEFINE h == row.history
            <4>1. h \in Seq({h[i] : i \in DOMAIN h}) /\ row.revision = Len(h)
                BY <1>d
            <4>2. row'.history = Append(h, e) /\ row'.revision = row.revision + 1
                BY <3>2
            <4> HIDE DEF h
            <4>3. /\ Append(h, e) \in Seq({Append(h, e)[i] : i \in DOMAIN Append(h, e)})
                  /\ Len(Append(h, e)) = Len(h) + 1 /\ Len(h) \in Nat
                BY <4>1, HistoryGrows
            <4> QED
                BY <4>1, <4>2, <4>3
        <3>4. row.origin \in Bases /\ new \in Bases
            BY <2>2 DEF TypeInv, RowTyped, new
        <3> QED
            BY <1>d, <2>2, <3>2, <3>3, <3>4 DEF RowTyped
    <2> QED
        BY <1>0, <1>a, <2>1, <2>3 DEF Idle, TypeInv, FilesTyped, Prepared, files
<1>5. ASSUME NEW p \in Procs, Kill(p) PROVE TypeInv'
    BY <1>0, <1>a, <1>5 DEF Kill, Idle, TypeInv, FilesTyped, Prepared, files
<1>6. ASSUME BeginApply PROVE TypeInv'
    BY <1>0, <1>b, <1>6 DEF BeginApply, TypeInv, FilesTyped, Prepared, files
<1>7. ASSUME FinishApply PROVE TypeInv'
    <2> DEFINE post == BasisOf([row EXCEPT !.status = "COMPLETED"])
    <2>1. post \in Bases
        <3> DEFINE r == [row EXCEPT !.status = "COMPLETED"]
        <3>1. r.status = "COMPLETED" /\ r.deps \in DepLists
            BY <1>d DEF RowFields
        <3> HIDE DEF r
        <3>2. BasisOf(r) \in Bases
            BY <1>e, <3>1, BasisTyped
        <3> QED
            BY <3>2 DEF r
    <2>2. row' = [row EXCEPT !.status = "COMPLETED", !.p2 = "pass", !.subject = applying.subject,
                             !.review = @ + 1, !.origin = applying, !.post = post]
          /\ applying # None
        BY <1>7 DEF FinishApply
    <2> HIDE DEF post
    <2>3. /\ DOMAIN row' = RowFields /\ row'.status = "COMPLETED" /\ row'.p2 = "pass"
          /\ row'.deps = row.deps /\ row'.review = row.review + 1 /\ row'.origin = applying
          /\ row'.post = post /\ row'.revision = row.revision /\ row'.history = row.history
        BY <1>d, <2>2 DEF RowFields
    <2>4. RowTyped(row')
        <3>1. row'.review \in Nat /\ row'.review # 0 /\ row'.origin \in Bases /\ row'.post \in Bases
            <4>1. row.review \in Nat /\ applying \in Bases
                BY <1>d, <2>2
            <4>2. row'.review = row.review + 1 /\ row'.origin = applying /\ row'.post = post
                BY <2>3
            <4> QED
                BY <2>1, <4>1, <4>2
        <3>2. /\ row'.history \in Seq({row'.history[i] : i \in DOMAIN row'.history})
              /\ row'.revision = Len(row'.history)
            BY <1>d, <2>3
        <3> QED
            BY <1>d, <2>3, <3>1, <3>2 DEF RowTyped
    <2> QED
        BY <1>0, <1>7, <2>4 DEF FinishApply, TypeInv, FilesTyped, Prepared, files
<1>8. ASSUME ReviewFails \/ Reconcile PROVE TypeInv'
    <2>1. RowTyped(row')
        <3>1. CASE ReviewFails
            <4>1. /\ DOMAIN row' = RowFields /\ row'.status = row.status /\ row'.p2 = "fail"
                  /\ row'.deps = row.deps /\ row'.review = row.review
                  /\ row'.origin = row.origin /\ row'.post = row.post
                  /\ row'.revision = row.revision /\ row'.history = row.history
                BY <1>d, <3>1 DEF ReviewFails, RowFields
            <4> QED
                BY <1>d, <4>1 DEF TypeInv, RowTyped
        <3>2. CASE Reconcile
            <4>1. /\ DOMAIN row' = RowFields /\ row'.status = "DISCOVERED" /\ row'.p2 = ""
                  /\ row'.deps = planDeps /\ row'.review = 0
                  /\ row'.origin = None /\ row'.post = None
                  /\ row'.revision = row.revision /\ row'.history = row.history
                BY <1>d, <3>2 DEF Reconcile, RowFields
            <4> QED
                <5>1. /\ row'.history \in Seq({row'.history[i] : i \in DOMAIN row'.history})
                      /\ row'.revision = Len(row'.history) /\ planDeps \in DepLists
                    BY <1>d, <4>1 DEF FilesTyped
                <5>2. /\ row'.status \in {"COMPLETED", "DISCOVERED"}
                      /\ row'.p2 \in {"pass", "fail", ""}
                      /\ row'.deps \in DepLists /\ row'.review \in Nat
                    <6>1. row'.status \in {"COMPLETED", "DISCOVERED"}
                        BY <4>1
                    <6>2. row'.p2 \in {"pass", "fail", ""}
                        BY <4>1, Zenon
                    <6>3. row'.deps \in DepLists /\ row'.review \in Nat
                        <7>1. row'.deps = planDeps /\ row'.review = 0
                            BY <4>1
                        <7>2. planDeps \in DepLists
                            BY <5>1
                        <7> QED
                            BY <7>1, <7>2
                    <6> QED
                        BY <6>1, <6>2, <6>3
                <5>3. row'.review = 0 /\ row'.post = None /\ row'.origin = None
                      /\ DOMAIN row' = RowFields
                    BY <4>1
                <5> QED
                    BY <5>1, <5>2, <5>3 DEF RowTyped
        <3> QED
            BY <1>8, <3>1, <3>2
    <2> QED
        BY <1>0, <1>8, <2>1 DEF ReviewFails, Reconcile, TypeInv, FilesTyped, Prepared, files
<1>9. ASSUME NEW c \in Consumers, EditPlan(c) \/ ReconcileConsumer(c) \/ Retire(c) \/ Build(c)
                                   \/ ReviewUnfinished(c)
      PROVE  TypeInv'
    BY <1>0, <1>9 DEF EditPlan, ReconcileConsumer, Retire, Build, ReviewUnfinished, TypeInv, FilesTyped,
                      Prepared, files
<1>10. ASSUME NEW c \in Consumers, Accept(c) PROVE TypeInv'
    BY <1>0, <1>10 DEF Accept, TypeInv, FilesTyped, Prepared
<1>11. ASSUME Forget \/ Surroundings PROVE TypeInv'
    BY <1>0, <1>11 DEF Forget, Surroundings, TypeInv, FilesTyped, Prepared
<1>12. CASE UNCHANGED vars
    BY <1>0, <1>12 DEF vars, files, TypeInv, FilesTyped, Prepared
<1> QED
    BY <1>1, <1>2, <1>3, <1>4, <1>5, <1>6, <1>7, <1>8, <1>9, <1>10, <1>11, <1>12
    DEF Next, Rebind, Consumer

(* The rows, the files and the commands hold what the code lets them hold, *)
(* and the revision of a chain is its length.                              *)
THEOREM TypeCorrect == Spec => []TypeOK
<1>1. TypeInv => TypeOK
    BY TypeInvIsTyped
<1> QED
    BY <1>1, TypeInitially, TypeStep, PTL DEF Spec
-----------------------------------------------------------------------------
(* What a chain of rebinds is worth.                                       *)

(* The outputs in b that differ from those in o are among s, those that    *)
(* have passed a review, and every consumer in o is in b.                  *)
OutputsPassed(o, b, s) ==
    \A k \in DOMAIN o.down :
        /\ k \in DOMAIN b.down
        /\ b.down[k] # o.down[k] => <<k[1], b.down[k]>> \in s

(* Link i has moved the basis from the reviewed one that its receipt names *)
(* to one that is worth the same, and has lost no consumer that this or an *)
(* earlier link started from.                                              *)
LinkSound(h, i, s) ==
    /\ Fixed(h[i].repl) = Fixed(h[i].body.origin)
    /\ OutputsPassed(h[i].body.origin, h[i].repl, s)
    /\ \A j \in 1..i : DOMAIN h[j].prev.down \subseteq DOMAIN h[i].repl.down
    /\ IF i = 1 THEN h[i].prev = h[i].body.origin
       ELSE h[i].body.link.origin = h[i].body.origin

(* The same of the link that a command would append to the row it read.    *)
BodySound(r, b, s) ==
    /\ Fixed(b.new) = Fixed(b.origin)
    /\ OutputsPassed(b.origin, b.new, s)
    /\ DOMAIN r.post.down \subseteq DOMAIN b.new.down
    /\ \A j \in DOMAIN r.history : DOMAIN r.history[j].prev.down \subseteq DOMAIN b.new.down
    /\ IF r.history = << >> THEN r.post = b.origin ELSE b.link.origin = b.origin

(* A command's copy of the history is the beginning of the row's.          *)
Begins(g, h) == DOMAIN g \subseteq DOMAIN h /\ \A i \in DOMAIN g : g[i] = h[i]

ChainInv ==
    /\ TypeInv
    /\ \A i \in DOMAIN row.history : LinkSound(row.history, i, passed)
    /\ \A p \in Procs : pc[p] # "idle" => Begins(cmd[p].row.history, row.history)
    /\ \A p \in Procs : pc[p] \in {"write", "land"} => BodySound(cmd[p].row, cmd[p].body, passed)

LEMMA PassedGrows ==
    ASSUME [Next]_vars
    PROVE  passed \subseteq passed'
BY DEF Next, Rebind, Open, Check, Write, Create, Tear, Land, Kill, Consumer, EditPlan,
       ReconcileConsumer, Retire, Build, Accept, ReviewUnfinished, BeginApply, FinishApply, ReviewFails,
       Reconcile, Forget, Surroundings, vars, files

LEMMA MorePassed ==
    ASSUME NEW s, NEW t, s \subseteq t
    PROVE  /\ \A h, i : LinkSound(h, i, s) => LinkSound(h, i, t)
           /\ \A r, b : BodySound(r, b, s) => BodySound(r, b, t)
BY DEF LinkSound, BodySound, OutputsPassed

(* What is sound in a history is sound in the beginning of it.             *)
LEMMA SoundFromBegin ==
    ASSUME NEW g, NEW h, Begins(g, h), DOMAIN g = 1..Len(g), Len(g) \in Nat, NEW s,
           \A i \in DOMAIN h : LinkSound(h, i, s)
    PROVE  \A i \in DOMAIN g : LinkSound(g, i, s)
<1> SUFFICES ASSUME NEW i \in DOMAIN g PROVE LinkSound(g, i, s)
    OBVIOUS
<1>1. i \in DOMAIN h /\ LinkSound(h, i, s) /\ g[i] = h[i]
    BY DEF Begins
<1>2. \A j \in 1..i : g[j] = h[j]
    BY DEF Begins
<1> QED
    BY <1>1, <1>2 DEF LinkSound

(* A row whose chain holds was reviewed at the basis its last link names.  *)
LEMMA ChainOrigin ==
    ASSUME NEW r, ChainHolds(r), r.history # << >>, NEW S, r.history \in Seq(S),
           NEW n, n = Len(r.history), NEW s, LinkSound(r.history, n, s)
    PROVE  /\ n \in DOMAIN r.history /\ DOMAIN r.history = 1..n /\ n \in Nat \ {0}
           /\ r.history[n].body.origin = r.origin
           /\ r.history[n].repl = r.post /\ Tip(r).new = r.post
<1>1. n \in DOMAIN r.history /\ DOMAIN r.history = 1..n /\ n \in Nat \ {0}
    OBVIOUS
<1>2. LinkHolds(r, n) /\ r.history[n].repl = r.post
    BY <1>1 DEF ChainHolds
<1>3. Tip(r).new = r.post
    BY <1>2 DEF Tip, LinkHolds
<1>4. CASE n = 1
    BY <1>1, <1>2, <1>3, <1>4 DEF LinkHolds, LinkSound
<1>5. CASE n # 1
    <2>1. n > 1
        <3>1. \A x \in Nat \ {0} : x # 1 => x > 1
            OBVIOUS
        <3> QED
            BY <1>1, <1>5, <3>1
    <2>2. r.history[n].body.link = [receipt |-> r.history[n - 1].receipt, origin |-> r.origin]
        BY <1>2, <1>5, <2>1 DEF LinkHolds, LinkTo
    <2>3. r.history[n].body.link.origin = r.origin
        BY <2>2
    <2> QED
        BY <1>1, <1>2, <1>3, <1>5, <2>3 DEF LinkSound
<1> QED
    BY <1>4, <1>5

(* An advanced consumer is listed with an output that has passed.          *)
LEMMA AdvancedPassed ==
    ASSUME standing \subseteq passed, NEW m, NEW r, NEW old,
           Advancements(m, old, BasisOf(r)), NEW k \in Advanced(old, BasisOf(r))
    PROVE  <<k[1], BasisOf(r).down[k]>> \in passed
<1>1. k \in DOMAIN Evidence
    BY DEF Advanced, BasisOf
<1>2. Evidence[k] = out[k[1]]
    BY <1>1 DEF Evidence
<1>3. <<k[1], m[k[1]].subject>> \in standing /\ m[k[1]].subject = out[k[1]]
    BY DEF Advancements, AcceptedOutput, ReviewStands
<1> QED
    BY <1>2, <1>3 DEF BasisOf

(* The receipt that Check prepares says the truth about the basis.         *)
LEMMA BodyPrepared ==
    ASSUME FilesTyped, NEW r, RowTyped(r), r.review # 0, NEW m, ChainHolds(r),
           NEW old, old = BasisAtTip(r), NEW new, new = BasisOf(r),
           r.history # << >> => old = r.post,
           OnlyDownstream(Normal(old), new, PendingAtTip(r)), Advancements(m, old, new),
           \A i \in DOMAIN r.history : LinkSound(r.history, i, passed)
    PROVE  BodySound(r, Receipt(r, m, old, new), passed)
<1> DEFINE b == Receipt(r, m, old, new)
           h == r.history
           n == Len(h)
           o == r.origin
<1> SUFFICES BodySound(r, b, passed)
    OBVIOUS
<1>1. r.origin \in Bases /\ r.post \in Bases /\ h \in Seq({h[i] : i \in DOMAIN h})
    BY DEF RowTyped
<1>2. b.new = new /\ b.origin = o /\ (h # << >> => b.link.origin = o)
    BY DEF Receipt
<1>3. old = r.post
    BY DEF BasisAtTip, ChainHolds
<1>4. Fixed(Normal(old)) = Fixed(old) /\ Normal(old).down = old.down
    BY <1>1, <1>3 DEF Bases, Normal, Fixed
<1>5. /\ Fixed(new) = Fixed(old) /\ DOMAIN old.down \subseteq DOMAIN new.down
    BY <1>4 DEF OnlyDownstream
<1>6. \A k \in DOMAIN old.down : new.down[k] # old.down[k] => <<k[1], new.down[k]>> \in passed
    <2> SUFFICES ASSUME NEW k \in DOMAIN old.down, new.down[k] # old.down[k]
                 PROVE  <<k[1], new.down[k]>> \in passed
        OBVIOUS
    <2>1. k \in Advanced(old, new)
        BY <1>5 DEF Advanced
    <2>2. standing \subseteq passed
        BY DEF FilesTyped
    <2> QED
        BY <2>1, <2>2, AdvancedPassed
<1>7. CASE h = << >>
    <2>1. r.post = o
        BY <1>7 DEF ChainHolds
    <2>2. Fixed(new) = Fixed(o) /\ OutputsPassed(o, new, passed)
        BY <1>3, <1>5, <1>6, <2>1 DEF OutputsPassed
    <2>3. DOMAIN h = {}
        BY <1>7
    <2> HIDE DEF b, o
    <2> QED
        BY <1>2, <1>3, <1>5, <1>7, <2>1, <2>2, <2>3 DEF BodySound
<1>8. CASE h # << >>
    <2>1. n \in DOMAIN h /\ LinkSound(h, n, passed)
        BY <1>1, <1>8
    <2>2. /\ DOMAIN h = 1..n /\ h[n].body.origin = o /\ h[n].repl = r.post
        BY <1>1, <1>8, <2>1, ChainOrigin
    <2>3. /\ Fixed(old) = Fixed(o) /\ OutputsPassed(o, old, passed)
          /\ \A j \in 1..n : DOMAIN h[j].prev.down \subseteq DOMAIN old.down
        BY <1>3, <2>1, <2>2 DEF LinkSound
    <2>4. OutputsPassed(o, new, passed)
        BY <1>5, <1>6, <2>3 DEF OutputsPassed
    <2>5. \A j \in DOMAIN h : DOMAIN h[j].prev.down \subseteq DOMAIN new.down
        BY <1>5, <2>2, <2>3
    <2> HIDE DEF b, o
    <2> QED
        BY <1>2, <1>3, <1>5, <1>8, <2>3, <2>4, <2>5 DEF BodySound
<1> QED
    BY <1>7, <1>8

(* The link that a command appends to a row it has read unchanged.         *)
LEMMA LinkAppended ==
    ASSUME NEW r, NEW b, NEW s, BodySound(r, b, s),
           NEW h, h \in Seq({h[i] : i \in DOMAIN h}), DOMAIN r.history = DOMAIN h,
           r.history = << >> <=> h = << >>,
           \A i \in DOMAIN h : r.history[i] = h[i] /\ LinkSound(h, i, s),
           NEW e, e.body = b, e.prev = r.post, e.repl = b.new,
           NEW g, g = Append(h, e)
    PROVE  /\ \A i \in DOMAIN g : LinkSound(g, i, s)
           /\ Begins(h, g)
<1> DEFINE n == Len(h) + 1
<1>1. /\ DOMAIN g = DOMAIN h \cup {n} /\ \A i \in DOMAIN h : g[i] = h[i]
      /\ g[n] = e
    BY OneMoreLink
<1>2. DOMAIN h = 1..Len(h) /\ Len(h) \in Nat /\ (h = << >> <=> n = 1)
    OBVIOUS
<1>3. Begins(h, g)
    BY <1>1 DEF Begins
<1>4. ASSUME NEW i \in DOMAIN h PROVE LinkSound(g, i, s)
    <2>1. LinkSound(h, i, s) /\ g[i] = h[i]
        BY <1>1
    <2>2. \A j \in 1..i : g[j] = h[j]
        BY <1>1, <1>2
    <2> QED
        BY <2>1, <2>2 DEF LinkSound
<1>5. LinkSound(g, n, s)
    <2>1. \A j \in 1..n : DOMAIN g[j].prev.down \subseteq DOMAIN e.repl.down
        <3> SUFFICES ASSUME NEW j \in 1..n
                     PROVE  DOMAIN g[j].prev.down \subseteq DOMAIN e.repl.down
            OBVIOUS
        <3>1. j = n \/ j \in DOMAIN h
            BY <1>2
        <3> QED
            BY <1>1, <3>1 DEF BodySound
    <2>2. Fixed(e.repl) = Fixed(e.body.origin) /\ OutputsPassed(e.body.origin, e.repl, s)
        BY DEF BodySound
    <2>3. IF n = 1 THEN e.prev = e.body.origin ELSE e.body.link.origin = e.body.origin
        BY <1>2 DEF BodySound
    <2> HIDE DEF n
    <2> QED
        BY <1>1, <2>1, <2>2, <2>3 DEF LinkSound
<1> QED
    BY <1>1, <1>3, <1>4, <1>5

LEMMA ChainInitially == Init => ChainInv
<1> SUFFICES ASSUME Init PROVE ChainInv
    OBVIOUS
<1>1. TypeInv /\ row.history = << >> /\ \A p \in Procs : pc[p] = "idle"
    BY TypeInitially, ShapeInit
<1>2. DOMAIN row.history = {}
    BY <1>1
<1> QED
    BY <1>1, <1>2 DEF ChainInv

(* A step that leaves the history alone, and no command nearer to its end. *)
LEMMA ChainUntouched ==
    ASSUME ChainInv, TypeInv', [Next]_vars, row'.history = row.history,
           \A p \in Procs : pc'[p] # "idle" => pc'[p] = pc[p] /\ cmd'[p] = cmd[p]
    PROVE  ChainInv'
<1>1. passed \subseteq passed'
    BY PassedGrows
<1>2. \A i \in DOMAIN row'.history : LinkSound(row'.history, i, passed')
    BY <1>1, MorePassed DEF ChainInv
<1>3. ASSUME NEW p \in Procs, pc'[p] # "idle"
      PROVE  Begins(cmd'[p].row.history, row'.history)
    BY <1>3 DEF ChainInv
<1>4. ASSUME NEW p \in Procs, pc'[p] \in {"write", "land"}
      PROVE  BodySound(cmd'[p].row, cmd'[p].body, passed')
    <2>1. pc'[p] = pc[p] /\ cmd'[p] = cmd[p]
        BY <1>4
    <2>2. BodySound(cmd[p].row, cmd[p].body, passed)
        BY <1>4, <2>1 DEF ChainInv
    <2> QED
        BY <1>1, <2>1, <2>2, MorePassed
<1> QED
    BY <1>2, <1>3, <1>4 DEF ChainInv

(* A step of one command that leaves row and files alone.                  *)
LEMMA ChainOfCommand ==
    ASSUME ChainInv, TypeInv', UNCHANGED <<row, passed>>, NEW p \in Procs,
           \A q \in Procs \ {p} : pc'[q] = pc[q] /\ cmd'[q] = cmd[q],
           Begins(cmd'[p].row.history, row.history),
           pc'[p] \in {"write", "land"} => BodySound(cmd'[p].row, cmd'[p].body, passed)
    PROVE  ChainInv'
<1>1. ASSUME NEW q \in Procs, pc'[q] # "idle"
      PROVE  Begins(cmd'[q].row.history, row'.history)
    BY <1>1 DEF ChainInv
<1>2. ASSUME NEW q \in Procs, pc'[q] \in {"write", "land"}
      PROVE  BodySound(cmd'[q].row, cmd'[q].body, passed')
    BY <1>2 DEF ChainInv
<1> QED
    BY <1>1, <1>2 DEF ChainInv

LEMMA HistoryOfRow ==
    ASSUME NEW r, RowTyped(r)
    PROVE  LET h == r.history
           IN  /\ h \in Seq({h[i] : i \in DOMAIN h}) /\ r.revision = Len(h)
               /\ DOMAIN h = 1..Len(h) /\ Len(h) \in Nat /\ (h = << >> <=> Len(h) = 0)
<1> DEFINE h == r.history
<1>1. h \in Seq({h[i] : i \in DOMAIN h}) /\ r.revision = Len(h)
    BY DEF RowTyped
<1> HIDE DEF h
<1>2. DOMAIN h = 1..Len(h) /\ Len(h) \in Nat /\ (h = << >> <=> Len(h) = 0)
    BY <1>1
<1> QED
    BY <1>1, <1>2 DEF h

LEMMA ChainChecked ==
    ASSUME ChainInv, TypeInv', NEW p \in Procs, Check(p)
    PROVE  ChainInv'
<1> DEFINE r == cmd[p].row
           m == cmd[p].crow
           b == Receipt(r, m, BasisAtTip(r), BasisOf(r))
<1>1. /\ pc[p] = "check" /\ pc' = [pc EXCEPT ![p] = "write"]
      /\ cmd' = [cmd EXCEPT ![p].body = b, ![p].version = NextVersion]
      /\ UNCHANGED <<row, passed>>
    BY DEF Check, files
<1>2. /\ r.review # 0 /\ ChainHolds(r) /\ (r.history # << >> => BasisAtTip(r) = r.post)
      /\ OnlyDownstream(Normal(BasisAtTip(r)), BasisOf(r), PendingAtTip(r))
      /\ Advancements(m, BasisAtTip(r), BasisOf(r))
    BY DEF Check
<1>3. RowTyped(r) /\ FilesTyped /\ Begins(r.history, row.history)
    BY <1>1 DEF ChainInv, TypeInv
<1>4. \A i \in DOMAIN r.history : LinkSound(r.history, i, passed)
    <2>1. DOMAIN r.history = 1..Len(r.history) /\ Len(r.history) \in Nat
        <3> HIDE DEF r
        <3> QED
            BY <1>3, HistoryOfRow
    <2>2. \A i \in DOMAIN row.history : LinkSound(row.history, i, passed)
        BY DEF ChainInv
    <2> HIDE DEF r
    <2> QED
        BY <1>3, <2>1, <2>2, SoundFromBegin
<1>5. BodySound(r, b, passed)
    <2> HIDE DEF r, m
    <2> QED
        BY <1>2, <1>3, <1>4, BodyPrepared
<1>6. /\ cmd'[p].row = r /\ cmd'[p].body = b
      /\ \A q \in Procs \ {p} : cmd'[q] = cmd[q] /\ pc'[q] = pc[q]
    <2> HIDE DEF b
    <2>1. DOMAIN pc = Procs /\ DOMAIN cmd = Procs /\ DOMAIN cmd[p] = {"row", "crow", "body", "version"}
        BY DEF ChainInv, TypeInv, Shape
    <2> QED
        BY <1>1, <2>1
<1> HIDE DEF b
<1> QED
    BY <1>1, <1>3, <1>5, <1>6, ChainOfCommand

LEMMA ChainLanded ==
    ASSUME ChainInv, TypeInv', NEW p \in Procs, Land(p)
    PROVE  ChainInv'
<1> DEFINE r == cmd[p].row
           h == row.history
           g == row'.history
<1>1. /\ pc[p] = "land" /\ row.revision = r.revision /\ g = Append(h, Event(p))
      /\ pc'[p] = "idle" /\ passed' = passed
      /\ \A q \in Procs \ {p} : cmd'[q] = cmd[q] /\ pc'[q] = pc[q]
    BY DEF Land, Unmoved, Idle, files, ChainInv, TypeInv, Shape
<1>2. RowTyped(r) /\ RowTyped(row) /\ Begins(r.history, h) /\ BodySound(r, cmd[p].body, passed)
    BY <1>1 DEF ChainInv, TypeInv
<1>3. /\ h \in Seq({h[i] : i \in DOMAIN h}) /\ DOMAIN r.history = DOMAIN h
      /\ (r.history = << >> <=> h = << >>)
      /\ \A i \in DOMAIN h : r.history[i] = h[i]
    <2>1. /\ h \in Seq({h[i] : i \in DOMAIN h}) /\ row.revision = Len(h)
          /\ DOMAIN h = 1..Len(h) /\ (h = << >> <=> Len(h) = 0)
        BY <1>2, HistoryOfRow
    <2>2. /\ r.revision = Len(r.history) /\ DOMAIN r.history = 1..Len(r.history)
          /\ (r.history = << >> <=> Len(r.history) = 0)
        <3> HIDE DEF r, h
        <3> QED
            BY <1>2, HistoryOfRow
    <2>3. \A i \in DOMAIN r.history : r.history[i] = h[i]
        BY <1>2 DEF Begins
    <2> HIDE DEF r, h, g
    <2> QED
        BY <1>1, <2>1, <2>2, <2>3
<1>4. \A i \in DOMAIN h : LinkSound(h, i, passed)
    BY DEF ChainInv
<1>5. (\A i \in DOMAIN g : LinkSound(g, i, passed)) /\ Begins(h, g)
    <2> DEFINE e == Event(p)
               b == cmd[p].body
    <2>1. e.body = b /\ e.prev = r.post /\ e.repl = b.new
        BY DEF Event
    <2> HIDE DEF e, b, r, h, g
    <2> QED
        BY <1>1, <1>2, <1>3, <1>4, <2>1, LinkAppended DEF e, b
<1>6. ASSUME NEW q \in Procs, pc'[q] # "idle"
      PROVE  /\ Begins(cmd'[q].row.history, g)
             /\ pc'[q] \in {"write", "land"} => BodySound(cmd'[q].row, cmd'[q].body, passed')
    <2>1. q # p /\ cmd'[q] = cmd[q] /\ pc'[q] = pc[q]
        BY <1>1, <1>6
    <2>2. Begins(cmd[q].row.history, h)
        BY <1>6, <2>1 DEF ChainInv
    <2>3. Begins(cmd[q].row.history, g)
        BY <1>5, <2>2 DEF Begins
    <2> QED
        BY <1>1, <2>1, <2>3 DEF ChainInv
<1> QED
    BY <1>1, <1>5, <1>6 DEF ChainInv

LEMMA ChainStep == ChainInv /\ [Next]_vars => ChainInv'
<1> SUFFICES ASSUME ChainInv, [Next]_vars PROVE ChainInv'
    OBVIOUS
<1>0. TypeInv' /\ Shape
    BY TypeStep DEF ChainInv, TypeInv
<1>1. ASSUME NEW p \in Procs, Open(p) PROVE ChainInv'
    <2>1. /\ cmd'[p].row = row /\ pc'[p] = "check" /\ UNCHANGED <<row, passed>>
          /\ \A q \in Procs \ {p} : cmd'[q] = cmd[q] /\ pc'[q] = pc[q]
        BY <1>0, <1>1 DEF Open, NoCmd, Shape, files
    <2>2. Begins(cmd'[p].row.history, row.history)
        BY <2>1 DEF Begins
    <2> QED
        BY <1>0, <2>1, <2>2, ChainOfCommand
<1>2. ASSUME NEW p \in Procs, Check(p) PROVE ChainInv'
    BY <1>0, <1>2, ChainChecked
<1>3. ASSUME NEW p \in Procs, Write(p) PROVE ChainInv'
    <2>1. /\ cmd'[p] = cmd[p] /\ pc[p] = "write" /\ UNCHANGED <<row, passed>>
          /\ \A q \in Procs \ {p} : cmd'[q] = cmd[q] /\ pc'[q] = pc[q]
        BY <1>0, <1>3 DEF Write, Create, Shape, files
    <2>2. Begins(cmd[p].row.history, row.history) /\ BodySound(cmd[p].row, cmd[p].body, passed)
        BY <2>1 DEF ChainInv
    <2> QED
        BY <1>0, <2>1, <2>2, ChainOfCommand
<1>4. ASSUME NEW p \in Procs, Tear(p) \/ Kill(p) PROVE ChainInv'
    BY <1>0, <1>4, ChainUntouched DEF Tear, Create, Kill, Idle, Shape
<1>5. ASSUME NEW p \in Procs, Land(p) PROVE ChainInv'
    BY <1>0, <1>5, ChainLanded
<1>6. ASSUME NEW c \in Consumers, Consumer(c) PROVE ChainInv'
    BY <1>0, <1>6, ChainUntouched
       DEF Consumer, EditPlan, ReconcileConsumer, Retire, Build, Accept,
           ReviewUnfinished
<1>7. CASE FinishApply \/ ReviewFails \/ Reconcile
    <2>1. row'.history = row.history /\ UNCHANGED <<pc, cmd>>
        BY <1>0, <1>7 DEF FinishApply, ReviewFails, Reconcile, Shape
    <2> QED
        BY <1>0, <2>1, ChainUntouched
<1>8. CASE BeginApply \/ Forget \/ Surroundings \/ UNCHANGED vars
    BY <1>0, <1>8, ChainUntouched DEF BeginApply, Forget, Surroundings, vars
<1> QED
    BY <1>1, <1>2, <1>3, <1>4, <1>5, <1>6, <1>7, <1>8 DEF Next, Rebind

(* A row whose chain holds is worth what its review was made for.          *)
LEMMA SoundChainIsEquivalent ==
    ASSUME ChainInv, row.review # 0, row.history # << >>, ChainHolds(row)
    PROVE  SameTask /\ NoConsumerIsLost /\ NewOutputsPassed
<1> DEFINE h == row.history
           n == Len(h)
<1>1. h \in Seq({h[i] : i \in DOMAIN h})
    BY DEF ChainInv, TypeInv, RowTyped
<1>2. LinkSound(h, n, passed)
    <2>1. n \in DOMAIN h
        BY <1>1
    <2> QED
        BY <2>1 DEF ChainInv
<1>3. DOMAIN h = 1..n /\ h[n].body.origin = row.origin /\ h[n].repl = row.post
    BY <1>1, <1>2, ChainOrigin
<1> QED
    BY <1>2, <1>3 DEF LinkSound, OutputsPassed, SameTask, NoConsumerIsLost, NewOutputsPassed

(* While the chain of a row holds, the basis it names is worth what the    *)
(* review was made for, whatever commands overlapped, died, or were        *)
(* overtaken by a review, a reconcile or a consumer: nothing of the task   *)
(* differs, no consumer is lost, and every new output has passed a review  *)
(* (validate_rebind_basis_delta, _validate_accepted_output_advancement).   *)
THEOREM RebindKeepsTheReview == Spec => []ReboundIsEquivalent
<1>1. ClaimsInv /\ ChainInv => ReboundIsEquivalent
    BY SoundChainIsEquivalent DEF ClaimsInv, ReboundIsEquivalent
<1>2. Init => ClaimsInv
    BY ShapeInit DEF ClaimsInv, ClaimsWereReviewed
<1>3. ClaimsInv /\ [Next]_vars => ClaimsInv'
    BY ClaimsStep
<1> QED
    BY <1>1, <1>2, <1>3, ChainInitially, ChainStep, PTL DEF Spec
=============================================================================
