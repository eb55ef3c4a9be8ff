----------------------------- MODULE BasisRebind -----------------------------
(***************************************************************************)
(* The basis-rebind command (phase2_basis_rebind, and the compare and swap *)
(* of ledger_manager).                                                     *)
(*                                                                         *)
(* An applied review is worth something as long as the basis it was made   *)
(* for, as rebuilt now from row, plan and files, is the one the row names. *)
(* A basis also lists the tasks that use this one, so planning or finishing*)
(* a consumer takes the authority of a review away although nothing about  *)
(* the task has changed.  A rebind moves the row's post basis on to the    *)
(* current one without a new review.  It reads a copy of the ledger,       *)
(* checks files, writes an immutable receipt, and then compares and swaps; *)
(* commands overlap at every one of these steps and can be killed there.   *)
(***************************************************************************)
EXTENDS Naturals, Sequences, FiniteSets

CONSTANTS
    Procs,         \* rebind commands that can run at the same time
    Consumers,     \* tasks that may come to use this one
    Outputs,       \* contents of a consumer's official output
    Importing,     \* the outputs that import this task's module
    Contents,      \* contents of this task's official output
    DepLists,      \* hard dependency lists of this task
    Cores,         \* all else a basis hashes: sources, toolchain, upstream outputs
    None,          \* "no such value"
    Torn,          \* bytes of a receipt whose writer was killed
    MaxVersions,   \* bound on receipt files
    MaxEvents      \* bound on what other commands and people do

ASSUME ConstantsAssumption ==
    /\ Importing \subseteq Outputs
    /\ None \notin Outputs \cup Contents
    /\ MaxVersions \in Nat /\ MaxEvents \in Nat

VARIABLES
    row,       \* this task's ledger row
    crow,      \* the consumers' ledger rows
    plan,      \* relation of each consumer to this task in the Phase 1 plans
    planDeps,  \* this task's dependencies in its plan
    out,       \* official output files of the consumers
    official,  \* this task's official output file
    core,
    standing,  \* consumer outputs whose applied review files are there and clean
    passed,    \* history: consumer outputs some applied review has passed
    applying,  \* what a running review-apply of this task has validated
    receipts,  \* receipt files, by version
    pc, cmd,   \* the running rebind commands
    events     \* what MaxEvents bounds

files == <<plan, planDeps, out, official, core, standing, passed>>
vars == <<row, crow, files, applying, receipts, pc, cmd, events>>

-----------------------------------------------------------------------------
(* The semantic review basis *)

Planned == {c \in Consumers : plan[c] # "none"}
Key(c) == <<c, plan[c]>>
Keys == Consumers \X {"hard", "soft"}

\* The evidence about a consumer is its output: file name, existence, hash and
\* imports all follow from the content.
Evidence == [k \in {Key(c) : c \in Planned} |-> out[k[1]]]

\* The basis as build_semantic_review_basis would make it for the row r now.
\* retired is the vocabulary of old prompt versions, which only an old basis has.
BasisOf(r) ==
    [own |-> r.status, deps |-> r.deps, core |-> core, subject |-> official,
     down |-> Evidence, retired |-> FALSE]

Bases ==
    [own : {"COMPLETED", "DISCOVERED"}, deps : DepLists, core : Cores, subject : Contents,
     down : UNION {[S -> Outputs \cup {None}] : S \in SUBSET Keys}, retired : BOOLEAN]

ASSUME NoneIsNoBasis == None \notin Bases

Normal(b) == [b EXCEPT !.retired = FALSE]

\* All that a rebind may not change.
Fixed(b) == <<b.own, b.deps, b.core, b.subject>>

\* What makes the row's review count: a batch run compares the basis it finds
\* with the row's post basis.
Clean == row.status = "COMPLETED" /\ row.p2 = "pass" /\ row.post = BasisOf(row)

-----------------------------------------------------------------------------
(* The chain of rebinds in a row *)

Tip(r) == receipts[r.history[Len(r.history)].receipt]

\* The previous link of link i: none for the first one.
LinkTo(r, i) ==
    IF i = 1 THEN None
    ELSE [receipt |-> r.history[i - 1].receipt, origin |-> r.origin]

LinkHolds(r, i) ==
    LET e == r.history[i]
    IN  /\ e.prev = IF i = 1 THEN r.origin ELSE r.history[i - 1].repl
        /\ e.repl # e.prev
        /\ e.receipt \in DOMAIN receipts /\ receipts[e.receipt] = e.body
        /\ e.body.old = e.prev /\ e.body.new = e.repl
        /\ i > 1 => e.body.link = LinkTo(r, i)

ChainHolds(r) ==
    IF r.history = << >> THEN r.post = r.origin
    ELSE /\ \A i \in DOMAIN r.history : LinkHolds(r, i)
         /\ r.history[Len(r.history)].repl = r.post

\* The basis the delta is measured from: the reviewed one with the consumers
\* of the tip.
BasisAtTip(r) ==
    IF r.history = << >> THEN r.origin
    ELSE [Normal(r.origin) EXCEPT !.down = Tip(r).new.down]

PendingAtTip(r) == IF r.history = << >> THEN {} ELSE Tip(r).pending

-----------------------------------------------------------------------------
(* The delta a rebind accepts *)

Added(old, new) == DOMAIN new.down \ DOMAIN old.down
Advanced(old, new) == {k \in DOMAIN old.down \cap DOMAIN new.down : new.down[k] # old.down[k]}

\* mutant: a consumer that is no longer planned may fall out of the basis
ConsumersMayGo(old, new, pending) ==
    /\ Fixed(old) = Fixed(new)
    /\ \A k \in DOMAIN old.down \cap DOMAIN new.down :
          new.down[k] # old.down[k] => new.down[k] # None /\ (old.down[k] # None \/ k[1] \in pending)

OnlyDownstream(old, new, pending) ==
    /\ Fixed(old) = Fixed(new)
    /\ DOMAIN old.down \subseteq DOMAIN new.down
    /\ \A k \in Advanced(old, new) :
          new.down[k] # None /\ (old.down[k] # None \/ k[1] \in pending)
    /\ Added(old, new) \cup Advanced(old, new) # {}

\* A consumer that may be listed at all: hard dependency in plan and row.
Lawful(m, k) ==
    /\ k[2] = "hard" /\ plan[k[1]] = "hard"
    /\ m[k[1]].dep /\ m[k[1]].status # "ORPHANED"

Complete(m, c) == m[c].status = "COMPLETED" /\ m[c].p2 = "pass"

\* A completed consumer is listed with the output its review was applied to.
AcceptedOutput(m, c) == out[c] \in Importing /\ m[c].subject = out[c]

ReviewStands(m, c) == <<c, m[c].subject>> \in standing

Additions(m, old, new) ==
    \A k \in Added(old, new) : Lawful(m, k) /\ (Complete(m, k[1]) => AcceptedOutput(m, k[1]))

Advancements(m, old, new) ==
    \A k \in Advanced(old, new) :
        Lawful(m, k) /\ Complete(m, k[1]) /\ AcceptedOutput(m, k[1]) /\ ReviewStands(m, k[1])

\* Consumers the tip lists as pending are completed together or not at all.
PendingComplete(pending, old, new) ==
    pending # {} => {k[1] : k \in Advanced(old, new)} = pending

-----------------------------------------------------------------------------
(* The command *)

NoCmd == [row |-> None, crow |-> None, body |-> None, version |-> 0]

\* The ledger manager's copy is taken when the command starts.
Open(p) ==
    /\ pc[p] = "idle"
    /\ pc' = [pc EXCEPT ![p] = "check"]
    /\ cmd' = [cmd EXCEPT ![p] = [NoCmd EXCEPT !.row = row, !.crow = crow]]
    /\ UNCHANGED <<row, crow, files, applying, receipts, events>>

\* _next_receipt_path: gaps are never filled, torn files count.
NextVersion ==
    CHOOSE v \in 1..MaxVersions + 1 :
        /\ v \notin DOMAIN receipts
        /\ \A w \in DOMAIN receipts : w < v
        /\ v = 1 \/ v - 1 \in DOMAIN receipts

\* What the receipt says; claims are the consumers listed as accepted.
Receipt(r, m, old, new) ==
    [old |-> r.post, new |-> new, origin |-> r.origin, subject |-> r.subject,
     review |-> r.review,
     pending |-> {k[1] : k \in {a \in Added(old, new) : ~Complete(m, a[1])}},
     claims |-> {<<k[1], out[k[1]]>> :
                    k \in Advanced(old, new) \cup {a \in Added(old, new) : Complete(m, a[1])}},
     link |-> IF r.history = << >> THEN None
              ELSE [receipt |-> r.history[Len(r.history)].receipt, origin |-> r.origin]]

\* Every refusal leaves things as Kill does.
Check(p) ==
    /\ pc[p] = "check"
    /\ LET r == cmd[p].row
           m == cmd[p].crow
           old == BasisAtTip(r)
           new == BasisOf(r)
       IN  /\ r.review # 0 /\ r.post # new
           /\ ChainHolds(r)
           /\ r.history # << >> => old = r.post
           /\ official = r.subject /\ planDeps = r.deps
           /\ OnlyDownstream(Normal(old), new, PendingAtTip(r))
           /\ Additions(m, old, new) /\ Advancements(m, old, new)
           /\ PendingComplete(PendingAtTip(r), old, new)
           /\ cmd' = [cmd EXCEPT ![p].body = Receipt(r, m, old, new), ![p].version = NextVersion]
    /\ pc' = [pc EXCEPT ![p] = "write"]
    /\ UNCHANGED <<row, crow, files, applying, receipts, events>>

\* mutant: the receipt file is written whether it exists or not
WriteOver(p) ==
    /\ pc[p] = "write" /\ cmd[p].version <= MaxVersions
    /\ receipts' = [v \in DOMAIN receipts \cup {cmd[p].version} |->
                       IF v = cmd[p].version THEN cmd[p].body ELSE receipts[v]]
    /\ pc' = [pc EXCEPT ![p] = "land"]
    /\ UNCHANGED <<row, crow, files, applying, cmd, events>>

Create(p, bytes) ==
    /\ pc[p] = "write" /\ cmd[p].version <= MaxVersions
    /\ cmd[p].version \notin DOMAIN receipts
    /\ receipts' = [v \in DOMAIN receipts \cup {cmd[p].version} |->
                       IF v = cmd[p].version THEN bytes ELSE receipts[v]]

\* O_EXCL: of two commands with one version the second fails.
Write(p) ==
    /\ Create(p, cmd[p].body)
    /\ pc' = [pc EXCEPT ![p] = "land"]
    /\ UNCHANGED <<row, crow, files, applying, cmd, events>>

Idle(p) == pc' = [pc EXCEPT ![p] = "idle"] /\ cmd' = [cmd EXCEPT ![p] = NoCmd]

Tear(p) ==
    /\ Create(p, Torn)
    /\ Idle(p)
    /\ UNCHANGED <<row, crow, files, applying, events>>

TipOf(r) == IF r.history = << >> THEN None ELSE r.history[Len(r.history)]

\* The fields the transaction compares with what the command read.
Unmoved(r) ==
    /\ row.status = "COMPLETED" /\ row.p2 = "pass"
    /\ row.subject = r.subject /\ row.review = r.review
    /\ row.origin = r.origin /\ row.post = r.post /\ row.deps = r.deps
    /\ row.revision = r.revision /\ TipOf(row) = TipOf(r)

Event(p) ==
    [receipt |-> cmd[p].version, body |-> cmd[p].body,
     prev |-> cmd[p].row.post, repl |-> cmd[p].body.new]

\* mutant: the revision of the chain stays where it was
LandSameRevision(p) ==
    /\ pc[p] = "land" /\ Unmoved(cmd[p].row)
    /\ row' = [row EXCEPT !.post = cmd[p].body.new, !.history = Append(@, Event(p))]
    /\ Idle(p)
    /\ applying' = None
    /\ UNCHANGED <<crow, files, receipts, events>>

Land(p) ==
    /\ pc[p] = "land" /\ Unmoved(cmd[p].row)
    /\ row' = [row EXCEPT !.post = cmd[p].body.new, !.revision = @ + 1,
                          !.history = Append(@, Event(p))]
    /\ Idle(p)
    /\ applying' = None
    /\ UNCHANGED <<crow, files, receipts, events>>

\* A kill, a refused check, a receipt that exists, a failed comparison: what
\* is on disk stays.
Kill(p) ==
    /\ pc[p] # "idle"
    /\ Idle(p)
    /\ UNCHANGED <<row, crow, files, applying, receipts, events>>

-----------------------------------------------------------------------------
(* The other commands on this task *)

Happens == events < MaxEvents /\ events' = events + 1

\* review-apply of an official-output review that passed: it is still fresh ...
BeginApply ==
    /\ Happens /\ applying = None
    /\ applying' = BasisOf(row)
    /\ UNCHANGED <<row, crow, files, receipts, pc, cmd>>

\* ... and the final update, which a write of any other command would refuse,
\* but not a change of files.  It computes the post basis anew, and it leaves
\* the history of rebinds alone.
FinishApply ==
    /\ applying # None
    /\ row' = [row EXCEPT !.status = "COMPLETED", !.p2 = "pass", !.subject = applying.subject,
                          !.review = @ + 1, !.origin = applying,
                          !.post = BasisOf([row EXCEPT !.status = "COMPLETED"])]
    /\ applying' = None
    /\ UNCHANGED <<crow, files, receipts, pc, cmd, events>>

\* A later review of the same output fails.
ReviewFails ==
    /\ Happens /\ row.p2 = "pass"
    /\ row' = [row EXCEPT !.p2 = "fail"]
    /\ applying' = None
    /\ UNCHANGED <<crow, files, receipts, pc, cmd>>

\* dependency-reconcile takes the review from the row, but not the history.
Reconcile ==
    /\ Happens /\ row.deps # planDeps
    /\ row' = [row EXCEPT !.status = "DISCOVERED", !.p2 = "", !.deps = planDeps,
                          !.subject = None, !.review = 0, !.origin = None, !.post = None]
    /\ applying' = None
    /\ UNCHANGED <<crow, files, receipts, pc, cmd>>

-----------------------------------------------------------------------------
(* What happens to files and consumers *)

EditPlan(c) ==
    /\ Happens
    /\ \E relation \in {"none", "hard", "soft"} \ {plan[c]} : plan' = [plan EXCEPT ![c] = relation]
    /\ UNCHANGED <<row, crow, planDeps, out, official, core, standing, passed,
                   applying, receipts, pc, cmd>>

\* The consumer's row follows its plan; its review is gone.
ReconcileConsumer(c) ==
    /\ Happens /\ crow[c].dep # (plan[c] = "hard")
    /\ crow' = [crow EXCEPT ![c] = [status |-> "DISCOVERED", p2 |-> "", subject |-> None,
                                    dep |-> plan[c] = "hard"]]
    /\ applying' = None
    /\ UNCHANGED <<row, files, receipts, pc, cmd>>

Retire(c) ==
    /\ Happens /\ crow[c].status # "ORPHANED"
    /\ crow' = [crow EXCEPT ![c].status = "ORPHANED"]
    /\ applying' = None
    /\ UNCHANGED <<row, files, receipts, pc, cmd>>

Build(c) ==
    /\ Happens
    /\ \E o \in Outputs \ {out[c]} : out' = [out EXCEPT ![c] = o]
    /\ UNCHANGED <<row, crow, plan, planDeps, official, core, standing, passed,
                   applying, receipts, pc, cmd>>

\* The review of the consumer's output is applied.
Accept(c) ==
    /\ Happens /\ out[c] # None /\ crow[c].status # "ORPHANED"
    /\ crow[c].subject # out[c] \/ ~Complete(crow, c)
    /\ crow' = [crow EXCEPT ![c].status = "COMPLETED", ![c].p2 = "pass", ![c].subject = out[c]]
    /\ standing' = standing \cup {<<c, out[c]>>}
    /\ passed' = passed \cup {<<c, out[c]>>}
    /\ applying' = None
    /\ UNCHANGED <<row, plan, planDeps, out, official, core, receipts, pc, cmd>>

\* A review of the consumer that leaves no receipt in its row: a review that
\* was applied before fails now, or the command dies between register_success
\* and the update that names verdict and subject.
ReviewUnfinished(c) ==
    /\ Happens /\ out[c] # None /\ crow[c].status # "ORPHANED"
    /\ \/ crow[c].p2 = "pass" /\ crow' = [crow EXCEPT ![c].p2 = "fail"]
       \/ crow[c].status # "COMPLETED" /\ crow' = [crow EXCEPT ![c].status = "COMPLETED"]
    /\ applying' = None
    /\ UNCHANGED <<row, files, receipts, pc, cmd>>

\* Review files are lost or changed, or the review contract moves on.
Forget ==
    /\ Happens
    /\ \E x \in standing : standing' = standing \ {x}
    /\ UNCHANGED <<row, crow, plan, planDeps, out, official, core, passed,
                   applying, receipts, pc, cmd>>

\* The task's own output, plan entry or surroundings change.
Surroundings ==
    /\ Happens
    /\ \/ official' \in Contents \ {official} /\ UNCHANGED <<planDeps, core>>
       \/ planDeps' \in DepLists \ {planDeps} /\ UNCHANGED <<official, core>>
       \/ core' \in Cores \ {core} /\ UNCHANGED <<official, planDeps>>
    /\ UNCHANGED <<row, crow, plan, out, standing, passed, applying, receipts, pc, cmd>>

-----------------------------------------------------------------------------
\* A task with an applied review of its output, made by this engine or by one
\* that still had the retired vocabulary and knew no consumers.  Some consumers
\* are finished, and some were planned after the review.
Init ==
    /\ plan \in [Consumers -> {"none", "hard"}] /\ planDeps \in DepLists
    /\ out \in [Consumers -> Importing \cup {None}]
    /\ \A c \in Consumers : out[c] # None => plan[c] = "hard"
    /\ crow = [c \in Consumers |->
                  [status |-> IF out[c] = None THEN "DISCOVERED" ELSE "COMPLETED",
                   p2 |-> IF out[c] = None THEN "" ELSE "pass", subject |-> out[c], dep |-> plan[c] = "hard"]]
    /\ official \in Contents /\ core \in Cores
    /\ passed = {<<c, out[c]>> : c \in {x \in Consumers : out[x] # None}}
    /\ standing = passed
    /\ \E seen \in SUBSET DOMAIN Evidence : \E old \in {FALSE, seen = {}} :
          LET b == [own |-> "COMPLETED", deps |-> planDeps, core |-> core, subject |-> official,
                    down |-> [k \in seen |-> Evidence[k]], retired |-> old]
          IN  row = [status |-> "COMPLETED", p2 |-> "pass", deps |-> planDeps,
                     subject |-> official, review |-> 1, origin |-> b, post |-> b,
                     revision |-> 0, history |-> << >>]
    /\ applying = None
    /\ receipts = [v \in {} |-> Torn]
    /\ pc = [p \in Procs |-> "idle"] /\ cmd = [p \in Procs |-> NoCmd]
    /\ events = 0

Rebind(p) == Open(p) \/ Check(p) \/ Write(p) \/ Tear(p) \/ Land(p) \/ Kill(p)

Consumer(c) ==
    \/ EditPlan(c) \/ ReconcileConsumer(c) \/ Retire(c) \/ Build(c)
    \/ Accept(c) \/ ReviewUnfinished(c)

Next ==
    \/ \E p \in Procs : Rebind(p)
    \/ \E c \in Consumers : Consumer(c)
    \/ BeginApply \/ FinishApply \/ ReviewFails \/ Reconcile \/ Forget \/ Surroundings

Spec == Init /\ [][Next]_vars

-----------------------------------------------------------------------------
(* Properties *)

Versions == 1..MaxVersions

\* Every variable has the shape the code gives it, and the revision of the
\* chain is its length.
TypeOK ==
    /\ row.revision = Len(row.history)
    /\ row.status \in {"COMPLETED", "DISCOVERED"} /\ row.p2 \in {"pass", "fail", ""}
    /\ row.post = None <=> row.review = 0
    /\ row.origin = None <=> row.review = 0
    /\ DOMAIN receipts \subseteq Versions
    /\ \A p \in Procs : pc[p] \in {"idle", "check", "write", "land"}
    /\ passed \subseteq Consumers \X Outputs /\ standing \subseteq passed

\* Every link of a chain has its receipt, whole and as it was when the link was
\* made, and no receipt stands for two links: whatever commands overlap or die
\* between writing a receipt and swapping the row
\* (_materialize_receipt_before_cas).
HistoryIsReceipted ==
    \A i \in DOMAIN row.history :
        /\ row.history[i].receipt \in DOMAIN receipts
        /\ receipts[row.history[i].receipt] = row.history[i].body
        /\ \A j \in DOMAIN row.history :
              row.history[j].receipt = row.history[i].receipt => i = j

\* A receipt says of a consumer that its output is accepted only when a review
\* of that very output was applied.
ClaimsWereReviewed ==
    \A v \in DOMAIN receipts : receipts[v] # Torn => receipts[v].claims \subseteq passed

SameTask == Fixed(row.post) = Fixed(row.origin)

NoConsumerIsLost ==
    \A i \in DOMAIN row.history : DOMAIN row.history[i].prev.down \subseteq DOMAIN row.post.down

NewOutputsPassed ==
    \A k \in DOMAIN row.origin.down :
        row.post.down[k] # row.origin.down[k] => <<k[1], row.post.down[k]>> \in passed

\* While the chain of a row holds, its post basis is worth what the review was
\* made for: nothing about the task itself differs, no consumer the review or
\* any link has named is missing, a consumer's output that differs from the one
\* the reviewer saw has passed a review of its own, and no receipt claims more
\* (validate_rebind_basis_delta, _validate_accepted_output_advancement).
ReboundIsEquivalent ==
    /\ ClaimsWereReviewed
    /\ row.review # 0 /\ row.history # << >> /\ ChainHolds(row) =>
          SameTask /\ NoConsumerIsLost /\ NewOutputsPassed
=============================================================================
