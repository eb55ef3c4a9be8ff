--------------------------- MODULE ReviewLoopProofs ---------------------------
(***************************************************************************)
(* What the auto-loop of a task can rely on, for any drafts, categories    *)
(* and limits, and any number of loops, kills, edits and commands by hand, *)
(* and what the answers it applies guarantee.                              *)
(***************************************************************************)
EXTENDS ReviewLoop, FiniteSetTheorems, WellFoundedInduction, TLAPS

Places == {"idle", "top", "build", "buildCommit", "built", "apply", "applyRecord", "applyCommit",
           "applied", "fix"}

Texts == Codes \cup {Original}

Kinds == {"candidate", "official_output"}

Requests == {NoRequest} \cup [kind : Kinds, code : Texts, basis : Nat]

Repairs ==
    {NoRepair} \cup [n : Nat \ {0}, kind : Kinds, code : Texts, mustFix : MustFix \cup {None},
                     verdict : Repairable, needsDiagnoser : BOOLEAN]

Entries ==
    [stage : {"build", "semantic_review"}, code : Texts \cup {None}, ok : BOOLEAN,
     kind : {"", "build", "fail", "inconclusive", "blocked"}, repair : Nat, round : Nat, loop : Nat]

Marks == {None} \cup ((MustFix \cup {None}) \X (Kinds \cup {"none"}))

Loops ==
    [enabled : BOOLEAN, subject : {""} \cup Subjects, round : Nat,
     nonprogress : 0..NonprogressLimit, phase : Phases,
     status : {"", "active", "stopped", "completed"}, reason : Reasons,
     lastCode : Texts \cup {None}, lastMark : Marks, lastRepair : Nat]

Rows ==
    [loop : Loops, req : Requests, rep : Repairs, ready : Texts \cup {None},
     status : {"PACKED", "FAILED_LOCAL", "COMPLETED"}, triage : Routes \cup {None},
     receipt : [code : Texts \cup {None}, basis : Nat, post : Nat]]

(* A repair request in the row is the newest one.                          *)
TypeInv ==
    /\ row \in Rows /\ latest \in Repairs /\ row.rep \in {NoRepair, latest}
    /\ history \in Seq(Entries)
    /\ draft \in Texts /\ official \in Texts \cup {None} /\ code \in Texts \cup {None}
    /\ result \in Results \cup {NoResult} /\ out \in Outcomes
    /\ basis \in Nat /\ loops \in Nat /\ pc \in Places

(* The loop has a command only while the row says that it is active, until *)
(* a review that ends in an exception has reset the row; and an active     *)
(* loop has progress left.                                                 *)
CommandInv ==
    /\ pc = "idle" => cmd = "none"
    /\ pc \in {"top", "built", "applied"} => cmd = "auto"
    /\ pc = "fix" => cmd # "auto"
    /\ pc \in {"apply", "applyRecord", "applyCommit"} => row.req # NoRequest
    /\ pc = "buildCommit" => outcome \in {"built", "failed"}
    /\ pc \in {"applyRecord", "applyCommit"} /\ outcome \in Repairable => latest # NoRepair
    /\ pc = "applied" /\ outcome \in Repairable => row.rep # NoRepair
    /\ cmd = "auto" => LoopActive \/ (pc = "applied" /\ outcome = "exception" /\ row.rep = NoRepair)
    /\ LoopActive \/ cmd = "auto" => row.loop.nonprogress < NonprogressLimit
    /\ pc = "built" /\ outcome = "built" => row.ready \in {None, code}

(* The rounds of the loop under way are past those of every other loop.    *)
RoundInv ==
    /\ \A i \in DOMAIN history : history[i].loop <= loops
    /\ \E m \in Nat : \A i \in DOMAIN history : history[i].round <= m
    /\ LoopActive =>
          /\ loops # 0 /\ row.loop.round # 0
          /\ \A i \in DOMAIN history : IF history[i].loop = loops
                                       THEN history[i].round <= row.loop.round
                                       ELSE history[i].round < row.loop.round
    /\ RoundHasOneLoop

(* A review of c that was accepted is in the history.                      *)
Landed(h, c) ==
    \E i \in DOMAIN h : h[i].stage = "semantic_review" /\ h[i].ok /\ h[i].code = c

(* A receipt is for an accepted review, and a promotion under way for the  *)
(* canonical file.                                                         *)
ReceiptInv ==
    /\ row.receipt.code # None => Landed(history, row.receipt.code)
    /\ pc \in {"applyRecord", "applyCommit"} /\ outcome = "pass" =>
          official = code /\ row.status = "COMPLETED"
    /\ pc = "applyCommit" /\ outcome = "pass" => Landed(history, code)

IInv == TypeInv /\ CommandInv /\ RoundInv /\ SeededRepairIsRecorded /\ ReceiptInv

-----------------------------------------------------------------------------
(* What the helpers on the row do                                          *)

(* Two rows agree on everything but the loop.                              *)
Ledger(r, s) ==
    /\ s.req = r.req /\ s.rep = r.rep /\ s.ready = r.ready /\ s.status = r.status
    /\ s.triage = r.triage /\ s.receipt = r.receipt

(* Two loops differ in where they are only.                                *)
Progress(k, l) ==
    /\ l.subject = k.subject /\ l.round = k.round /\ l.nonprogress = k.nonprogress
    /\ l.lastCode = k.lastCode /\ l.lastMark = k.lastMark /\ l.lastRepair = k.lastRepair

LEMMA LoopOf ==
    ASSUME NEW r \in Rows, NEW l \in Loops
    PROVE  LET s == [r EXCEPT !.loop = l] IN s \in Rows /\ s.loop = l /\ Ledger(r, s)
BY DEF Rows, Ledger

LEMMA InPhaseRow ==
    ASSUME NEW r \in Rows, NEW phase \in Phases
    PROVE  LET s == InPhase(r, phase) IN
           /\ s \in Rows /\ Ledger(r, s) /\ Progress(r.loop, s.loop)
           /\ s.loop.enabled /\ s.loop.status = "active" /\ s.loop.phase = phase
<1> DEFINE l == [r.loop EXCEPT !.phase = phase, !.status = "active", !.enabled = TRUE]
<1>1. l \in Loops /\ Progress(r.loop, l)
    BY DEF Rows, Loops, Progress
<1>2. l.enabled /\ l.status = "active" /\ l.phase = phase
    BY DEF Rows, Loops
<1>3. InPhase(r, phase) = [r EXCEPT !.loop = l]
    BY DEF InPhase, Rows, Loops
<1> HIDE DEF l
<1> QED
    BY <1>1, <1>2, <1>3, LoopOf

LEMMA StoppedRow ==
    ASSUME NEW r \in Rows, NEW reason \in Reasons
    PROVE  LET s == Stopped(r, reason) IN
           s \in Rows /\ Ledger(r, s) /\ Progress(r.loop, s.loop) /\ s.loop.status = "stopped"
<1> DEFINE l == [r.loop EXCEPT !.enabled = TRUE, !.status = "stopped", !.phase = "stopped",
                               !.reason = reason]
<1>0. "stopped" \in Phases
    BY DEF Phases
<1>1. l \in Loops /\ Progress(r.loop, l)
    BY <1>0 DEF Rows, Loops, Progress
<1>2. l.status = "stopped"
    BY DEF Rows, Loops
<1>3. Stopped(r, reason) = [r EXCEPT !.loop = l]
    BY DEF Stopped, Rows, Loops
<1> HIDE DEF l
<1> QED
    BY <1>1, <1>2, <1>3, LoopOf

LEMMA CompletedRow ==
    ASSUME NEW r \in Rows
    PROVE  LET s == Completed(r) IN
           s \in Rows /\ Ledger(r, s) /\ Progress(r.loop, s.loop) /\ s.loop.status = "completed"
<1> DEFINE l == [r.loop EXCEPT !.enabled = TRUE, !.status = "completed", !.phase = "completed",
                               !.reason = "passed"]
<1>0. "completed" \in Phases /\ "passed" \in Reasons
    BY DEF Phases, Reasons
<1>1. l \in Loops /\ Progress(r.loop, l)
    BY <1>0 DEF Rows, Loops, Progress
<1>2. l.status = "completed"
    BY DEF Rows, Loops
<1>3. Completed(r) = [r EXCEPT !.loop = l]
    BY DEF Completed, Rows, Loops
<1> HIDE DEF l
<1> QED
    BY <1>1, <1>2, <1>3, LoopOf

LEMMA RequestRow ==
    ASSUME NEW r \in Rows, NEW kind \in Kinds, NEW subject \in Texts, basis \in Nat
    PROVE  LET s == Request(r, kind, subject) IN
           /\ s \in Rows /\ s.loop = r.loop /\ s.receipt = r.receipt /\ s.ready = r.ready
           /\ s.req = [kind |-> kind, code |-> subject, basis |-> basis] /\ s.req # NoRequest
           /\ s.rep = (IF kind = "candidate" THEN NoRepair ELSE r.rep) /\ s.status = r.status
<1> DEFINE q == [kind |-> kind, code |-> subject, basis |-> basis]
           p == IF kind = "candidate" THEN NoRepair ELSE r.rep
<1>1. q \in Requests /\ p \in Repairs
    BY DEF Requests, Repairs, Rows
<1>2. q # NoRequest
    <2>1. q.kind \in Kinds /\ NoRequest.kind = "none"
        BY DEF NoRequest
    <2> QED
        BY <2>1 DEF Kinds
<1>3. Request(r, kind, subject) = [r EXCEPT !.req = q, !.rep = p]
    BY DEF Request, Rows
<1> HIDE DEF q, p
<1>4. LET s == [r EXCEPT !.req = q, !.rep = p] IN
      /\ s \in Rows /\ s.loop = r.loop /\ s.receipt = r.receipt /\ s.ready = r.ready
      /\ s.req = q /\ s.rep = p /\ s.status = r.status
    BY <1>1 DEF Rows
<1> QED
    BY <1>2, <1>3, <1>4 DEF q, p

(* Writing the row forgets a build-ready candidate that is not the draft.  *)
LEMMA StoreRow ==
    ASSUME NEW r \in Rows, NEW text, StoreWith(r, text)
    PROVE  /\ row' \in Rows /\ row'.loop = r.loop /\ row'.req = r.req /\ row'.rep = r.rep
           /\ row'.status = r.status /\ row'.triage = r.triage /\ row'.receipt = r.receipt
           /\ row'.ready \in {None, r.ready}
BY DEF StoreWith, Rows

-----------------------------------------------------------------------------
(* The steps that leave the progress of the loop alone                     *)

Quiet ==
    /\ row' \in Rows /\ row'.rep \in {NoRepair, row.rep} /\ row'.receipt = row.receipt
    /\ row'.ready \in {None, row.ready} /\ row'.status = row.status
    /\ row'.loop.round = row.loop.round /\ row'.loop.nonprogress = row.loop.nonprogress

LEMMA Stores ==
    ASSUME row \in Rows, NEW text, StoreWith(row, text)
    PROVE  Quiet /\ row'.req = row.req /\ row'.loop = row.loop
BY StoreRow DEF Quiet

LEMMA Stops ==
    ASSUME row \in Rows, NEW reason \in Reasons, StopLoop(row, reason)
    PROVE  /\ Quiet /\ row'.req = row.req /\ ~LoopActive'
           /\ pc' = "idle" /\ cmd' = "none" /\ code' = None /\ outcome' = "none"
           /\ out' \in {"diagnoser_read_only", "stopped"}
<1>1. StoreWith(Stopped(row, reason), draft) /\ Return(IF reason = "diagnoser_required"
                                                       THEN "diagnoser_read_only" ELSE "stopped")
    BY DEF StopLoop, Store
<1>2. LET s == Stopped(row, reason) IN
      s \in Rows /\ Ledger(row, s) /\ Progress(row.loop, s.loop) /\ s.loop.status = "stopped"
    BY StoppedRow
<1>3. Quiet /\ row'.req = row.req /\ row'.loop.status = "stopped"
    BY <1>1, <1>2, StoreRow DEF Quiet, Ledger, Progress
<1> QED
    BY <1>1, <1>3 DEF Return, LoopActive

LEMMA Goes ==
    ASSUME row \in Rows, NEW phase \in Phases, NEW text, StoreWith(InPhase(row, phase), text)
    PROVE  Quiet /\ row'.req = row.req /\ LoopActive' /\ row'.loop.phase = phase
<1>1. LET s == InPhase(row, phase) IN
      /\ s \in Rows /\ Ledger(row, s) /\ Progress(row.loop, s.loop)
      /\ s.loop.enabled /\ s.loop.status = "active" /\ s.loop.phase = phase
    BY InPhaseRow
<1> QED
    BY <1>1, StoreRow DEF Quiet, Ledger, Progress, LoopActive

LEMMA Asks ==
    ASSUME row \in Rows, basis \in Nat, NEW kind \in Kinds, NEW subject \in Texts,
           Store(Request(InPhase(row, "review_prepared"), kind, subject))
    PROVE  /\ Quiet /\ LoopActive' /\ row'.req # NoRequest
           /\ row'.req = [kind |-> kind, code |-> subject, basis |-> basis]
           /\ row'.loop.phase = "review_prepared"
<1> DEFINE s == InPhase(row, "review_prepared")
           q == Request(s, kind, subject)
<1>1. "review_prepared" \in Phases
    BY DEF Phases
<1>2. /\ s \in Rows /\ Ledger(row, s) /\ Progress(row.loop, s.loop)
      /\ s.loop.enabled /\ s.loop.status = "active" /\ s.loop.phase = "review_prepared"
    BY <1>1, InPhaseRow
<1>3. StoreWith(q, draft)
    BY DEF Store
<1> HIDE DEF s
<1>4. /\ q \in Rows /\ q.loop = s.loop /\ q.receipt = s.receipt /\ q.ready = s.ready
      /\ q.req = [kind |-> kind, code |-> subject, basis |-> basis] /\ q.req # NoRequest
      /\ q.rep = (IF kind = "candidate" THEN NoRepair ELSE s.rep) /\ q.status = s.status
    BY <1>2, RequestRow
<1> HIDE DEF q
<1>5. /\ row' \in Rows /\ row'.loop = q.loop /\ row'.req = q.req /\ row'.rep = q.rep
      /\ row'.status = q.status /\ row'.receipt = q.receipt /\ row'.ready \in {None, q.ready}
    BY <1>3, <1>4, StoreRow
<1> QED
    BY <1>2, <1>4, <1>5 DEF Quiet, Ledger, Progress, LoopActive

LEMMA Drops ==
    ASSUME row \in Rows, Store(InPhase([row EXCEPT !.req = NoRequest], "entry"))
    PROVE  Quiet /\ LoopActive' /\ row'.loop.phase = "entry"
<1> DEFINE s == [row EXCEPT !.req = NoRequest]
<1>1. /\ s \in Rows /\ s.rep = row.rep /\ s.ready = row.ready /\ s.status = row.status
      /\ s.receipt = row.receipt /\ s.loop = row.loop
    BY DEF Rows, Requests
<1>2. StoreWith(InPhase(s, "entry"), draft) /\ "entry" \in Phases
    BY DEF Store, Phases
<1> HIDE DEF s
<1>3. LET q == InPhase(s, "entry") IN
      /\ q \in Rows /\ Ledger(s, q) /\ Progress(s.loop, q.loop)
      /\ q.loop.enabled /\ q.loop.status = "active" /\ q.loop.phase = "entry"
    BY <1>1, <1>2, InPhaseRow
<1> QED
    BY <1>1, <1>2, <1>3, StoreRow DEF Quiet, Ledger, Progress, LoopActive

LEMMA Seeds ==
    ASSUME row \in Rows, NEW text,
           StoreWith(InPhase([row EXCEPT !.loop.lastRepair = row.rep.n], "repair_seeded"), text)
    PROVE  Quiet /\ row'.req = row.req /\ LoopActive' /\ row'.loop.phase = "repair_seeded"
<1> DEFINE l == [row.loop EXCEPT !.lastRepair = row.rep.n]
           s == [row EXCEPT !.loop = l]
<1>1. row.rep.n \in Nat
    BY DEF Rows, Repairs, NoRepair
<1>2. l \in Loops /\ l.round = row.loop.round /\ l.nonprogress = row.loop.nonprogress
    BY <1>1 DEF Rows, Loops
<1>3. s = [row EXCEPT !.loop.lastRepair = row.rep.n]
    BY DEF Rows
<1> HIDE DEF l
<1>4. s \in Rows /\ s.loop = l /\ Ledger(row, s)
    BY <1>2, LoopOf
<1>5. StoreWith(InPhase(s, "repair_seeded"), text) /\ "repair_seeded" \in Phases
    BY <1>3 DEF Phases
<1> HIDE DEF s
<1>6. LET q == InPhase(s, "repair_seeded") IN
      /\ q \in Rows /\ Ledger(s, q) /\ Progress(s.loop, q.loop)
      /\ q.loop.enabled /\ q.loop.status = "active" /\ q.loop.phase = "repair_seeded"
    BY <1>4, <1>5, InPhaseRow
<1> QED
    BY <1>2, <1>4, <1>5, <1>6, StoreRow DEF Quiet, Ledger, Progress, LoopActive

-----------------------------------------------------------------------------
(* What the invariants need of a step that leaves the loop in its round    *)

Fits(e) == \/ e.loop = 0 /\ e.round = 0
           \/ LoopActive /\ e.loop = loops /\ e.round = row.loop.round

Grows == history' = history \/ \E e \in Entries : Fits(e) /\ history' = Append(history, e)

Calm == /\ LoopActive' => LoopActive /\ row.loop.round <= row'.loop.round
        /\ row'.receipt = row.receipt /\ loops' = loops

Kept == TypeInv' /\ CommandInv'

LEMMA GrowsTyped ==
    ASSUME history \in Seq(Entries), Grows
    PROVE  history' \in Seq(Entries)
BY DEF Grows

LEMMA AttemptTyped ==
    ASSUME TypeInv, NEW stage \in {"build", "semantic_review"}, NEW content \in Texts \cup {None},
           NEW ok \in BOOLEAN, NEW kind \in {"", "build", "fail", "inconclusive", "blocked"},
           NEW repair \in Nat, history' = Append(history, Attempt(stage, content, ok, kind, repair))
    PROVE  Grows
<1> DEFINE e == Attempt(stage, content, ok, kind, repair)
<1>1. row.loop.round \in Nat /\ loops \in Nat
    BY DEF TypeInv, Rows, Loops
<1>2. e \in Entries
    BY <1>1 DEF Attempt, Entries
<1>3. Fits(e) /\ history' = Append(history, e)
    BY DEF Fits, Attempt
<1> HIDE DEF e
<1> QED
    BY <1>2, <1>3 DEF Grows

LEMMA BackfillTyped ==
    ASSUME NEW r \in Repairs, BackfillHistory(r)
    PROVE  Grows
<1> DEFINE e == [stage |-> "semantic_review", code |-> r.code, ok |-> FALSE,
                 kind |-> IF r.verdict = "fail" THEN "fail" ELSE "inconclusive",
                 repair |-> r.n, round |-> 0, loop |-> 0]
<1>1. r.code \in Texts \cup {None} /\ r.n \in Nat
    BY DEF Repairs, NoRepair
<1>2. e \in Entries /\ Fits(e)
    BY <1>1 DEF Entries, Fits
<1>3. history' = history \/ history' = Append(history, e)
    BY DEF BackfillHistory
<1> HIDE DEF e
<1>4. CASE history' = history
    BY <1>4 DEF Grows
<1>5. CASE history' = Append(history, e)
    BY <1>2, <1>5 DEF Grows
<1> QED
    BY <1>3, <1>4, <1>5

LEMMA OutcomesKnown ==
    {"author_repair", "reviewer_write_result", "diagnoser_read_only", "completed", "stopped",
     "error"} \subseteq Outcomes
BY DEF Outcomes

LEMMA PhasesKnown ==
    {"entry", "applying", "reviewing", "repair_seeded", "review_prepared", "build_checking",
     "authoring"} \subseteq Phases
BY DEF Phases

LEMMA ReasonsKnown ==
    {"max_rounds", "freshness_error", "hard_failure", "nonprogress", "build_budget_exhausted",
     "diagnoser_required"} \subseteq Reasons
BY DEF Reasons

LEMMA RoundTyped ==
    ASSUME row \in Rows
    PROVE  row.loop.round \in Nat /\ row.loop \in Loops
BY DEF Rows, Loops

LEMMA Stopping ==
    ASSUME TypeInv, CommandInv, NEW reason \in Reasons, StopLoop(row, reason),
           UNCHANGED <<history, latest, draft, world>>, result' \in Results \cup {NoResult}
    PROVE  Kept /\ Calm
<1>1. row \in Rows
    BY DEF TypeInv
<1>2. /\ Quiet /\ ~LoopActive'
      /\ pc' = "idle" /\ cmd' = "none" /\ code' = None /\ outcome' = "none"
      /\ out' \in {"diagnoser_read_only", "stopped"}
    BY <1>1, Stops
<1>3. TypeInv'
    BY <1>2, OutcomesKnown DEF TypeInv, Quiet, world, Places
<1>4. CommandInv'
    BY <1>2 DEF CommandInv
<1>5. Calm
    BY <1>2, RoundTyped DEF Calm, Quiet, TypeInv, world
<1> QED
    BY <1>3, <1>4, <1>5 DEF Kept

LEMMA GoingOn ==
    ASSUME TypeInv, CommandInv, LoopActive, cmd = "auto", NEW phase \in Phases,
           Store(InPhase(row, phase)), pc' \in {"top", "apply", "build"},
           pc' = "apply" => row.req # NoRequest,
           UNCHANGED <<history, latest, draft, result, command, out, world>>
    PROVE  Kept /\ Calm
<1>1. row \in Rows /\ StoreWith(InPhase(row, phase), draft)
    BY DEF TypeInv, Store
<1>2. Quiet /\ row'.req = row.req /\ LoopActive'
    BY <1>1, Goes
<1>3. TypeInv'
    BY <1>2 DEF TypeInv, Quiet, world, command, Places
<1>4. CommandInv'
    BY <1>2 DEF CommandInv, command, Quiet
<1>5. Calm
    BY <1>2, RoundTyped DEF Calm, Quiet, TypeInv, world
<1> QED
    BY <1>3, <1>4, <1>5 DEF Kept

LEMMA Waiting ==
    ASSUME TypeInv, CommandInv, LoopActive, NEW phase \in Phases, NEW next \in Outcomes,
           Store(InPhase(row, phase)), Return(next),
           UNCHANGED <<history, latest, draft, result, world>>
    PROVE  Kept /\ Calm
<1>1. row \in Rows /\ StoreWith(InPhase(row, phase), draft)
    BY DEF TypeInv, Store
<1>2. Quiet /\ row'.req = row.req /\ LoopActive'
    BY <1>1, Goes
<1>3. TypeInv'
    BY <1>2 DEF TypeInv, Quiet, world, Return, Places
<1>4. CommandInv'
    BY <1>2 DEF CommandInv, Return, Quiet
<1>5. Calm
    BY <1>2, RoundTyped DEF Calm, Quiet, TypeInv, world
<1> QED
    BY <1>3, <1>4, <1>5 DEF Kept

LEMMA Asking ==
    ASSUME TypeInv, CommandInv, LoopActive, cmd = "auto", NEW kind \in Kinds, NEW subject \in Texts,
           Store(Request(InPhase(row, "review_prepared"), kind, subject)),
           result' = NoResult, pc' = "top", cmd' = cmd, out' = out,
           code' \in Texts \cup {None},
           UNCHANGED <<history, latest, draft, world>>
    PROVE  Kept /\ Calm
<1>1. row \in Rows /\ basis \in Nat
    BY DEF TypeInv
<1>2. Quiet /\ LoopActive'
    BY <1>1, Asks
<1>3. TypeInv'
    BY <1>2 DEF TypeInv, Quiet, world, Places
<1>4. CommandInv'
    BY <1>2 DEF CommandInv, Quiet
<1>5. Calm
    BY <1>2, RoundTyped DEF Calm, Quiet, TypeInv, world
<1> QED
    BY <1>3, <1>4, <1>5 DEF Kept

-----------------------------------------------------------------------------
(* The steps of the loop between a build and a review                      *)

LEMMA AtTop ==
    ASSUME CommandInv, pc \in {"top", "built"}
    PROVE  cmd = "auto" /\ LoopActive
BY DEF CommandInv

LEMMA StopMaxRoundsStep ==
    ASSUME TypeInv, CommandInv, StopMaxRounds
    PROVE  Kept /\ Calm /\ Grows
<1>1. StopLoop(row, "max_rounds") /\ UNCHANGED <<history, latest, draft, result, world>>
    BY DEF StopMaxRounds
<1>2. "max_rounds" \in Reasons /\ result' \in Results \cup {NoResult} /\ Grows
    BY <1>1, ReasonsKnown DEF TypeInv, Grows
<1> QED
    BY <1>1, <1>2, Stopping

LEMMA BeginApplyStep ==
    ASSUME TypeInv, CommandInv, BeginApply
    PROVE  Kept /\ Calm /\ Grows
<1>1. /\ pc = "top" /\ row.req # NoRequest /\ Store(InPhase(row, "applying")) /\ pc' = "apply"
      /\ UNCHANGED <<history, latest, draft, result, command, out, world>>
    BY DEF BeginApply
<1>2. "applying" \in Phases /\ cmd = "auto" /\ LoopActive /\ Grows
    BY <1>1, AtTop, PhasesKnown DEF Grows
<1> QED
    BY <1>1, <1>2, GoingOn

LEMMA DropStaleRequestStep ==
    ASSUME TypeInv, CommandInv, DropStaleRequest
    PROVE  Kept /\ Calm /\ Grows
<1>1. /\ pc = "top" /\ Store(InPhase([row EXCEPT !.req = NoRequest], "entry")) /\ pc' = "top"
      /\ UNCHANGED <<history, latest, draft, result, command, out, world>>
    BY DEF DropStaleRequest, AwaitingReview
<1>2. Quiet /\ LoopActive'
    BY <1>1, Drops DEF TypeInv
<1>3. cmd = "auto" /\ LoopActive /\ Grows
    BY <1>1, AtTop DEF Grows
<1>4. TypeInv'
    BY <1>1, <1>2 DEF TypeInv, Quiet, world, command, Places
<1>5. CommandInv'
    BY <1>1, <1>2, <1>3 DEF CommandInv, command, Quiet
<1>6. Calm
    BY <1>1, <1>2, <1>3, RoundTyped DEF Calm, Quiet, TypeInv, world
<1> QED
    BY <1>3, <1>4, <1>5, <1>6 DEF Kept

LEMMA HandToReviewerStep ==
    ASSUME TypeInv, CommandInv, HandToReviewer
    PROVE  Kept /\ Calm /\ Grows
<1>1. /\ pc = "top" /\ Store(InPhase(row, "reviewing")) /\ Return("reviewer_write_result")
      /\ UNCHANGED <<history, latest, draft, result, world>>
    BY DEF HandToReviewer, AwaitingReview
<1>2. /\ "reviewing" \in Phases /\ "reviewer_write_result" \in Outcomes
      /\ LoopActive /\ Grows
    BY <1>1, AtTop, PhasesKnown, OutcomesKnown DEF Grows
<1> QED
    BY <1>1, <1>2, Waiting

LEMMA SeedRepairStep ==
    ASSUME TypeInv, CommandInv, SeedRepair
    PROVE  Kept /\ Calm /\ Grows
<1>1. /\ pc = "top" /\ row.rep.n # 0 /\ pc' = "top" /\ BackfillHistory(row.rep)
      /\ StoreWith(InPhase([row EXCEPT !.loop.lastRepair = row.rep.n], "repair_seeded"),
                   row.rep.code)
      /\ draft' = row.rep.code
      /\ UNCHANGED <<latest, result, command, out, world>>
    BY DEF SeedRepair, NothingUnderReview, Seed
<1>2. Quiet /\ row'.req = row.req /\ LoopActive'
    BY <1>1, Seeds DEF TypeInv
<1>3. cmd = "auto" /\ LoopActive
    BY <1>1, AtTop
<1>4. row.rep \in Repairs
    BY DEF TypeInv, Rows
<1>5. Grows /\ history' \in Seq(Entries)
    BY <1>1, <1>4, BackfillTyped, GrowsTyped DEF TypeInv
<1>6. row.rep.code \in Texts
    BY <1>1, <1>4 DEF Repairs, NoRepair
<1>7. TypeInv'
    BY <1>1, <1>2, <1>5, <1>6 DEF TypeInv, Quiet, world, command, Places
<1>8. CommandInv'
    BY <1>1, <1>2, <1>3 DEF CommandInv, command, Quiet
<1>9. Calm
    BY <1>1, <1>2, <1>3, RoundTyped DEF Calm, Quiet, TypeInv, world
<1> QED
    BY <1>5, <1>7, <1>8, <1>9 DEF Kept

LEMMA PrepareExistingStep ==
    ASSUME TypeInv, CommandInv, PrepareExisting
    PROVE  Kept /\ Calm /\ Grows
<1>1. /\ pc = "top" /\ official # None
      /\ UNCHANGED <<history, latest, draft, world>>
    BY DEF PrepareExisting, Working, NothingUnderReview
<1>2. cmd = "auto" /\ LoopActive /\ Grows
    BY <1>1, AtTop DEF Grows
<1>3. CASE /\ Store(Request(InPhase(row, "review_prepared"), "official_output", official))
           /\ result' = NoResult /\ pc' = "top" /\ UNCHANGED <<command, out>>
    <2>1. "official_output" \in Kinds /\ official \in Texts
        BY <1>1 DEF Kinds, TypeInv
    <2>2. cmd' = cmd /\ out' = out /\ code' \in Texts \cup {None}
        BY <1>3 DEF command, TypeInv
    <2> QED
        BY <1>1, <1>2, <1>3, <2>1, <2>2, Asking
<1>4. CASE StopLoop(row, "hard_failure") /\ UNCHANGED result
    <2>1. "hard_failure" \in Reasons /\ result' \in Results \cup {NoResult}
        BY <1>4, ReasonsKnown DEF TypeInv
    <2> QED
        BY <1>1, <1>2, <1>4, <2>1, Stopping
<1> QED
    BY <1>3, <1>4 DEF PrepareExisting

LEMMA PrepareExistingRaisesStep ==
    ASSUME TypeInv, CommandInv, PrepareExistingRaises
    PROVE  Kept /\ Calm /\ Grows
<1>1. /\ pc = "top" /\ Store(InPhase(row, "review_prepared")) /\ Return("error")
      /\ UNCHANGED <<history, latest, draft, result, world>>
    BY DEF PrepareExistingRaises, Working, NothingUnderReview
<1>2. "review_prepared" \in Phases /\ "error" \in Outcomes /\ LoopActive /\ Grows
    BY <1>1, AtTop, PhasesKnown, OutcomesKnown DEF Grows
<1> QED
    BY <1>1, <1>2, Waiting

LEMMA PrepareCandidateStep ==
    ASSUME TypeInv, CommandInv, PrepareCandidate
    PROVE  Kept /\ Calm /\ Grows
<1>1. pc = "top" /\ UNCHANGED <<history, latest, draft, world>>
    BY DEF PrepareCandidate, Working, NothingUnderReview
<1>2. cmd = "auto" /\ LoopActive /\ Grows
    BY <1>1, AtTop DEF Grows
<1>3. CASE row.ready # None /\ row.ready = draft
    <2>1. /\ Store(Request(InPhase(row, "review_prepared"), "candidate", row.ready))
          /\ result' = NoResult /\ pc' = "top" /\ UNCHANGED <<command, out>>
        BY <1>3 DEF PrepareCandidate
    <2>2. "candidate" \in Kinds /\ row.ready \in Texts
        BY <1>3 DEF Kinds, TypeInv
    <2>3. cmd' = cmd /\ out' = out /\ code' \in Texts \cup {None}
        BY <2>1 DEF command, TypeInv
    <2> QED
        BY <1>1, <1>2, <2>1, <2>2, <2>3, Asking
<1>4. CASE ~(row.ready # None /\ row.ready = draft)
    <2> DEFINE reason == IF row.ready = None THEN "hard_failure" ELSE "freshness_error"
    <2>1. StopLoop(row, reason) /\ UNCHANGED result
        BY <1>4 DEF PrepareCandidate
    <2>2. reason \in Reasons /\ result' \in Results \cup {NoResult}
        BY <2>1, ReasonsKnown DEF TypeInv
    <2> QED
        BY <1>1, <1>2, <2>1, <2>2, Stopping
<1> QED
    BY <1>3, <1>4

LEMMA StopBuildBudgetStep ==
    ASSUME TypeInv, CommandInv, StopBuildBudget
    PROVE  Kept /\ Calm /\ Grows
<1>1. /\ StopLoop(row, "build_budget_exhausted")
      /\ UNCHANGED <<history, latest, draft, result, world>>
    BY DEF StopBuildBudget
<1>2. "build_budget_exhausted" \in Reasons /\ result' \in Results \cup {NoResult} /\ Grows
    BY <1>1, ReasonsKnown DEF TypeInv, Grows
<1> QED
    BY <1>1, <1>2, Stopping

LEMMA BeginBuildStep ==
    ASSUME TypeInv, CommandInv, BeginBuild
    PROVE  Kept /\ Calm /\ Grows
<1>1. /\ pc = "top" /\ Store(InPhase(row, "build_checking")) /\ pc' = "build"
      /\ UNCHANGED <<history, latest, draft, result, command, out, world>>
    BY DEF BeginBuild, Building, Working, NothingUnderReview
<1>2. "build_checking" \in Phases /\ cmd = "auto" /\ LoopActive /\ Grows
    BY <1>1, AtTop, PhasesKnown DEF Grows
<1> QED
    BY <1>1, <1>2, GoingOn

LEMMA BuildRefusedStep ==
    ASSUME TypeInv, CommandInv, BuildRefused
    PROVE  Kept /\ Calm /\ Grows
<1>1. /\ pc = "build" /\ StoreWith(row, draft)
      /\ UNCHANGED <<history, latest, draft, result, code, out, world>>
      /\ \/ cmd = "auto" /\ pc' = "built" /\ outcome' = "refused" /\ cmd' = cmd
         \/ cmd # "auto" /\ pc' = "idle" /\ cmd' = "none"
    BY DEF BuildRefused, Store
<1>2. Quiet /\ row'.req = row.req /\ row'.loop = row.loop
    BY <1>1, Stores DEF TypeInv
<1>3. TypeInv' /\ Grows
    BY <1>1, <1>2 DEF TypeInv, Quiet, world, Places, Grows
<1>4. CommandInv'
    BY <1>1, <1>2 DEF CommandInv, LoopActive, Quiet, Repairable
<1>5. Calm
    BY <1>1, <1>2, RoundTyped DEF Calm, Quiet, TypeInv, world, LoopActive
<1> QED
    BY <1>3, <1>4, <1>5 DEF Kept

LEMMA BuildRecordStep ==
    ASSUME TypeInv, CommandInv, BuildRecord
    PROVE  Kept /\ Calm /\ Grows
<1>1. PICK ok \in BOOLEAN :
         /\ history' = Append(history, Attempt("build", None, ok, IF ok THEN "" ELSE "build", 0))
         /\ outcome' = IF ok THEN "built" ELSE "failed"
    BY DEF BuildRecord
<1>2. /\ pc = "build" /\ code' = draft /\ pc' = "buildCommit"
      /\ UNCHANGED <<row, latest, draft, result, cmd, out, world>>
    BY DEF BuildRecord
<1>3. Grows
    BY <1>1, AttemptTyped
<1>4. TypeInv'
    BY <1>2, <1>3, GrowsTyped DEF TypeInv, world, Places
<1>5. CommandInv'
    BY <1>1, <1>2 DEF CommandInv, LoopActive, Repairable
<1>6. Calm
    BY <1>2, RoundTyped DEF Calm, TypeInv, world, LoopActive
<1> QED
    BY <1>3, <1>4, <1>5, <1>6 DEF Kept

LEMMA BuildCommitStep ==
    ASSUME TypeInv, CommandInv, BuildCommit
    PROVE  /\ Kept /\ Calm /\ Grows
           /\ row'.req = NoRequest
<1> DEFINE ok == outcome = "built"
           ready == IF ok THEN code ELSE row.ready
           status == IF HasOutput THEN row.status
                     ELSE IF ~ok /\ BuildFailures(history) >= FailLimit
                     THEN "FAILED_LOCAL" ELSE "PACKED"
           r == [row EXCEPT !.req = NoRequest, !.ready = ready, !.status = status]
<1>1. ready \in Texts \cup {None} /\ status \in {"PACKED", "FAILED_LOCAL", "COMPLETED"}
    BY DEF TypeInv, Rows
<1>2. StoreWith(r, draft)
    BY DEF BuildCommit, Store, TypeInv, Rows
<1> HIDE DEF status
<1>3. /\ r \in Rows /\ r.req = NoRequest /\ r.loop = row.loop /\ r.rep = row.rep
      /\ r.ready = ready /\ r.receipt = row.receipt
    BY <1>1 DEF TypeInv, Rows, Requests
<1>4. /\ pc = "buildCommit" /\ result' = NoResult
      /\ UNCHANGED <<history, latest, draft, world>>
      /\ \/ cmd = "auto" /\ pc' = "built" /\ UNCHANGED <<command, out>>
         \/ cmd # "auto" /\ pc' = "idle" /\ cmd' = "none" /\ code' = None /\ outcome' = "none"
            /\ UNCHANGED out
    BY DEF BuildCommit
<1> HIDE DEF r
<1>5. /\ row' \in Rows /\ row'.req = NoRequest /\ row'.loop = row.loop /\ row'.rep = row.rep
      /\ row'.ready \in {None, ready} /\ row'.receipt = row.receipt
    BY <1>2, <1>3, StoreRow
<1>6. TypeInv' /\ Grows
    BY <1>4, <1>5 DEF TypeInv, world, Places, Grows, command
<1>7. CommandInv'
    BY <1>4, <1>5 DEF CommandInv, LoopActive, command, Repairable
<1>8. Calm
    BY <1>4, <1>5, RoundTyped DEF Calm, TypeInv, world, LoopActive
<1> QED
    BY <1>5, <1>6, <1>7, <1>8 DEF Kept

LEMMA AfterFailedBuildStep ==
    ASSUME TypeInv, CommandInv, AfterFailedBuild
    PROVE  Kept /\ Calm /\ Grows
<1>1. pc = "built" /\ UNCHANGED <<history, latest, draft, result, world>>
    BY DEF AfterFailedBuild
<1>2. LoopActive /\ result' \in Results \cup {NoResult} /\ Grows
    BY <1>1, AtTop DEF TypeInv, Grows
<1>3. CASE StopLoop(row, "build_budget_exhausted")
    BY <1>1, <1>2, <1>3, ReasonsKnown, Stopping
<1>4. CASE Store(InPhase(row, "authoring")) /\ Return("author_repair")
    <2>1. "authoring" \in Phases /\ "author_repair" \in Outcomes
        BY PhasesKnown, OutcomesKnown
    <2> QED
        BY <1>1, <1>2, <1>4, <2>1, Waiting
<1> QED
    BY <1>3, <1>4 DEF AfterFailedBuild

LEMMA AfterBuildStep ==
    ASSUME TypeInv, CommandInv, AfterBuild
    PROVE  Kept /\ Calm /\ Grows
<1>1. pc = "built" /\ UNCHANGED <<history, latest, draft, world>>
    BY DEF AfterBuild
<1>2. cmd = "auto" /\ LoopActive /\ Grows
    BY <1>1, AtTop DEF Grows
<1>3. CASE StopLoop(row, "diagnoser_required") /\ UNCHANGED result
    <2>1. "diagnoser_required" \in Reasons /\ result' \in Results \cup {NoResult}
        BY <1>3, ReasonsKnown DEF TypeInv
    <2> QED
        BY <1>1, <1>2, <1>3, <2>1, Stopping
<1>4. CASE Store(InPhase(row, "authoring")) /\ Return("author_repair") /\ UNCHANGED result
    <2>1. "authoring" \in Phases /\ "author_repair" \in Outcomes
        BY PhasesKnown, OutcomesKnown
    <2> QED
        BY <1>1, <1>2, <1>4, <2>1, Waiting
<1>5. CASE /\ row.ready # None
           /\ Store(Request(InPhase(row, "review_prepared"), "candidate", row.ready))
           /\ result' = NoResult /\ pc' = "top" /\ code' = None /\ UNCHANGED <<cmd, out>>
    <2>1. "candidate" \in Kinds /\ row.ready \in Texts
        BY <1>5 DEF Kinds, TypeInv, Rows
    <2>2. cmd' = cmd /\ out' = out /\ code' \in Texts \cup {None}
        BY <1>5
    <2> QED
        BY <1>1, <1>2, <1>5, <2>1, <2>2, Asking
<1>6. CASE StopLoop(row, "hard_failure") /\ UNCHANGED result
    <2>1. "hard_failure" \in Reasons /\ result' \in Results \cup {NoResult}
        BY <1>6, ReasonsKnown DEF TypeInv
    <2> QED
        BY <1>1, <1>2, <1>6, <2>1, Stopping
<1> QED
    BY <1>3, <1>4, <1>5, <1>6 DEF AfterBuild

-----------------------------------------------------------------------------
(* The steps of a review-apply                                             *)

LEMMA ApplyRefusedStep ==
    ASSUME TypeInv, CommandInv, ApplyRefused
    PROVE  Kept /\ Calm /\ Grows
<1>1. /\ pc = "apply" /\ UNCHANGED <<row, history, latest, draft, result, world>>
      /\ \/ cmd = "auto" /\ pc' = "applied" /\ outcome' = "refused" /\ UNCHANGED <<cmd, code, out>>
         \/ cmd # "auto" /\ pc' = "idle" /\ cmd' = "none" /\ UNCHANGED <<code, outcome, out>>
    BY DEF ApplyRefused
<1>2. TypeInv' /\ Grows
    BY <1>1 DEF TypeInv, world, Places, Grows
<1>3. CommandInv'
    BY <1>1 DEF CommandInv, LoopActive, Repairable
<1>4. Calm
    BY <1>1, RoundTyped DEF Calm, TypeInv, world, LoopActive
<1> QED
    BY <1>2, <1>3, <1>4 DEF Kept

LEMMA ApplyReplayedStep ==
    ASSUME TypeInv, CommandInv, ApplyReplayed
    PROVE  /\ Kept /\ Calm /\ Grows
           /\ row'.status = row.status /\ row'.req = row.req
<1>1. pc = "apply" /\ UNCHANGED <<history, latest, draft, result, world>>
    BY DEF ApplyReplayed
<1>2. CASE cmd = "auto" /\ Store(Completed(row)) /\ Return("completed")
    <2>1. LET s == Completed(row) IN
          s \in Rows /\ Ledger(row, s) /\ Progress(row.loop, s.loop) /\ s.loop.status = "completed"
        BY CompletedRow DEF TypeInv
    <2>2. Quiet /\ row'.req = row.req /\ row'.loop.status = "completed"
        BY <1>2, <2>1, StoreRow DEF Quiet, Ledger, Progress, Store
    <2>3. TypeInv' /\ Grows
        BY <1>1, <1>2, <2>2, OutcomesKnown DEF TypeInv, Quiet, world, Return, Places, Grows
    <2>4. CommandInv'
        BY <1>2, <2>2 DEF CommandInv, LoopActive, Return
    <2>5. Calm
        BY <1>1, <2>2, RoundTyped DEF Calm, Quiet, TypeInv, world, LoopActive
    <2> QED
        BY <2>2, <2>3, <2>4, <2>5 DEF Kept, Quiet
<1>3. CASE /\ cmd # "auto" /\ Store(row) /\ pc' = "idle" /\ cmd' = "none"
           /\ UNCHANGED <<code, outcome, out>>
    <2>1. Quiet /\ row'.req = row.req /\ row'.loop = row.loop
        BY <1>3, Stores DEF TypeInv, Store
    <2>2. TypeInv' /\ Grows
        BY <1>1, <1>3, <2>1 DEF TypeInv, Quiet, world, Places, Grows
    <2>3. CommandInv'
        BY <1>3, <2>1 DEF CommandInv, LoopActive
    <2>4. Calm
        BY <1>1, <2>1, RoundTyped DEF Calm, Quiet, TypeInv, world, LoopActive
    <2> QED
        BY <2>1, <2>2, <2>3, <2>4 DEF Kept, Quiet
<1> QED
    BY <1>2, <1>3 DEF ApplyReplayed

LEMMA RepairRequestTyped ==
    ASSUME TypeInv, row.req # NoRequest, result.verdict \in Repairable
    PROVE  RepairRequest \in Repairs \ {NoRepair} /\ result.route \in Routes \cup {None}
<1>1. row.req.kind \in Kinds /\ row.req.code \in Texts
    BY DEF TypeInv, Rows, Requests
<1>2. latest.n + 1 \in Nat \ {0}
    BY DEF TypeInv, Repairs, NoRepair
<1>3. result \in Results
    BY DEF TypeInv, NoResult, Repairable
<1>4. result.mustFix \in MustFix \cup {None} /\ result.route \in Routes \cup {None}
    BY <1>3 DEF Results
<1>5. NeedsDiagnosis \in BOOLEAN
    BY DEF NeedsDiagnosis
<1>6. RepairRequest \in Repairs
    BY <1>1, <1>2, <1>4, <1>5 DEF RepairRequest, Repairs
<1>7. RepairRequest.n # 0 /\ NoRepair.n = 0
    BY <1>2 DEF RepairRequest, NoRepair
<1> QED
    BY <1>4, <1>6, <1>7

LEMMA ApplyOutcomeStep ==
    ASSUME TypeInv, CommandInv, ApplyOutcome
    PROVE  /\ Kept /\ Calm /\ Grows
           /\ outcome' = "pass" => official' = code' /\ row'.status = "COMPLETED"
           /\ row'.req = row.req
<1>1. /\ pc = "apply" /\ code' = row.req.code /\ pc' = "applyRecord" /\ row.req # NoRequest
      /\ UNCHANGED <<history, draft, result, cmd, out, basis, mathGo, loops, events, seed>>
    BY DEF ApplyOutcome, CommandInv
<1>2. PICK ends \in IF result.verdict = "pass" THEN {"pass", "buildFailed"} ELSE {result.verdict} :
          /\ outcome' = ends
          /\ official' = IF ends = "pass" THEN row.req.code ELSE official
          /\ latest' = IF ends \in Repairable THEN RepairRequest ELSE latest
          /\ row' = CASE ends = "pass" -> [row EXCEPT !.status = "COMPLETED"]
                      [] ends \in Repairable ->
                            [row EXCEPT !.rep = RepairRequest, !.triage = result.route]
                      [] OTHER -> row
    BY DEF ApplyOutcome
<1>3. row.req.code \in Texts
    BY <1>1 DEF TypeInv, Rows, Requests
<1>4. "pass" \notin Repairable
    BY DEF Repairable
<1>5. ends \in Repairable => result.verdict \in Repairable
    BY <1>2 DEF Repairable
<1>6. ends \in Repairable =>
         RepairRequest \in Repairs \ {NoRepair} /\ result.route \in Routes \cup {None}
    BY <1>1, <1>5, RepairRequestTyped
<1>7. /\ row' \in Rows /\ row'.loop = row.loop /\ row'.req = row.req
      /\ row'.receipt = row.receipt /\ row'.rep \in {NoRepair, latest'} /\ latest' \in Repairs
    <2>1. CASE ends = "pass"
        BY <1>2, <1>4, <2>1 DEF TypeInv, Rows
    <2>2. CASE ends \in Repairable
        BY <1>2, <1>4, <1>6, <2>2 DEF TypeInv, Rows
    <2>3. CASE ends # "pass" /\ ends \notin Repairable
        BY <1>2, <2>3 DEF TypeInv
    <2> QED
        BY <2>1, <2>2, <2>3
<1>8. outcome' = "pass" => official' = code' /\ row'.status = "COMPLETED"
    BY <1>1, <1>2, <1>4 DEF TypeInv, Rows
<1>9. TypeInv' /\ Grows
    BY <1>1, <1>2, <1>3, <1>7 DEF TypeInv, Places, Grows
<1>10. outcome' \in Repairable => latest' # NoRepair
    BY <1>2, <1>6
<1>11. CommandInv'
    BY <1>1, <1>7, <1>10 DEF CommandInv, LoopActive
<1>12. Calm
    BY <1>1, <1>7, RoundTyped DEF Calm, TypeInv, LoopActive
<1> QED
    BY <1>7, <1>8, <1>9, <1>11, <1>12 DEF Kept

LEMMA ApplyRecordStep ==
    ASSUME TypeInv, CommandInv, ApplyRecord
    PROVE  Kept /\ Calm /\ Grows
<1> DEFINE kind == CASE outcome = "pass" -> ""
                     [] outcome \in {"fail", "inconclusive"} -> outcome
                     [] OTHER -> "blocked"
           repair == IF outcome \in Repairable THEN latest.n ELSE 0
<1>1. /\ pc = "applyRecord" /\ pc' = "applyCommit"
      /\ history' = Append(history,
                           Attempt("semantic_review", code, outcome = "pass", kind, repair))
      /\ UNCHANGED <<row, latest, draft, result, command, out, world>>
    BY DEF ApplyRecord
<1>2. kind \in {"", "build", "fail", "inconclusive", "blocked"}
    OBVIOUS
<1>3. repair \in Nat /\ code \in Texts \cup {None}
    BY DEF TypeInv, Repairs, NoRepair
<1> HIDE DEF kind, repair
<1>4. Grows
    BY <1>1, <1>2, <1>3, AttemptTyped
<1>5. TypeInv'
    BY <1>1, <1>4, GrowsTyped DEF TypeInv, world, command, Places
<1>6. CommandInv'
    BY <1>1 DEF CommandInv, LoopActive, command
<1>7. Calm
    BY <1>1, RoundTyped DEF Calm, TypeInv, world, LoopActive
<1> QED
    BY <1>4, <1>5, <1>6, <1>7 DEF Kept

LEMMA NoLoopTyped == NoLoop \in Loops
<1>1. 0 \in 0..NonprogressLimit
    BY LimitsAssumption
<1>2. "" \in Phases /\ "" \in Reasons
    BY DEF Phases, Reasons
<1> QED
    BY <1>1, <1>2 DEF NoLoop, Loops, Marks

LEMMA AfterApplyRow ==
    ASSUME TypeInv
    PROVE  LET s == AfterApply(row) IN
           /\ s \in Rows /\ s.req = NoRequest /\ s.rep \in {NoRepair, latest}
           /\ s.loop = (IF outcome \in {"pass", "exception"} THEN NoLoop ELSE row.loop)
           /\ outcome = "exception" => s.rep = NoRepair
           /\ outcome \in Repairable => s.rep = latest
           /\ outcome # "pass" => s.receipt = row.receipt
           /\ outcome = "pass" => s.receipt.code = code
<1>0. "pass" \notin Repairable /\ "exception" \notin Repairable
    BY DEF Repairable
<1>1. NoLoop \in Loops /\ NoRequest \in Requests /\ NoRepair \in Repairs
    BY NoLoopTyped DEF Requests, Repairs
<1>2. CASE outcome = "pass"
    <2> DEFINE ready == IF row.req.kind = "candidate" THEN None ELSE row.ready
               receipt == [code |-> code, basis |-> row.req.basis, post |-> basis]
    <2>1. AfterApply(row) = [row EXCEPT !.req = NoRequest, !.rep = NoRepair, !.loop = NoLoop,
                                        !.ready = ready, !.receipt = receipt]
        <3>1. row \in Rows
            BY DEF TypeInv
        <3>2. AfterApply(row) = [[row EXCEPT !.req = NoRequest] EXCEPT
                                    !.rep = NoRepair, !.loop = NoLoop,
                                    !.ready = IF row.req.kind = "candidate" THEN None ELSE @,
                                    !.receipt = receipt]
            BY <1>0, <1>2 DEF AfterApply, Released
        <3> HIDE DEF receipt
        <3> QED
            BY <3>1, <3>2 DEF Rows
    <2>2. ready \in Texts \cup {None}
        BY DEF TypeInv, Rows
    <2>3. row.req.basis \in Nat
        BY DEF TypeInv, Rows, Requests, NoRequest
    <2>4. receipt \in [code : Texts \cup {None}, basis : Nat, post : Nat] /\ receipt.code = code
        BY <2>3 DEF TypeInv
    <2> HIDE DEF ready, receipt
    <2> QED
        BY <1>0, <1>1, <1>2, <2>1, <2>2, <2>4 DEF TypeInv, Rows
<1>3. CASE outcome = "exception"
    BY <1>0, <1>1, <1>3 DEF AfterApply, Released, TypeInv, Rows
<1>4. CASE outcome \in Repairable
    BY <1>0, <1>1, <1>4 DEF AfterApply, Released, TypeInv, Rows
<1>5. CASE outcome \notin {"pass", "exception"} \cup Repairable
    BY <1>1, <1>5 DEF AfterApply, Released, TypeInv, Rows
<1> QED
    BY <1>2, <1>3, <1>4, <1>5

LEMMA ApplyCommitStep ==
    ASSUME TypeInv, CommandInv, ApplyCommit
    PROVE  /\ Kept /\ Grows
           /\ LoopActive' => LoopActive /\ row.loop.round <= row'.loop.round
           /\ loops' = loops /\ row'.req = NoRequest
           /\ outcome # "pass" => row'.receipt = row.receipt
           /\ outcome = "pass" => row'.receipt.code = code /\ row'.status = "COMPLETED"
<1> DEFINE s == AfterApply(row)
           r == [s EXCEPT !.status = StatusAfterApply]
<1>1. /\ s \in Rows /\ s.req = NoRequest /\ s.rep \in {NoRepair, latest}
      /\ s.loop = (IF outcome \in {"pass", "exception"} THEN NoLoop ELSE row.loop)
      /\ outcome = "exception" => s.rep = NoRepair
      /\ outcome \in Repairable => s.rep = latest
      /\ outcome # "pass" => s.receipt = row.receipt
      /\ outcome = "pass" => s.receipt.code = code
    BY AfterApplyRow
<1>2. /\ StatusAfterApply \in {"PACKED", "FAILED_LOCAL", "COMPLETED"}
      /\ outcome = "pass" => StatusAfterApply = "COMPLETED"
    <2>1. row.status \in {"PACKED", "FAILED_LOCAL", "COMPLETED"}
        BY DEF TypeInv, Rows
    <2>2. CASE outcome = "pass"
        BY <2>2 DEF StatusAfterApply
    <2>3. CASE outcome # "pass" /\ (HasOutput \/ row.req.kind = "official_output")
        BY <2>1, <2>3 DEF StatusAfterApply
    <2>4. CASE outcome # "pass" /\ ~(HasOutput \/ row.req.kind = "official_output")
        BY <2>4 DEF StatusAfterApply
    <2> QED
        BY <2>2, <2>3, <2>4
<1> HIDE DEF s
<1>3. /\ r \in Rows /\ r.req = s.req /\ r.rep = s.rep /\ r.loop = s.loop
      /\ r.receipt = s.receipt /\ r.status = StatusAfterApply
    BY <1>1, <1>2 DEF Rows
<1>4. IF outcome = "pass" /\ cmd = "auto" THEN StoreWith(Completed(r), draft)
                                          ELSE StoreWith(r, draft)
    BY DEF ApplyCommit, Store, s
<1> HIDE DEF r
<1>5. /\ row' \in Rows /\ row'.req = s.req /\ row'.rep = s.rep /\ row'.receipt = s.receipt
      /\ row'.status = StatusAfterApply
      /\ row'.loop = s.loop \/ (outcome = "pass" /\ row'.loop.status = "completed")
    <2>1. CASE outcome = "pass" /\ cmd = "auto"
        <3>1. LET q == Completed(r) IN q \in Rows /\ Ledger(r, q) /\ q.loop.status = "completed"
            BY <1>3, CompletedRow
        <3> QED
            BY <1>3, <1>4, <2>1, <3>1, StoreRow DEF Ledger
    <2>2. CASE ~(outcome = "pass" /\ cmd = "auto")
        <3>1. StoreWith(r, draft)
            BY <1>4, <2>2
        <3>2. /\ row' \in Rows /\ row'.loop = r.loop /\ row'.req = r.req /\ row'.rep = r.rep
              /\ row'.status = r.status /\ row'.receipt = r.receipt
            BY <1>3, <3>1, StoreRow
        <3> QED
            BY <1>3, <3>2
    <2> QED
        BY <2>1, <2>2
<1>6. /\ pc = "applyCommit" /\ result' = NoResult
      /\ UNCHANGED <<history, latest, draft, world>>
      /\ \/ cmd = "auto" /\ outcome = "pass" /\ Return("completed")
         \/ cmd = "auto" /\ outcome # "pass" /\ pc' = "applied" /\ UNCHANGED <<command, out>>
         \/ cmd # "auto" /\ outcome \in Repairable /\ pc' = "fix" /\ UNCHANGED <<command, out>>
         \/ cmd # "auto" /\ pc' = "idle" /\ cmd' = "none" /\ code' = None /\ outcome' = "none"
            /\ UNCHANGED out
    BY DEF ApplyCommit
<1>7. LoopActive' => LoopActive /\ row'.loop = row.loop /\ outcome \notin {"pass", "exception"}
    <2> SUFFICES ASSUME LoopActive'
                 PROVE  LoopActive /\ row'.loop = row.loop /\ outcome \notin {"pass", "exception"}
        OBVIOUS
    <2>1. row'.loop.enabled /\ row'.loop.status = "active"
        BY DEF LoopActive
    <2>2. row'.loop = s.loop
        BY <1>5, <2>1
    <2>3. ~NoLoop.enabled
        BY DEF NoLoop
    <2>4. row'.loop = row.loop /\ outcome \notin {"pass", "exception"}
        BY <1>1, <2>1, <2>2, <2>3
    <2> QED
        BY <2>1, <2>4 DEF LoopActive
<1>8. TypeInv' /\ Grows
    BY <1>1, <1>5, <1>6, OutcomesKnown DEF TypeInv, world, command, Places, Grows, Return
<1>9. CommandInv'
    <2>1. row'.loop = s.loop => row'.loop.nonprogress = row.loop.nonprogress
                                \/ row'.loop.nonprogress = 0
        <3>1. s.loop = row.loop \/ s.loop = NoLoop
            BY <1>1
        <3>2. NoLoop.nonprogress = 0
            BY DEF NoLoop
        <3> QED
            BY <3>1, <3>2
    <2>2. 0 < NonprogressLimit
        BY LimitsAssumption
    <2>3. CASE cmd = "auto" /\ outcome = "pass" /\ Return("completed")
        BY <1>7, <2>3 DEF CommandInv, Return
    <2>4. CASE cmd = "auto" /\ outcome # "pass" /\ pc' = "applied" /\ UNCHANGED <<command, out>>
        <3>1. cmd' = cmd /\ outcome' = outcome /\ LoopActive
            BY <1>6, <2>4 DEF CommandInv, command
        <3>2. LoopActive' \/ (outcome = "exception" /\ row'.rep = NoRepair)
            BY <1>1, <1>5, <2>4, <3>1 DEF LoopActive
        <3>3. row'.loop.nonprogress < NonprogressLimit
            BY <1>5, <2>1, <2>2, <2>4, <3>1 DEF CommandInv
        <3>4. outcome \in Repairable => row'.rep # NoRepair
            BY <1>1, <1>5, <1>6 DEF CommandInv
        <3> QED
            BY <2>4, <3>1, <3>2, <3>3, <3>4 DEF CommandInv
    <2>5. CASE cmd # "auto" /\ outcome \in Repairable /\ pc' = "fix" /\ UNCHANGED <<command, out>>
        BY <1>7, <2>5 DEF CommandInv, command
    <2>6. CASE /\ cmd # "auto" /\ pc' = "idle" /\ cmd' = "none" /\ code' = None
               /\ outcome' = "none"
        BY <1>7, <2>6 DEF CommandInv
    <2> QED
        BY <1>6, <2>3, <2>4, <2>5, <2>6
<1>10. LoopActive' => LoopActive /\ row.loop.round <= row'.loop.round
    BY <1>7, RoundTyped DEF TypeInv
<1> QED
    BY <1>1, <1>2, <1>5, <1>6, <1>8, <1>9, <1>10 DEF Kept, world

-----------------------------------------------------------------------------
(* Back in the loop after a review that did not land                       *)

LEMMA NextIterationStep ==
    ASSUME TypeInv, CommandInv, pc = "applied", LoopActive, NEW text \in Texts,
           NextIteration(text), draft' = text, Grows,
           UNCHANGED <<latest, result, world>>
    PROVE  Kept /\ Calm /\ row'.req = row.req
<1> DEFINE l == [row.loop EXCEPT !.lastCode = row.rep.code, !.lastMark = Mark(row.rep),
                                 !.nonprogress = Nonprogress]
           m == [l EXCEPT !.round = @ + 1]
           r == [row EXCEPT !.loop = l]
           s == [row EXCEPT !.loop = m]
<1>1. cmd = "auto" /\ row.loop.nonprogress < NonprogressLimit
    BY DEF CommandInv
<1>2. row \in Rows /\ row.loop \in Loops /\ row.rep \in Repairs
    BY DEF TypeInv, Rows
<1>3. Nonprogress \in 0..NonprogressLimit
    <2>1. row.loop.nonprogress \in 0..NonprogressLimit /\ NonprogressLimit \in Nat
        <3>1. row.loop.nonprogress \in 0..NonprogressLimit
            BY <1>2 DEF Loops
        <3> QED
            BY <3>1, LimitsAssumption
    <2> QED
        BY <1>1, <2>1 DEF Nonprogress
<1>4. row.rep.code \in Texts \cup {None} /\ Mark(row.rep) \in Marks
    BY <1>2 DEF Repairs, NoRepair, Marks, Mark
<1>5. l \in Loops /\ l.round = row.loop.round /\ l.nonprogress = Nonprogress
    BY <1>2, <1>3, <1>4 DEF Loops
<1> HIDE DEF l
<1>6. m \in Loops /\ m.round = row.loop.round + 1 /\ m.nonprogress = Nonprogress
    <2>1. row.loop.round + 1 \in Nat
        BY <1>2, RoundTyped
    <2>2. m = [l EXCEPT !.round = row.loop.round + 1]
        BY <1>5
    <2> HIDE DEF m
    <2> QED
        BY <1>5, <2>1, <2>2 DEF Loops
<1>7. [row EXCEPT !.loop.lastCode = row.rep.code, !.loop.lastMark = Mark(row.rep),
                  !.loop.nonprogress = Nonprogress] = r
    BY <1>2 DEF l, Rows, Loops
<1>8. [r EXCEPT !.loop.round = @ + 1] = s
    BY <1>2, <1>5 DEF Rows, Loops
<1> HIDE DEF m
<1>9. r \in Rows /\ r.loop = l /\ Ledger(row, r) /\ s \in Rows /\ s.loop = m /\ Ledger(row, s)
    BY <1>2, <1>5, <1>6, LoopOf
<1>10. IF Nonprogress >= NonprogressLimit
       THEN StoreWith(Stopped(r, "nonprogress"), text) /\ Return("stopped")
       ELSE /\ StoreWith(InPhase(s, "entry"), text)
            /\ pc' = "top" /\ code' = None /\ outcome' = "none" /\ UNCHANGED <<cmd, out>>
    BY <1>7, <1>8 DEF NextIteration
<1> HIDE DEF r, s
<1>11. CASE Nonprogress >= NonprogressLimit
    <2>1. LET q == Stopped(r, "nonprogress") IN
          q \in Rows /\ Ledger(r, q) /\ Progress(r.loop, q.loop) /\ q.loop.status = "stopped"
        BY <1>9, StoppedRow, ReasonsKnown
    <2>2. /\ row' \in Rows /\ row'.rep = row.rep /\ row'.receipt = row.receipt
          /\ row'.req = row.req
          /\ row'.loop.status = "stopped"
        BY <1>9, <1>10, <1>11, <2>1, StoreRow DEF Ledger
    <2>3. Return("stopped")
        BY <1>10, <1>11
    <2>4. TypeInv'
        BY <2>2, <2>3, GrowsTyped, OutcomesKnown DEF TypeInv, world, Return, Places
    <2>5. CommandInv'
        BY <2>2, <2>3 DEF CommandInv, LoopActive, Return
    <2> QED
        BY <2>2, <2>4, <2>5 DEF Kept, Calm, LoopActive, world
<1>12. CASE ~(Nonprogress >= NonprogressLimit)
    <2>1. LET q == InPhase(s, "entry") IN
          /\ q \in Rows /\ Ledger(s, q) /\ Progress(s.loop, q.loop)
          /\ q.loop.enabled /\ q.loop.status = "active"
        BY <1>9, InPhaseRow, PhasesKnown
    <2>2. /\ row' \in Rows /\ row'.rep = row.rep /\ row'.receipt = row.receipt
          /\ row'.req = row.req
          /\ row'.loop.round = row.loop.round + 1 /\ row'.loop.nonprogress = Nonprogress
          /\ row'.loop.enabled /\ row'.loop.status = "active"
        BY <1>6, <1>9, <1>10, <1>12, <2>1, StoreRow DEF Ledger, Progress
    <2>3. pc' = "top" /\ code' = None /\ cmd' = cmd /\ out' = out
        BY <1>10, <1>12
    <2>4. TypeInv'
        BY <2>2, <2>3, GrowsTyped DEF TypeInv, world, Places
    <2>5. Nonprogress < NonprogressLimit
        BY <1>3, <1>12, LimitsAssumption
    <2>6. CommandInv'
        BY <1>1, <2>2, <2>3, <2>5 DEF CommandInv, LoopActive
    <2>7. row.loop.round <= row'.loop.round
        BY <1>2, <2>2, RoundTyped
    <2> QED
        BY <2>2, <2>4, <2>6, <2>7 DEF Kept, Calm, world
<1> QED
    BY <1>11, <1>12

LEMMA AfterFailedApplyStep ==
    ASSUME TypeInv, CommandInv, AfterFailedApply
    PROVE  Kept /\ Calm /\ Grows /\ row'.req = row.req
<1>1. /\ pc = "applied" /\ UNCHANGED <<latest, result, world>>
      /\ result' \in Results \cup {NoResult} /\ row.rep \in Repairs
    BY DEF AfterFailedApply, TypeInv, Rows
<1>2. CASE StopLoop(row, "diagnoser_required") /\ UNCHANGED <<history, draft>>
    BY <1>1, <1>2, ReasonsKnown, Stopping, Stops DEF Grows, TypeInv
<1>3. CASE StopLoop(row, "hard_failure") /\ UNCHANGED <<history, draft>>
    BY <1>1, <1>3, ReasonsKnown, Stopping, Stops DEF Grows, TypeInv
<1>4. CASE /\ outcome \in Repairable /\ BackfillHistory(row.rep) /\ draft' = row.rep.code
           /\ NextIteration(row.rep.code)
    <2>1. row.rep # NoRepair /\ LoopActive
        BY <1>1, <1>4 DEF CommandInv, Repairable
    <2>2. row.rep.code \in Texts
        BY <1>1, <2>1 DEF Repairs
    <2>3. Grows
        BY <1>1, <1>4, BackfillTyped
    <2> QED
        BY <1>1, <1>4, <2>1, <2>2, <2>3, NextIterationStep
<1>5. CASE /\ outcome \notin Repairable /\ row.rep.n # 0 /\ NextIteration(draft)
           /\ UNCHANGED <<history, draft>>
    <2>1. LoopActive /\ draft \in Texts /\ Grows
        BY <1>1, <1>5 DEF CommandInv, NoRepair, TypeInv, Grows
    <2> QED
        BY <1>1, <1>5, <2>1, NextIterationStep
<1> QED
    BY <1>2, <1>3, <1>4, <1>5 DEF AfterFailedApply, Seed

-----------------------------------------------------------------------------
(* The commands by hand, and the surroundings                              *)

LEMMA FixStep ==
    ASSUME TypeInv, CommandInv, Fix
    PROVE  Kept /\ Calm /\ Grows
<1>1. /\ pc = "fix" /\ pc' = "idle" /\ cmd' = "none" /\ code' = None /\ outcome' = "none"
      /\ UNCHANGED <<latest, result, out, world>>
    BY DEF Fix
<1>2. row \in Rows /\ row.rep \in Repairs
    BY DEF TypeInv, Rows
<1>3. Quiet /\ row'.loop = row.loop /\ draft' \in Texts /\ Grows
    <2>1. CASE RepairUsable
        <3>1. BackfillHistory(row.rep) /\ draft' = row.rep.code /\ StoreWith(row, row.rep.code)
            BY <1>1, <2>1 DEF Fix, Seed
        <3>2. row.rep.code \in Texts
            BY <1>2, <2>1 DEF RepairUsable, Repairs, NoRepair
        <3> QED
            BY <1>2, <3>1, <3>2, BackfillTyped, Stores
    <2>2. CASE ~RepairUsable
        <3>1. StoreWith(row, draft) /\ UNCHANGED <<history, draft>>
            BY <1>1, <2>2 DEF Fix, Store
        <3> QED
            BY <1>2, <3>1, Stores DEF TypeInv, Grows
    <2> QED
        BY <2>1, <2>2
<1>4. TypeInv'
    BY <1>1, <1>3, GrowsTyped DEF TypeInv, Quiet, world, Places
<1>5. CommandInv'
    BY <1>1, <1>3 DEF CommandInv, LoopActive
<1>6. Calm
    BY <1>1, <1>3, RoundTyped DEF Calm, Quiet, TypeInv, world, LoopActive
<1> QED
    BY <1>3, <1>4, <1>5, <1>6 DEF Kept

LEMMA ByHandStep ==
    ASSUME TypeInv, CommandInv, ByHand
    PROVE  Kept /\ Calm /\ Grows
<1>1. row \in Rows /\ basis \in Nat
    BY DEF TypeInv
<1>2. CASE BuildByHand
    <2>1. /\ StoreWith(row, draft) /\ pc = "idle" /\ pc' = "build" /\ cmd' = "build"
          /\ UNCHANGED <<history, latest, draft, official, result, basis, code, outcome, out, loops>>
        BY <1>2 DEF BuildByHand, Manual, Store
    <2>2. Quiet /\ row'.req = row.req /\ row'.loop = row.loop
        BY <1>1, <2>1, Stores
    <2>3. TypeInv' /\ Grows
        BY <2>1, <2>2 DEF TypeInv, Quiet, Places, Grows
    <2>4. CommandInv'
        BY <2>1, <2>2 DEF CommandInv, LoopActive
    <2> QED
        BY <2>1, <2>2, <2>3, <2>4, RoundTyped DEF Kept, Calm, Quiet, TypeInv, LoopActive
<1>3. CASE ApplyByHand \/ FixByHand
    <2>1. /\ pc = "idle" /\ pc' \in {"apply", "fix"} /\ cmd' \in {"apply", "fix"}
          /\ pc' = "apply" => row.req # NoRequest
          /\ UNCHANGED <<row, history, latest, draft, official, result, basis, code, outcome, out,
                         loops>>
        BY <1>3 DEF ApplyByHand, FixByHand, Manual
    <2>2. TypeInv' /\ Grows
        BY <2>1 DEF TypeInv, Places, Grows
    <2>3. CommandInv'
        BY <2>1 DEF CommandInv, LoopActive
    <2> QED
        BY <2>1, <2>2, <2>3, RoundTyped DEF Kept, Calm, TypeInv, LoopActive
<1>4. CASE ReviewByHand
    <2> DEFINE q == Request(row, "candidate", row.ready)
    <2>1. /\ StoreWith(q, draft) /\ pc = "idle" /\ row.ready # None /\ result' = NoResult
          /\ UNCHANGED <<history, latest, draft, official, basis, pc, command, out, loops>>
        BY <1>4 DEF ReviewByHand, Store
    <2>2. row.ready \in Texts /\ "candidate" \in Kinds
        BY <1>1, <2>1 DEF Rows, Kinds
    <2>3. /\ q \in Rows /\ q.loop = row.loop /\ q.receipt = row.receipt /\ q.rep = NoRepair
        BY <1>1, <2>2, RequestRow
    <2> HIDE DEF q
    <2>4. /\ row' \in Rows /\ row'.loop = row.loop /\ row'.receipt = row.receipt
          /\ row'.rep = NoRepair
        BY <2>1, <2>3, StoreRow
    <2>5. TypeInv' /\ Grows
        BY <2>1, <2>4 DEF TypeInv, Places, Grows, command
    <2>6. CommandInv'
        BY <2>1, <2>4 DEF CommandInv, LoopActive, command
    <2> QED
        BY <2>1, <2>4, <2>5, <2>6, RoundTyped DEF Kept, Calm, TypeInv, LoopActive
<1>5. CASE Abandon
    <2> DEFINE q == [row EXCEPT !.rep = NoRepair]
    <2>1. /\ StoreWith(q, draft) /\ pc = "idle"
          /\ UNCHANGED <<history, latest, draft, official, result, basis, pc, command, out, loops>>
        BY <1>5 DEF Abandon, Store
    <2>2. /\ q \in Rows /\ q.loop = row.loop /\ q.receipt = row.receipt /\ q.rep = NoRepair
        BY <1>1 DEF Rows, Repairs
    <2> HIDE DEF q
    <2>3. /\ row' \in Rows /\ row'.loop = row.loop /\ row'.receipt = row.receipt
          /\ row'.rep = NoRepair
        BY <2>1, <2>2, StoreRow
    <2>4. TypeInv' /\ Grows
        BY <2>1, <2>3 DEF TypeInv, Places, Grows, command
    <2>5. CommandInv'
        BY <2>1, <2>3 DEF CommandInv, LoopActive, command
    <2> QED
        BY <2>1, <2>3, <2>4, <2>5, RoundTyped DEF Kept, Calm, TypeInv, LoopActive
<1> QED
    BY <1>2, <1>3, <1>4, <1>5 DEF ByHand

LEMMA SurroundingsStep ==
    ASSUME TypeInv, CommandInv, Edit \/ WriteResult \/ WriteMathReview \/ ChangeBasis \/ Kill
    PROVE  Kept /\ Calm /\ Grows
<1>1. UNCHANGED <<row, history, latest, official, out, loops>>
    BY DEF Edit, WriteResult, WriteMathReview, ChangeBasis, Kill, world
<1>2. draft' \in Texts /\ result' \in Results \cup {NoResult} /\ basis' \in Nat
    BY DEF Edit, WriteResult, WriteMathReview, ChangeBasis, Kill, world, TypeInv, Texts
<1>3. \/ UNCHANGED <<pc, cmd, code, outcome>>
      \/ pc' = "idle" /\ cmd' = "none" /\ code' = None /\ outcome' = "none"
    BY DEF Edit, WriteResult, WriteMathReview, ChangeBasis, Kill, command
<1>4. TypeInv' /\ Grows
    BY <1>1, <1>2, <1>3 DEF TypeInv, Places, Grows
<1>5. CommandInv'
    BY <1>1, <1>3 DEF CommandInv, LoopActive
<1>6. Calm
    BY <1>1, RoundTyped DEF Calm, TypeInv, LoopActive
<1> QED
    BY <1>4, <1>5, <1>6 DEF Kept

-----------------------------------------------------------------------------
(* Resuming and starting a loop                                            *)

LEMMA ResumeStep ==
    ASSUME TypeInv, CommandInv, NEW subject \in Subjects, Resume(subject)
    PROVE  Kept /\ Calm /\ Grows
<1>1. /\ pc = "idle" /\ LoopActive /\ pc' = "top" /\ cmd' = "auto" /\ StoreWith(row, draft)
      /\ UNCHANGED <<history, latest, draft, result, code, outcome, out, world>>
    BY DEF Resume, Store
<1>2. Quiet /\ row'.req = row.req /\ row'.loop = row.loop
    BY <1>1, Stores DEF TypeInv
<1>3. TypeInv' /\ Grows
    BY <1>1, <1>2 DEF TypeInv, Quiet, world, Places, Grows
<1>4. CommandInv'
    BY <1>1, <1>2 DEF CommandInv, LoopActive
<1>5. Calm
    BY <1>1, <1>2, RoundTyped DEF Calm, Quiet, TypeInv, world, LoopActive
<1> QED
    BY <1>3, <1>4, <1>5 DEF Kept

LEMMA LeastNumber ==
    ASSUME NEW S, S \subseteq Nat, S # {}
    PROVE  \E n \in S : \A m \in S : n <= m
<1>1. PICK n \in S : \A m \in S : ~ (<<m, n>> \in OpToRel(<, Nat))
    BY NatLessThanWellFounded, WFMin
<1>2. \A m \in S : ~ (m < n)
    BY <1>1 DEF OpToRel
<1> QED
    BY <1>2

(* A set of numbers with a bound has a greatest one.                       *)
LEMMA GreatestNumber ==
    ASSUME NEW S, S \subseteq Nat, S # {}, NEW b \in Nat, \A n \in S : n <= b
    PROVE  Max(S) \in S /\ \A n \in S : n <= Max(S)
<1> DEFINE Bounds == {k \in Nat : \A n \in S : n <= k}
<1>1. Bounds \subseteq Nat /\ Bounds # {}
    OBVIOUS
<1>2. PICK m \in Bounds : \A k \in Bounds : m <= k
    BY <1>1, LeastNumber
<1>3. m \in S
    <2> SUFFICES ASSUME m \notin S PROVE FALSE
        OBVIOUS
    <2>1. PICK n \in S : n \in Nat
        OBVIOUS
    <2>2. m - 1 \in Nat
        BY <1>2, <2>1
    <2>3. m - 1 \in Bounds
        BY <1>2, <2>2
    <2> QED
        BY <1>2, <2>3
<1>4. \E x \in S : \A y \in S : x >= y
    BY <1>2, <1>3
<1>5. Max(S) \in S /\ \A y \in S : Max(S) >= y
    BY <1>4 DEF Max
<1> QED
    BY <1>5

LEMMA NextRoundIsNew ==
    ASSUME TypeInv, RoundInv
    PROVE  /\ NextRound \in Nat \ {0} /\ row.loop.round < NextRound
           /\ \A i \in DOMAIN history : history[i].round < NextRound
<1> DEFINE Used == {row.loop.round} \cup {history[i].round : i \in DOMAIN history}
           Next2 == {Max(Used) + 1} \cup (IF row.rep.n # 0 THEN {2} ELSE {})
<1>1. row.loop.round \in Nat
    BY RoundTyped DEF TypeInv
<1>2. \A i \in DOMAIN history : history[i].round \in Nat
    <2>1. \A i \in DOMAIN history : history[i] \in Entries
        BY DEF TypeInv
    <2> QED
        BY <2>1 DEF Entries
<1>3. PICK m \in Nat : \A i \in DOMAIN history : history[i].round <= m
    BY DEF RoundInv
<1>4. Used \subseteq Nat /\ row.loop.round \in Used /\ \A n \in Used : n <= m + row.loop.round
    BY <1>1, <1>2, <1>3
<1>5. m + row.loop.round \in Nat
    BY <1>1, <1>3
<1>6. \A i \in DOMAIN history : history[i].round \in Used
    OBVIOUS
<1> HIDE DEF Used
<1>7. Max(Used) \in Nat /\ \A n \in Used : n <= Max(Used)
    BY <1>4, <1>5, GreatestNumber
<1>8. Next2 \subseteq Nat /\ Max(Used) + 1 \in Next2 /\ \A n \in Next2 : n <= Max(Used) + 2
    BY <1>7
<1>9. NextRound = Max(Next2)
    BY DEF NextRound, Used
<1>10. Max(Used) + 2 \in Nat
    BY <1>7
<1> HIDE DEF Next2
<1>11. NextRound \in Nat /\ Max(Used) + 1 <= NextRound
    BY <1>8, <1>9, <1>10, GreatestNumber
<1> QED
    BY <1>1, <1>2, <1>4, <1>6, <1>7, <1>11

LEMMA StartStep ==
    ASSUME TypeInv, CommandInv, RoundInv, NEW subject \in Subjects, Start(subject)
    PROVE  /\ Kept /\ Grows
           /\ loops' = loops + 1 /\ row'.loop.round = NextRound /\ row'.receipt = row.receipt
<1> DEFINE l == NewLoop(subject)
           r == [row EXCEPT !.loop = l]
<1>1. row \in Rows /\ row.rep \in Repairs
    BY DEF TypeInv, Rows
<1>2. SeededMarker \in Nat /\ NextRound \in Nat /\ "entry" \in Phases
    BY <1>1, NextRoundIsNew, PhasesKnown DEF SeededMarker, Repairs, NoRepair
<1>3. /\ l \in Loops /\ l.round = NextRound /\ l.nonprogress = 0
      /\ l.enabled /\ l.status = "active"
    BY <1>2, NoLoopTyped DEF NewLoop, Loops, NoLoop
<1> HIDE DEF l
<1>4. r \in Rows /\ r.loop = l /\ Ledger(row, r)
    BY <1>1, <1>3, LoopOf
<1>5. /\ pc = "idle" /\ loops' = loops + 1
      /\ UNCHANGED <<latest, draft, result, official, basis>>
      /\ \/ StopLoop(r, "freshness_error") /\ UNCHANGED history
         \/ /\ BackfillHistory(row.rep) /\ StoreWith(r, draft) /\ pc' = "top" /\ cmd' = "auto"
            /\ UNCHANGED <<code, outcome, out>>
         \/ /\ StoreWith(r, draft) /\ pc' = "top" /\ cmd' = "auto"
            /\ UNCHANGED <<history, code, outcome, out>>
    BY DEF Start, Event, Store, l
<1> HIDE DEF r
<1>6. 0 < NonprogressLimit
    BY LimitsAssumption
<1>7. CASE StopLoop(r, "freshness_error") /\ UNCHANGED history
    <2>1. StoreWith(Stopped(r, "freshness_error"), draft) /\ Return("stopped")
        BY <1>7 DEF StopLoop, Store
    <2>2. LET s == Stopped(r, "freshness_error") IN
          s \in Rows /\ Ledger(r, s) /\ Progress(r.loop, s.loop) /\ s.loop.status = "stopped"
        BY <1>4, StoppedRow, ReasonsKnown
    <2>3. /\ row' \in Rows /\ row'.rep = row.rep /\ row'.receipt = row.receipt
          /\ row'.loop.status = "stopped" /\ row'.loop.round = NextRound
        BY <1>3, <1>4, <2>1, <2>2, StoreRow DEF Ledger, Progress
    <2>4. TypeInv' /\ Grows
        BY <1>5, <1>7, <2>1, <2>3, OutcomesKnown DEF TypeInv, Return, Places, Grows
    <2>5. CommandInv'
        BY <2>1, <2>3 DEF CommandInv, LoopActive, Return
    <2> QED
        BY <1>5, <2>3, <2>4, <2>5 DEF Kept
<1>8. CASE /\ StoreWith(r, draft) /\ pc' = "top" /\ cmd' = "auto"
           /\ UNCHANGED <<code, outcome, out>>
           /\ BackfillHistory(row.rep) \/ UNCHANGED history
    <2>1. Grows
        BY <1>1, <1>8, BackfillTyped DEF Grows
    <2>2. row' \in Rows /\ row'.rep = row.rep /\ row'.receipt = row.receipt /\ row'.loop = l
        BY <1>4, <1>8, StoreRow DEF Ledger
    <2>3. TypeInv'
        BY <1>5, <1>8, <2>1, <2>2, GrowsTyped DEF TypeInv, Places
    <2>4. CommandInv'
        BY <1>3, <1>6, <1>8, <2>2 DEF CommandInv, LoopActive
    <2> QED
        BY <1>3, <1>5, <2>1, <2>2, <2>3, <2>4 DEF Kept
<1> QED
    BY <1>5, <1>7, <1>8

-----------------------------------------------------------------------------
(* One step, whichever it is                                               *)

(* The loop under way stays in its round or goes on; a new loop begins in  *)
(* a round that no attempt has.                                            *)
Moves ==
    \/ /\ LoopActive' => LoopActive /\ row.loop.round <= row'.loop.round
       /\ loops' = loops
    \/ loops' = loops + 1 /\ row'.loop.round = NextRound

LEMMA CommandStep ==
    ASSUME TypeInv, CommandInv, Command, ~ApplyCommit
    PROVE  Kept /\ Calm /\ Grows
BY StopMaxRoundsStep, BeginApplyStep, DropStaleRequestStep, HandToReviewerStep, SeedRepairStep,
   PrepareExistingStep, PrepareExistingRaisesStep, PrepareCandidateStep, StopBuildBudgetStep,
   BeginBuildStep, BuildRefusedStep, BuildRecordStep, BuildCommitStep, AfterFailedBuildStep,
   AfterBuildStep, ApplyRefusedStep, ApplyReplayedStep, ApplyOutcomeStep, ApplyRecordStep,
   AfterFailedApplyStep, FixStep
   DEF Command

LEMMA NextStep ==
    ASSUME TypeInv, CommandInv, RoundInv, Next
    PROVE  Kept /\ Grows /\ Moves /\ (ApplyCommit \/ row'.receipt = row.receipt)
<1>1. CASE \E subject \in Subjects : Resume(subject)
    BY <1>1, ResumeStep DEF Calm, Moves
<1>2. CASE \E subject \in Subjects : Start(subject)
    BY <1>2, StartStep DEF Moves
<1>3. CASE Command /\ ~ApplyCommit
    BY <1>3, CommandStep DEF Calm, Moves
<1>4. CASE ApplyCommit
    BY <1>4, ApplyCommitStep DEF Moves
<1>5. CASE ByHand
    BY <1>5, ByHandStep DEF Calm, Moves
<1>6. CASE Edit \/ WriteResult \/ WriteMathReview \/ ChangeBasis \/ Kill
    BY <1>6, SurroundingsStep DEF Calm, Moves
<1> QED
    BY <1>1, <1>2, <1>3, <1>4, <1>5, <1>6 DEF Next

(* Attempts are never rewritten, and a new one is the loop's or nobody's.  *)
LEMMA HistoryOnlyGrows ==
    ASSUME TypeInv, Grows
    PROVE  /\ \A i \in DOMAIN history : i \in DOMAIN history' /\ history'[i] = history[i]
           /\ \A i \in DOMAIN history' \ DOMAIN history : i = Len(history) + 1 /\ Fits(history'[i])
           /\ \A i \in DOMAIN history' : history'[i].round \in Nat /\ history'[i].loop \in Nat
<1>1. history \in Seq(Entries) /\ history' \in Seq(Entries)
    BY GrowsTyped DEF TypeInv
<1>2. \A i \in DOMAIN history' : history'[i] \in Entries
    BY <1>1
<1>3. \A i \in DOMAIN history' : history'[i].round \in Nat /\ history'[i].loop \in Nat
    BY <1>2 DEF Entries
<1>4. CASE history' = history
    BY <1>1, <1>3, <1>4
<1>5. CASE \E e \in Entries : Fits(e) /\ history' = Append(history, e)
    <2>1. PICK e \in Entries : Fits(e) /\ history' = Append(history, e)
        BY <1>5
    <2>2. /\ DOMAIN history = 1..Len(history) /\ Len(history) \in Nat
          /\ DOMAIN history' = 1..Len(history) + 1
          /\ history'[Len(history) + 1] = e
          /\ \A i \in 1..Len(history) : history'[i] = history[i]
        BY <1>1, <2>1
    <2>3. \A i \in DOMAIN history' \ DOMAIN history : i = Len(history) + 1
        BY <2>2
    <2> QED
        BY <1>3, <2>1, <2>2, <2>3
<1> QED
    BY <1>4, <1>5 DEF Grows

LEMMA LandedStays ==
    ASSUME TypeInv, Grows, NEW c, Landed(history, c)
    PROVE  Landed(history', c)
BY HistoryOnlyGrows DEF Landed

LEMMA RecordedStays ==
    ASSUME TypeInv, Grows, NEW n, Recorded(history, n)
    PROVE  Recorded(history', n)
BY HistoryOnlyGrows DEF Recorded

LEMMA RoundStep ==
    ASSUME TypeInv, RoundInv, Kept, Grows, Moves
    PROVE  RoundInv'
<1>1. /\ \A i \in DOMAIN history : i \in DOMAIN history' /\ history'[i] = history[i]
      /\ \A i \in DOMAIN history' \ DOMAIN history : i = Len(history) + 1 /\ Fits(history'[i])
      /\ \A i \in DOMAIN history' : history'[i].round \in Nat /\ history'[i].loop \in Nat
    BY HistoryOnlyGrows
<1>2. /\ row.loop.round \in Nat /\ row'.loop.round \in Nat /\ loops \in Nat /\ loops' \in Nat
      /\ loops <= loops'
    <2>1. row.loop.round \in Nat /\ loops \in Nat
        BY RoundTyped DEF TypeInv
    <2>2. row'.loop.round \in Nat
        BY DEF Kept, TypeInv, Rows, Loops
    <2> QED
        BY <2>1, <2>2 DEF Moves
<1>3. \A i \in DOMAIN history : history[i].loop <= loops /\ history[i].round \in Nat
                                /\ history[i].loop \in Nat
    BY <1>1 DEF RoundInv
<1>4. \A i \in DOMAIN history' : history'[i].loop <= loops'
    <2> TAKE i \in DOMAIN history'
    <2>1. CASE i \in DOMAIN history
        BY <1>1, <1>2, <1>3, <2>1
    <2>2. CASE i \notin DOMAIN history
        <3>1. Fits(history'[i])
            BY <1>1, <2>2
        <3> QED
            BY <1>2, <3>1 DEF Fits
    <2> QED
        BY <2>1, <2>2
<1>5. \E m \in Nat : \A i \in DOMAIN history' : history'[i].round <= m
    <2>1. PICK m \in Nat : \A i \in DOMAIN history : history[i].round <= m
        BY DEF RoundInv
    <2>2. \A i \in DOMAIN history' : history'[i].round <= m + row.loop.round
        <3> TAKE i \in DOMAIN history'
        <3>1. CASE i \in DOMAIN history
            <4>1. history'[i].round = history[i].round /\ history[i].round <= m
                BY <1>1, <2>1, <3>1
            <4> QED
                BY <1>2, <1>3, <2>1, <3>1, <4>1
        <3>2. CASE i \notin DOMAIN history
            <4>1. Fits(history'[i])
                BY <1>1, <3>2
            <4> QED
                BY <1>2, <2>1, <4>1 DEF Fits
        <3> QED
            BY <3>1, <3>2
    <2>3. m + row.loop.round \in Nat
        BY <1>2, <2>1
    <2> QED
        BY <2>2, <2>3
<1>6. ASSUME LoopActive', ~(loops' = loops + 1 /\ row'.loop.round = NextRound)
      PROVE  /\ loops # 0 /\ loops' = loops /\ row.loop.round # 0
             /\ LoopActive /\ row.loop.round <= row'.loop.round
    BY <1>6 DEF Moves, RoundInv
<1>7. loops' = loops + 1 /\ row'.loop.round = NextRound =>
         row'.loop.round # 0 /\ row.loop.round < row'.loop.round
         /\ \A i \in DOMAIN history : history[i].round < row'.loop.round
    BY NextRoundIsNew
<1>8. ASSUME LoopActive'
      PROVE  /\ loops' # 0 /\ row'.loop.round # 0
             /\ \A i \in DOMAIN history' : IF history'[i].loop = loops'
                                           THEN history'[i].round <= row'.loop.round
                                           ELSE history'[i].round < row'.loop.round
    <2>1. CASE loops' = loops + 1 /\ row'.loop.round = NextRound
        <3>1. loops' # 0 /\ row'.loop.round # 0
            BY <1>2, <1>7, <2>1
        <3>2. ASSUME NEW i \in DOMAIN history' PROVE history'[i].round < row'.loop.round
            <4>1. CASE i \in DOMAIN history
                BY <1>1, <1>7, <2>1, <4>1
            <4>2. CASE i \notin DOMAIN history
                <5>1. Fits(history'[i])
                    BY <1>1, <4>2
                <5> QED
                    BY <1>2, <1>7, <2>1, <3>1, <5>1 DEF Fits
            <4> QED
                BY <4>1, <4>2
        <3> QED
            BY <1>1, <1>2, <3>1, <3>2
    <2>2. CASE ~(loops' = loops + 1 /\ row'.loop.round = NextRound)
        <3>1. /\ loops # 0 /\ loops' = loops /\ row.loop.round # 0
              /\ LoopActive /\ row.loop.round <= row'.loop.round
            BY <1>6, <1>8, <2>2
        <3>2. ASSUME NEW i \in DOMAIN history'
              PROVE  IF history'[i].loop = loops'
                     THEN history'[i].round <= row'.loop.round
                     ELSE history'[i].round < row'.loop.round
            <4>1. CASE i \in DOMAIN history
                <5>1. IF history[i].loop = loops
                      THEN history[i].round <= row.loop.round
                      ELSE history[i].round < row.loop.round
                    BY <3>1, <4>1 DEF RoundInv
                <5> QED
                    BY <1>1, <1>2, <1>3, <3>1, <4>1, <5>1
            <4>2. CASE i \notin DOMAIN history
                <5>1. Fits(history'[i])
                    BY <1>1, <4>2
                <5> QED
                    BY <1>2, <3>1, <5>1 DEF Fits
            <4> QED
                BY <4>1, <4>2
        <3> QED
            BY <1>2, <3>1, <3>2
    <2> QED
        BY <2>1, <2>2
<1>9. RoundHasOneLoop'
    <2> SUFFICES ASSUME NEW i \in DOMAIN history', NEW j \in DOMAIN history',
                        history'[i].loop # 0, history'[j].loop # 0,
                        history'[i].round = history'[j].round
                 PROVE  history'[i].loop = history'[j].loop
        BY DEF RoundHasOneLoop
    <2>1. \A k \in DOMAIN history : \A n \in DOMAIN history' \ DOMAIN history :
             history'[n].loop # 0 /\ history'[n].round = history[k].round
                => history[k].loop = history'[n].loop
        <3> TAKE k \in DOMAIN history
        <3> TAKE n \in DOMAIN history' \ DOMAIN history
        <3> HAVE history'[n].loop # 0 /\ history'[n].round = history[k].round
        <3>1. LoopActive /\ history'[n].loop = loops /\ history'[n].round = row.loop.round
            BY <1>1 DEF Fits
        <3>2. IF history[k].loop = loops THEN history[k].round <= row.loop.round
                                         ELSE history[k].round < row.loop.round
            BY <3>1 DEF RoundInv
        <3> QED
            BY <1>2, <3>1, <3>2
    <2>2. CASE i \in DOMAIN history /\ j \in DOMAIN history
        BY <1>1, <2>2 DEF RoundInv, RoundHasOneLoop
    <2>3. CASE i \in DOMAIN history /\ j \notin DOMAIN history
        BY <1>1, <2>1, <2>3
    <2>4. CASE i \notin DOMAIN history /\ j \in DOMAIN history
        BY <1>1, <2>1, <2>4
    <2>5. CASE i \notin DOMAIN history /\ j \notin DOMAIN history
        <3>1. i = j
            BY <1>1, <2>5
        <3> QED
            BY <3>1
    <2> QED
        BY <2>2, <2>3, <2>4, <2>5
<1> QED
    BY <1>4, <1>5, <1>8, <1>9 DEF RoundInv

(* A draft is seeded only together with the attempt it answers.            *)
LEMMA SeedStep ==
    ASSUME TypeInv, SeededRepairIsRecorded, Next, Grows
    PROVE  SeededRepairIsRecorded'
<1>1. seed' = seed \/ (BackfillHistory(row.rep) /\ seed' = row.rep.n)
    <2>1. CASE Command
        <3>1. CASE SeedRepair \/ AfterFailedApply \/ Fix
            BY <3>1 DEF SeedRepair, AfterFailedApply, Fix, Seed
        <3>2. CASE ~(SeedRepair \/ AfterFailedApply \/ Fix)
            BY <2>1, <3>2
               DEF Command, StopMaxRounds, BeginApply, DropStaleRequest, HandToReviewer,
                   PrepareExisting, PrepareExistingRaises, PrepareCandidate, StopBuildBudget,
                   BeginBuild, BuildRefused, BuildRecord, BuildCommit, AfterFailedBuild,
                   AfterBuild, ApplyRefused, ApplyReplayed, ApplyOutcome, ApplyRecord, ApplyCommit
        <3> QED
            BY <3>1, <3>2
    <2>2. CASE ~Command
        BY <2>2 DEF Next, Resume, Start, ByHand, BuildByHand, ApplyByHand, ReviewByHand, FixByHand,
                    Abandon, Edit, WriteResult, WriteMathReview, ChangeBasis, Kill
    <2> QED
        BY <2>1, <2>2
<1>2. CASE seed' = seed
    BY <1>2, RecordedStays DEF SeededRepairIsRecorded
<1>3. CASE BackfillHistory(row.rep) /\ seed' = row.rep.n
    <2> DEFINE e == [stage |-> "semantic_review", code |-> row.rep.code, ok |-> FALSE,
                     kind |-> IF row.rep.verdict = "fail" THEN "fail" ELSE "inconclusive",
                     repair |-> row.rep.n, round |-> 0, loop |-> 0]
    <2>1. CASE Recorded(history, row.rep.n)
        BY <1>3, <2>1, RecordedStays DEF SeededRepairIsRecorded
    <2>2. CASE ~Recorded(history, row.rep.n)
        <3>1. history' = Append(history, e) /\ e.stage = "semantic_review" /\ e.repair = row.rep.n
            BY <1>3, <2>2 DEF BackfillHistory
        <3> HIDE DEF e
        <3>2. /\ Len(history) + 1 \in DOMAIN history'
              /\ history'[Len(history) + 1] = e
            BY <3>1 DEF TypeInv
        <3> QED
            BY <1>3, <3>1, <3>2 DEF SeededRepairIsRecorded, Recorded
    <2> QED
        BY <2>1, <2>2
<1> QED
    BY <1>1, <1>2, <1>3

(* Only a review-apply is in the middle of one.                            *)
LEMMA WhoApplies ==
    ASSUME Next, pc' \in {"applyRecord", "applyCommit"}
    PROVE  ApplyOutcome \/ ApplyRecord \/ UNCHANGED <<row, history, official, pc, command>>
<1>1. CASE Command
    <2>1. CASE StopMaxRounds \/ HandToReviewer \/ PrepareExisting \/ PrepareExistingRaises
               \/ PrepareCandidate \/ StopBuildBudget \/ AfterFailedBuild \/ AfterBuild
               \/ AfterFailedApply \/ ApplyReplayed \/ ApplyCommit
        BY <2>1 DEF StopMaxRounds, HandToReviewer, PrepareExisting, PrepareExistingRaises,
                    PrepareCandidate, StopBuildBudget, AfterFailedBuild, AfterBuild,
                    AfterFailedApply, ApplyReplayed, ApplyCommit, StopLoop, Return, NextIteration
    <2>2. CASE BeginApply \/ DropStaleRequest \/ SeedRepair \/ BeginBuild \/ BuildRefused
               \/ BuildRecord \/ BuildCommit \/ ApplyRefused \/ Fix
        BY <2>2 DEF BeginApply, DropStaleRequest, SeedRepair, BeginBuild, BuildRefused,
                    BuildRecord, BuildCommit, ApplyRefused, Fix
    <2> QED
        BY <1>1, <2>1, <2>2 DEF Command
<1>2. CASE ~Command
    BY <1>2 DEF Next, Resume, Start, StopLoop, Return, ByHand, Manual, BuildByHand, ApplyByHand,
                ReviewByHand, FixByHand, Abandon, Edit, WriteResult, WriteMathReview,
                ChangeBasis, Kill, world, command
<1> QED
    BY <1>1, <1>2

LEMMA ReceiptStep ==
    ASSUME TypeInv, CommandInv, RoundInv, ReceiptInv, Next, Grows
    PROVE  ReceiptInv'
<1>1. row'.receipt.code # None => Landed(history', row'.receipt.code)
    <2>1. CASE row'.receipt = row.receipt
        BY <2>1, LandedStays DEF ReceiptInv
    <2>2. CASE ApplyCommit /\ row'.receipt # row.receipt
        <3>1. outcome = "pass" /\ row'.receipt.code = code /\ pc = "applyCommit"
            BY <2>2, ApplyCommitStep DEF ApplyCommit
        <3>2. Landed(history, code)
            BY <3>1 DEF ReceiptInv
        <3> QED
            BY <3>1, <3>2, LandedStays
    <2> QED
        BY <2>1, <2>2, NextStep
<1>2. ASSUME pc' \in {"applyRecord", "applyCommit"}, outcome' = "pass"
      PROVE  /\ official' = code' /\ row'.status = "COMPLETED"
             /\ pc' = "applyCommit" => Landed(history', code')
    <2>1. CASE ApplyOutcome
        BY <1>2, <2>1, ApplyOutcomeStep DEF ApplyOutcome
    <2>2. CASE ApplyRecord
        <3>1. /\ pc = "applyRecord" /\ outcome = "pass" /\ UNCHANGED <<row, code, official>>
            BY <1>2, <2>2 DEF ApplyRecord, command, world
        <3>2. official = code /\ row.status = "COMPLETED"
            BY <3>1 DEF ReceiptInv
        <3>3. PICK kind, repair :
                 history' = Append(history, Attempt("semantic_review", code, outcome = "pass",
                                                    kind, repair))
            BY <2>2 DEF ApplyRecord
        <3> DEFINE e == Attempt("semantic_review", code, outcome = "pass", kind, repair)
        <3>4. e.stage = "semantic_review" /\ e.ok /\ e.code = code
            BY <3>1 DEF Attempt
        <3> HIDE DEF e
        <3>5. Len(history) + 1 \in DOMAIN history' /\ history'[Len(history) + 1] = e
            BY <3>3 DEF TypeInv, e
        <3>6. Landed(history', code')
            BY <3>1, <3>4, <3>5 DEF Landed
        <3> QED
            BY <3>1, <3>2, <3>6
    <2>3. CASE UNCHANGED <<row, history, official, pc, command>>
        BY <1>2, <2>3 DEF ReceiptInv, command, Landed
    <2> QED
        BY <1>2, <2>1, <2>2, <2>3, WhoApplies
<1> QED
    BY <1>1, <1>2 DEF ReceiptInv

-----------------------------------------------------------------------------
(* The invariants                                                          *)

LEMMA InvInitially == Init => IInv
<1> SUFFICES ASSUME Init PROVE IInv
    OBVIOUS
<1>1. NoLoop \in Loops /\ NoRequest \in Requests /\ NoRepair \in Repairs
    BY NoLoopTyped DEF Requests, Repairs
<1>2. NoReceipt \in [code : Texts \cup {None}, basis : Nat, post : Nat]
    BY DEF NoReceipt
<1>3. row \in Rows /\ row.rep = NoRepair /\ row.loop = NoLoop /\ row.receipt = NoReceipt
    BY <1>1, <1>2 DEF Init, Rows
<1>4. /\ history = << >> /\ history \in Seq(Entries) /\ DOMAIN history = {} /\ pc = "idle"
      /\ cmd = "none" /\ seed = 0 /\ latest = NoRepair /\ latest \in Repairs
    BY <1>1 DEF Init
<1>5. TypeInv
    BY <1>3, <1>4 DEF Init, TypeInv, Texts, Outcomes, Places
<1>6. CommandInv
    <2>1. ~NoLoop.enabled
        BY DEF NoLoop
    <2>2. ~LoopActive
        BY <1>3, <2>1 DEF LoopActive
    <2> QED
        BY <1>4, <2>2 DEF CommandInv
<1>7. RoundInv
    <2>1. ~NoLoop.enabled /\ 0 \in Nat
        BY DEF NoLoop
    <2>2. ~LoopActive
        BY <1>3, <2>1 DEF LoopActive
    <2>3. \E m \in Nat : \A i \in DOMAIN history : history[i].round <= m
        BY <1>4, <2>1
    <2> QED
        BY <1>4, <2>2, <2>3 DEF RoundInv, RoundHasOneLoop
<1>8. SeededRepairIsRecorded /\ ReceiptInv
    BY <1>3, <1>4 DEF SeededRepairIsRecorded, ReceiptInv, NoReceipt
<1> QED
    BY <1>5, <1>6, <1>7, <1>8 DEF IInv

LEMMA InvStep == IInv /\ [Next]_vars => IInv'
<1> SUFFICES ASSUME IInv, [Next]_vars PROVE IInv'
    OBVIOUS
<1> USE DEF IInv
<1>1. CASE Next
    <2>1. Kept /\ Grows /\ Moves
        BY <1>1, NextStep
    <2>2. RoundInv' /\ SeededRepairIsRecorded' /\ ReceiptInv'
        BY <1>1, <2>1, RoundStep, SeedStep, ReceiptStep
    <2> QED
        BY <2>1, <2>2 DEF Kept
<1>2. CASE UNCHANGED vars
    <2>1. TypeInv' /\ CommandInv'
        BY <1>2 DEF vars, TypeInv, CommandInv, LoopActive
    <2>2. RoundInv'
        BY <1>2 DEF vars, RoundInv, RoundHasOneLoop, LoopActive
    <2>3. SeededRepairIsRecorded' /\ ReceiptInv'
        BY <1>2 DEF vars, SeededRepairIsRecorded, Recorded, ReceiptInv, Landed
    <2> QED
        BY <2>1, <2>2, <2>3
<1> QED
    BY <1>1, <1>2

(* The invariant the others follow from holds in every reachable state.    *)
THEOREM Invariance == Spec => []IInv
BY InvInitially, InvStep, PTL DEF Spec

(* Every variable keeps the shape the code gives it, and no loop counts    *)
(* more rounds without progress than its limit.                            *)
THEOREM TypeCorrect == Spec => []TypeOK
<1>1. IInv => TypeOK
    <2> SUFFICES ASSUME IInv PROVE TypeOK
        OBVIOUS
    <2>1. TypeInv
        BY DEF IInv
    <2>2. row.loop \in Loops /\ row.req \in Requests /\ row.ready \in Texts \cup {None}
          /\ row.status \in {"PACKED", "FAILED_LOCAL", "COMPLETED"}
        BY <2>1 DEF TypeInv, Rows
    <2>3. /\ row.loop.phase \in Phases
          /\ row.loop.status \in {"", "active", "stopped", "completed"}
          /\ row.loop.reason \in Reasons
          /\ row.loop.round \in Nat /\ row.loop.nonprogress \in 0..NonprogressLimit
        BY <2>2 DEF Loops
    <2>4. row.req.code \in Codes \cup {None, Original}
        BY <2>2 DEF Requests, NoRequest, Texts
    <2>5. row.rep.n \in {0, latest.n}
        BY <2>1 DEF TypeInv, NoRepair
    <2> QED
        BY <2>1, <2>2, <2>3, <2>4, <2>5 DEF TypeInv, TypeOK, Texts
<1> QED
    BY <1>1, Invariance, PTL

(* The builds of a round all belong to one loop: no loop starts on a       *)
(* budget that another has used (_next_auto_loop_round).                   *)
THEOREM RoundsAreOneLoops == Spec => []RoundHasOneLoop
<1>1. IInv => RoundHasOneLoop
    BY DEF IInv, RoundInv
<1> QED
    BY <1>1, Invariance, PTL

(* A seeded draft answers a failure that the attempt history has, whatever *)
(* was killed in between (_load_current_review_repair_request).            *)
THEOREM SeededRepairsAreRecorded == Spec => []SeededRepairIsRecorded
<1>1. IInv => SeededRepairIsRecorded
    BY DEF IInv
<1> QED
    BY <1>1, Invariance, PTL

-----------------------------------------------------------------------------
(* What a step may not do                                                  *)

(* Only two steps of the loop can ask for the review of a candidate.       *)
LEMMA WhoAsks ==
    ASSUME TypeInv, CommandInv, Command, cmd = "auto", row.loop.phase # "entry",
           row'.req # row.req, row'.req.kind = "candidate"
    PROVE  AfterBuild
<1>1. row \in Rows /\ basis \in Nat
    BY DEF TypeInv
<1>2. NoRequest.kind # "candidate" /\ "official_output" # "candidate"
    BY DEF NoRequest
<1>3. CASE StopMaxRounds \/ StopBuildBudget
    BY <1>1, <1>3, Stops, ReasonsKnown DEF StopMaxRounds, StopBuildBudget
<1>4. CASE BeginApply \/ HandToReviewer \/ PrepareExistingRaises \/ BeginBuild
    <2>1. PICK phase \in Phases : StoreWith(InPhase(row, phase), draft)
        BY <1>4, PhasesKnown DEF BeginApply, HandToReviewer, PrepareExistingRaises, BeginBuild, Store
    <2> QED
        BY <1>1, <2>1, Goes
<1>5. CASE DropStaleRequest
    <2> DEFINE s == [row EXCEPT !.req = NoRequest]
    <2>1. s \in Rows /\ s.req = NoRequest
        BY <1>1 DEF Rows, Requests
    <2>2. StoreWith(InPhase(s, "entry"), draft)
        BY <1>5 DEF DropStaleRequest, Store
    <2> HIDE DEF s
    <2>3. LET q == InPhase(s, "entry") IN q \in Rows /\ Ledger(s, q)
        BY <2>1, InPhaseRow, PhasesKnown
    <2> QED
        BY <1>2, <2>1, <2>2, <2>3, StoreRow DEF Ledger
<1>6. CASE SeedRepair
    BY <1>1, <1>6, Seeds DEF SeedRepair
<1>7. CASE PrepareExisting \/ PrepareCandidate
    BY <1>7 DEF PrepareExisting, PrepareCandidate
<1>8. CASE BuildRefused
    BY <1>1, <1>8, Stores DEF BuildRefused, Store
<1>9. CASE BuildRecord \/ ApplyRefused \/ ApplyRecord
    BY <1>9 DEF BuildRecord, ApplyRefused, ApplyRecord
<1>10. CASE BuildCommit \/ ApplyCommit
    BY <1>2, <1>10, BuildCommitStep, ApplyCommitStep
<1>11. CASE AfterFailedBuild
    <2>1. CASE StopLoop(row, "build_budget_exhausted")
        BY <1>1, <2>1, Stops, ReasonsKnown
    <2>2. CASE StoreWith(InPhase(row, "authoring"), draft)
        BY <1>1, <2>2, Goes, PhasesKnown
    <2> QED
        BY <1>11, <2>1, <2>2 DEF AfterFailedBuild, Store
<1>12. CASE ApplyReplayed \/ ApplyOutcome
    BY <1>12, ApplyReplayedStep, ApplyOutcomeStep
<1>13. CASE AfterFailedApply
    BY <1>13, AfterFailedApplyStep
<1>14. CASE Fix
    BY <1>14 DEF Fix, CommandInv
<1> QED
    BY <1>3, <1>4, <1>5, <1>6, <1>7, <1>8, <1>9, <1>10, <1>11, <1>12, <1>13, <1>14 DEF Command

(* Once under way the loop never asks for a review of the candidate that   *)
(* the repair request in force rejected                                    *)
(* (_same_candidate_after_semantic_failure_detail).                        *)
THEOREM RejectedIsNotAskedAgain == Spec => NoReviewOfRejected
<1> DEFINE Step == cmd = "auto" /\ row.loop.phase # "entry"
                   /\ latest.verdict \in {"fail", "downgraded"}
                   /\ row'.req # row.req /\ row'.req.kind = "candidate"
                       => row'.req.code # latest.code
<1>1. IInv /\ [Next]_vars => [Step]_vars
    <2> SUFFICES ASSUME IInv, Next, cmd = "auto", row.loop.phase # "entry",
                        latest.verdict \in {"fail", "downgraded"},
                        row'.req # row.req, row'.req.kind = "candidate"
                 PROVE  row'.req.code # latest.code
        OBVIOUS
    <2>1. TypeInv /\ CommandInv
        BY DEF IInv
    <2>2. pc # "idle"
        BY <2>1 DEF CommandInv
    <2>3. Command
        BY <2>2 DEF Next, Resume, Start, ByHand, Manual, BuildByHand, ApplyByHand, ReviewByHand,
                    FixByHand, Abandon, Edit, WriteResult, WriteMathReview, ChangeBasis, Kill
    <2>4. AfterBuild
        BY <2>1, <2>3, WhoAsks
    <2>5. /\ code # FailedCode /\ row.ready # None
          /\ Store(Request(InPhase(row, "review_prepared"), "candidate", row.ready))
        <3>1. CASE /\ code # FailedCode /\ row.ready # None
                   /\ Store(Request(InPhase(row, "review_prepared"), "candidate", row.ready))
            BY <3>1
        <3>2. CASE \E reason \in Reasons : StopLoop(row, reason)
            BY <2>1, <3>2, Stops DEF TypeInv
        <3>3. CASE StoreWith(InPhase(row, "authoring"), draft)
            BY <2>1, <3>3, Goes, PhasesKnown DEF TypeInv
        <3> QED
            BY <2>4, <3>1, <3>2, <3>3, ReasonsKnown DEF AfterBuild, Store
    <2>6. row.ready = code
        BY <2>1, <2>4, <2>5 DEF AfterBuild, CommandInv
    <2>7. row'.req.code = row.ready
        <3>1. row \in Rows /\ basis \in Nat /\ row.ready \in Texts /\ "candidate" \in Kinds
            BY <2>1, <2>5 DEF TypeInv, Rows, Kinds
        <3>2. row'.req = [kind |-> "candidate", code |-> row.ready, basis |-> basis]
            BY <2>5, <3>1, Asks
        <3> QED
            BY <3>2
    <2>8. FailedCode = latest.code
        BY <2>1 DEF TypeInv, NoRepair, FailedCode
    <2> QED
        BY <2>5, <2>6, <2>7, <2>8
<1> QED
    BY <1>1, Invariance, PTL DEF Spec, NoReviewOfRejected

(* auto-loop says "completed" only when the canonical file is a candidate  *)
(* whose accepted review is in the attempt history.                        *)
THEOREM CompletedMeansApplied == Spec => CompletedIsApplied
<1> DEFINE Step == cmd = "auto" /\ ~Kill /\ pc' = "idle" /\ out' = "completed" =>
                      /\ row'.status = "COMPLETED"
                      /\ \E i \in DOMAIN history' :
                            /\ history'[i].stage = "semantic_review"
                            /\ history'[i].ok /\ history'[i].code = official'
<1>1. IInv /\ [Next]_vars => [Step]_vars
    <2> SUFFICES ASSUME IInv, Next, cmd = "auto", ~Kill, pc' = "idle", out' = "completed"
                 PROVE  row'.status = "COMPLETED" /\ Landed(history', official')
        BY DEF Landed
    <2>1. TypeInv /\ CommandInv /\ ReceiptInv
        BY DEF IInv
    <2>2. pc # "idle"
        BY <2>1 DEF CommandInv
    <2>3. Command
        BY <2>2 DEF Next, Resume, Start, ByHand, Manual, BuildByHand, ApplyByHand, ReviewByHand,
                    FixByHand, Abandon, Edit, WriteResult, WriteMathReview, ChangeBasis
    <2>4. ApplyReplayed \/ ApplyCommit
        <3>1. CASE BeginApply \/ DropStaleRequest \/ SeedRepair \/ BeginBuild
                   \/ BuildRecord \/ ApplyOutcome \/ ApplyRecord
            BY <3>1 DEF BeginApply, DropStaleRequest, SeedRepair, BeginBuild, BuildRecord,
                        ApplyOutcome, ApplyRecord
        <3>2. CASE BuildRefused \/ BuildCommit \/ ApplyRefused
            BY <3>2 DEF BuildRefused, BuildCommit, ApplyRefused
        <3>3. CASE StopMaxRounds \/ HandToReviewer \/ PrepareExistingRaises \/ StopBuildBudget
                   \/ AfterFailedBuild
            BY <3>3 DEF StopMaxRounds, HandToReviewer, PrepareExistingRaises, StopBuildBudget,
                        AfterFailedBuild, StopLoop, Return
        <3>4. CASE PrepareExisting \/ PrepareCandidate \/ AfterBuild
            BY <3>4 DEF PrepareExisting, PrepareCandidate, AfterBuild, StopLoop, Return
        <3>5. CASE AfterFailedApply
            BY <3>5 DEF AfterFailedApply, NextIteration, StopLoop, Return
        <3>6. CASE Fix
            BY <2>1, <3>6 DEF Fix, CommandInv
        <3> QED
            BY <2>3, <3>1, <3>2, <3>3, <3>4, <3>5, <3>6 DEF Command
    <2>5. CASE ApplyReplayed
        <3>1. row'.status = row.status /\ history' = history /\ official' = official
            BY <2>1, <2>5, ApplyReplayedStep DEF ApplyReplayed, world
        <3>2. ReplayMatches
            BY <2>5 DEF ApplyReplayed
        <3>3. /\ row.status = "COMPLETED" /\ official # None
              /\ row.receipt = [code |-> official, basis |-> row.req.basis, post |-> basis]
            BY <3>2 DEF ReplayMatches, AlreadyPromoted, HasOutput
        <3>4. row.receipt.code = official
            BY <3>3
        <3> QED
            BY <2>1, <3>1, <3>3, <3>4 DEF ReceiptInv
    <2>6. CASE ApplyCommit
        <3>1. pc = "applyCommit" /\ outcome = "pass" /\ UNCHANGED <<history, official>>
            BY <2>6 DEF ApplyCommit, world
        <3>2. row'.status = "COMPLETED"
            BY <2>1, <2>6, <3>1, ApplyCommitStep
        <3>3. official = code /\ Landed(history, code)
            BY <2>1, <3>1 DEF ReceiptInv
        <3> QED
            BY <3>1, <3>2, <3>3
    <2> QED
        BY <2>4, <2>5, <2>6
<1> QED
    BY <1>1, Invariance, PTL DEF Spec, CompletedIsApplied

-----------------------------------------------------------------------------
(* The failure budgets: what is counted in the attempt history             *)

(* One step of each of the two counts.                                     *)
Tally(stage, n, e) ==
    IF stage = "build" THEN IF e.stage = "build" /\ ~e.ok THEN n + 1 ELSE 0
    ELSE IF e.stage # "semantic_review" THEN n
         ELSE IF e.ok THEN 0
         ELSE IF e.kind \in {"fail", "inconclusive"} THEN n + 1 ELSE n

(* The recursion a fold over the attempts is defined by.                   *)
Recursion(stage, h, g) ==
    [s \in SUBSET DOMAIN h |-> IF s = {} THEN 0
                               ELSE Tally(stage, g[s \ {Max(s)}], h[Max(s)])]

(* The last of some attempts, which the fold takes away.                   *)
LEMMA LastOne ==
    ASSUME NEW n \in Nat, NEW s \in SUBSET (1..n), s # {}
    PROVE  Max(s) \in s /\ \A k \in s : k <= Max(s)
<1>1. s \subseteq Nat /\ \A k \in s : k <= n
    OBVIOUS
<1> QED
    BY <1>1, GreatestNumber

(* The recursion has a solution.                                           *)
LEMMA CountExists ==
    ASSUME NEW stage, NEW h, NEW n \in Nat, DOMAIN h = 1..n
    PROVE  \E g : g = Recursion(stage, h, g)
<1> DEFINE Upto(k) == SUBSET (1..k)
           Body(g, s) == IF s = {} THEN 0 ELSE Tally(stage, g[s \ {Max(s)}], h[Max(s)])
           stuck == {k \in 0..n : ~\E g : g = [s \in Upto(k) |-> Body(g, s)]}
<1>1. stuck = {}
    <2> SUFFICES ASSUME stuck # {} PROVE FALSE
        OBVIOUS
    <2>1. PICK k \in stuck : \A m \in stuck : k <= m
        <3>1. stuck \subseteq Nat
            OBVIOUS
        <3> HIDE DEF stuck
        <3> QED
            BY <3>1, LeastNumber
    <2>2. CASE k = 0
        <3> DEFINE g == [s \in Upto(0) |-> 0]
        <3>1. \A s \in Upto(0) : s = {}
            OBVIOUS
        <3>2. g = [s \in Upto(0) |-> Body(g, s)]
            BY <3>1
        <3> QED
            BY <2>1, <2>2, <3>2
    <2>3. CASE k # 0
        <3>1. k \in 1..n /\ k - 1 \in 0..n /\ k - 1 \notin stuck
            <4>1. k \in 0..n
                BY <2>1
            <4> HIDE DEF stuck
            <4> QED
                BY <2>1, <2>3, <4>1
        <3>2. PICK g : g = [s \in Upto(k - 1) |-> Body(g, s)]
            BY <3>1
        <3> DEFINE f == [s \in Upto(k) |-> Body(g, s)]
        <3>3. \A s \in Upto(k - 1) : s \in Upto(k) /\ f[s] = g[s]
            <4>1. \A s \in Upto(k - 1) : s \in Upto(k)
                BY <3>1
            <4>2. \A s \in Upto(k) : f[s] = Body(g, s)
                OBVIOUS
            <4>3. \A s \in Upto(k - 1) : g[s] = Body(g, s)
                BY <3>2
            <4> HIDE DEF f, Body, Upto
            <4> QED
                BY <4>1, <4>2, <4>3
        <3>4. \A s \in Upto(k) : s # {} => s \ {Max(s)} \in Upto(k - 1)
            <4> SUFFICES ASSUME NEW s \in Upto(k), s # {} PROVE s \ {Max(s)} \in Upto(k - 1)
                OBVIOUS
            <4>1. k \in Nat /\ s \in SUBSET (1..k)
                BY <3>1
            <4>2. Max(s) \in s /\ \A x \in s : x <= Max(s)
                BY <4>1, LastOne
            <4> DEFINE m == Max(s)
            <4>3. m \in s /\ \A x \in s : x <= m
                BY <4>2
            <4> HIDE DEF m
            <4>4. \A x \in s \ {m} : x \in 1..(k - 1)
                BY <4>1, <4>3
            <4>5. s \ {m} \in SUBSET (1..(k - 1))
                BY <4>4
            <4> QED
                BY <4>5 DEF m
        <3>5. \A s \in Upto(k) : Body(f, s) = Body(g, s)
            <4> HIDE DEF f
            <4> QED BY <3>3, <3>4
        <3>6. f = [s \in Upto(k) |-> Body(f, s)]
            BY <3>5
        <3> QED
            BY <2>1, <3>6
    <2> QED
        BY <2>2, <2>3
<1>2. \E g : g = [s \in Upto(n) |-> Body(g, s)]
    <2> HIDE DEF Body, Upto
    <2>1. n \in 0..n
        OBVIOUS
    <2> QED
        BY <1>1, <2>1
<1>3. Upto(n) = SUBSET DOMAIN h
    OBVIOUS
<1> QED
    BY <1>2, <1>3 DEF Recursion

(* A solution counts the attempts one after the other.                     *)
LEMMA CountSteps ==
    ASSUME NEW stage, NEW h, NEW n \in Nat, DOMAIN h = 1..n,
           NEW g, g = Recursion(stage, h, g)
    PROVE  g[1..0] = 0 /\ \A k \in 1..n : g[1..k] = Tally(stage, g[1..(k - 1)], h[k])
<1>1. g[1..0] = 0
    <2>1. 1..0 = {} /\ {} \in SUBSET DOMAIN h
        OBVIOUS
    <2> QED
        BY <2>1 DEF Recursion
<1>2. ASSUME NEW k \in 1..n PROVE g[1..k] = Tally(stage, g[1..(k - 1)], h[k])
    <2>1. 1..k \in SUBSET DOMAIN h /\ 1..k # {}
        OBVIOUS
    <2>2. Max(1..k) \in 1..k /\ \A j \in 1..k : j <= Max(1..k)
        BY <2>1, LastOne
    <2>3. Max(1..k) = k
        BY <2>2
    <2>4. (1..k) \ {k} = 1..(k - 1)
        OBVIOUS
    <2>5. g[1..k] = Tally(stage, g[(1..k) \ {Max(1..k)}], h[Max(1..k)])
        BY <2>1 DEF Recursion
    <2> QED
        BY <2>3, <2>4, <2>5
<1> QED
    BY <1>1, <1>2

(* The two counts of phase2_failure_budget, attempt by attempt.            *)
LEMMA Counted ==
    ASSUME NEW h, NEW n \in Nat, DOMAIN h = 1..n
    PROVE  /\ \E c : /\ BuildFailures(h) = c[n] /\ c[0] = 0
                     /\ \A k \in 1..n : c[k] = Tally("build", c[k - 1], h[k])
           /\ \E c : /\ ReviewFailures(h) = c[n] /\ c[0] = 0
                     /\ \A k \in 1..n : c[k] = Tally("review", c[k - 1], h[k])
<1> DEFINE iter(stage) == CHOOSE g : g = Recursion(stage, h, g)
           c(stage) == [k \in 0..n |-> iter(stage)[1..k]]
<1>1. BuildFailures(h) = iter("build")[1..n]
    BY DEF BuildFailures, FoldLeft, MapThenFoldSet, Recursion, Tally
<1>2. ReviewFailures(h) = iter("review")[1..n]
    BY DEF ReviewFailures, FoldLeft, MapThenFoldSet, Recursion, Tally
<1>3. ASSUME NEW stage
      PROVE  /\ c(stage)[n] = iter(stage)[1..n] /\ c(stage)[0] = 0
             /\ \A k \in 1..n : c(stage)[k] = Tally(stage, c(stage)[k - 1], h[k])
    <2>1. iter(stage) = Recursion(stage, h, iter(stage))
        BY CountExists
    <2> HIDE DEF iter
    <2>2. /\ iter(stage)[1..0] = 0
          /\ \A k \in 1..n : iter(stage)[1..k] = Tally(stage, iter(stage)[1..(k - 1)], h[k])
        BY <2>1, CountSteps
    <2>3. \A k \in 1..n : k \in 0..n /\ k - 1 \in 0..n
        OBVIOUS
    <2> QED
        BY <2>2, <2>3
<1> HIDE DEF iter, c
<1> QED
    BY <1>1, <1>2, <1>3

(* As many failed builds as are counted end the history, one by one.       *)
LEMMA BuildStreak ==
    ASSUME NEW h \in Seq(Entries)
    PROVE  /\ BuildFailures(h) \in 0..Len(h)
           /\ \A i \in Len(h) - BuildFailures(h) + 1 .. Len(h) : h[i].stage = "build" /\ ~h[i].ok
<1> DEFINE n == Len(h)
<1>1. n \in Nat /\ DOMAIN h = 1..n
    OBVIOUS
<1>2. PICK c : /\ BuildFailures(h) = c[n] /\ c[0] = 0
               /\ \A k \in 1..n : c[k] = Tally("build", c[k - 1], h[k])
    BY <1>1, Counted
<1> HIDE DEF n
<1> DEFINE Streak(k) == /\ c[k] \in 0..k
                        /\ \A i \in k - c[k] + 1 .. k : h[i].stage = "build" /\ ~h[i].ok
           bad == {k \in 0..n : ~Streak(k)}
<1>3. ASSUME NEW k \in 1..n, Streak(k - 1) PROVE Streak(k)
    <2>1. c[k] = IF h[k].stage = "build" /\ ~h[k].ok THEN c[k - 1] + 1 ELSE 0
        BY <1>2 DEF Tally
    <2>2. CASE h[k].stage = "build" /\ ~h[k].ok
        <3>1. c[k] = c[k - 1] + 1 /\ c[k - 1] \in 0..(k - 1) /\ c[k] \in 0..k
            BY <1>1, <1>3, <2>1, <2>2
        <3>2. ASSUME NEW i \in k - c[k] + 1 .. k PROVE h[i].stage = "build" /\ ~h[i].ok
            <4>1. i = k \/ i \in (k - 1) - c[k - 1] + 1 .. (k - 1)
                BY <1>1, <3>1
            <4> QED
                BY <1>3, <2>2, <4>1
        <3> QED
            BY <3>1, <3>2
    <2>3. CASE ~(h[k].stage = "build" /\ ~h[k].ok)
        <3>1. c[k] = 0
            BY <2>1, <2>3
        <3>2. c[k] \in 0..k /\ k - c[k] + 1 .. k = {}
            BY <1>1, <3>1
        <3> QED
            BY <3>2
    <2> QED
        BY <2>2, <2>3
<1>4. bad = {}
    <2> SUFFICES ASSUME bad # {} PROVE FALSE
        OBVIOUS
    <2>1. bad \subseteq Nat
        BY <1>1
    <2>2. PICK k \in bad : \A m \in bad : k <= m
        <3> HIDE DEF bad
        <3> QED
            BY <2>1, LeastNumber
    <2>3. k \in 0..n /\ ~Streak(k)
        OBVIOUS
    <2>4. k # 0
        <3>1. Streak(0)
            BY <1>2
        <3> QED
            BY <2>3, <3>1
    <2>5. k \in 1..n /\ k - 1 \in 0..n /\ k - 1 \notin bad
        <3>1. k \in 1..n /\ k - 1 \in 0..n /\ ~(k <= k - 1)
            BY <1>1, <2>3, <2>4
        <3> HIDE DEF bad
        <3> QED
            BY <2>2, <3>1
    <2>6. Streak(k - 1)
        BY <2>5
    <2> HIDE DEF Streak, bad
    <2> QED
        BY <1>3, <2>3, <2>5, <2>6
<1>5. Streak(n)
    <2>1. n \in 0..n
        BY <1>1
    <2> QED
        BY <1>4, <2>1
<1> QED
    BY <1>2, <1>5 DEF n

(* As many rejected reviews as are counted follow the last accepted one.   *)
LEMMA ReviewStreak ==
    ASSUME NEW h \in Seq(Entries)
    PROVE  /\ ReviewFailures(h) \in Nat
           /\ \E i \in 1..Len(h) + 1 :
                 /\ InARow(h, i, "semantic_review")
                 /\ ReviewFailures(h)
                       <= Cardinality({j \in i..Len(h) : h[j].kind \in {"fail", "inconclusive"}})
<1> DEFINE n == Len(h)
<1>1. n \in Nat /\ DOMAIN h = 1..n
    OBVIOUS
<1>2. PICK c : /\ ReviewFailures(h) = c[n] /\ c[0] = 0
               /\ \A k \in 1..n : c[k] = Tally("review", c[k - 1], h[k])
    BY <1>1, Counted
<1> HIDE DEF n
<1> DEFINE Rejected(i, k) == {j \in i..k : h[j].kind \in {"fail", "inconclusive"}}
           Since(i, k) == /\ \A j \in i..k : h[j].stage = "semantic_review" => ~h[j].ok
                          /\ c[k] <= Cardinality(Rejected(i, k))
           Streak(k) == c[k] \in Nat /\ \E i \in 1..k + 1 : Since(i, k)
           bad == {k \in 0..n : ~Streak(k)}
<1>3. \A i, k \in Nat : IsFiniteSet(Rejected(i, k)) /\ Cardinality(Rejected(i, k)) \in Nat
    <2> SUFFICES ASSUME NEW i \in Nat, NEW k \in Nat
                 PROVE  IsFiniteSet(Rejected(i, k)) /\ Cardinality(Rejected(i, k)) \in Nat
        OBVIOUS
    <2>1. IsFiniteSet(i..k) /\ Rejected(i, k) \subseteq i..k
        BY FS_Interval
    <2> HIDE DEF Rejected
    <2>2. IsFiniteSet(Rejected(i, k))
        BY <2>1, FS_Subset
    <2> QED
        BY <2>2, FS_CardinalityType
<1>4. ASSUME NEW k \in 1..n, Streak(k - 1) PROVE Streak(k)
    <2>1. PICK i \in 1..k : Since(i, k - 1)
        <3>1. PICK i \in 1..(k - 1) + 1 : Since(i, k - 1)
            BY <1>4
        <3>2. i \in 1..k
            BY <1>1, <3>1
        <3> HIDE DEF Since
        <3> QED
            BY <3>1, <3>2
    <2>2. c[k - 1] \in Nat /\ c[k] = Tally("review", c[k - 1], h[k])
        BY <1>2, <1>4
    <2>3. i \in Nat /\ k \in Nat /\ k - 1 \in Nat /\ i..k = i..(k - 1) \cup {k} /\ k \notin i..(k - 1)
        BY <1>1, <2>1
    <2>4. CASE h[k].stage = "semantic_review" /\ h[k].ok
        <3>1. c[k] = 0
            BY <2>2, <2>4 DEF Tally
        <3>2. (k + 1)..k = {} /\ k + 1 \in 1..k + 1 /\ k + 1 \in Nat
            BY <1>1
        <3>3. Cardinality(Rejected(k + 1, k)) \in Nat
            BY <1>3, <2>3, <3>2
        <3>4. Since(k + 1, k)
            <4> HIDE DEF Rejected
            <4> QED
                BY <3>1, <3>2, <3>3
        <3> HIDE DEF Since
        <3> QED
            BY <3>1, <3>2, <3>4
    <2>5. CASE ~(h[k].stage = "semantic_review" /\ h[k].ok)
        <3>1. \A j \in i..k : h[j].stage = "semantic_review" => ~h[j].ok
            BY <2>1, <2>3, <2>5
        <3>2. c[k - 1] <= Cardinality(Rejected(i, k - 1))
            BY <2>1
        <3>3. /\ IsFiniteSet(Rejected(i, k - 1)) /\ Cardinality(Rejected(i, k - 1)) \in Nat
              /\ IsFiniteSet(Rejected(i, k)) /\ Cardinality(Rejected(i, k)) \in Nat
            BY <1>3, <2>3
        <3>4. CASE h[k].stage = "semantic_review" /\ h[k].kind \in {"fail", "inconclusive"}
            <4>1. c[k] = c[k - 1] + 1
                BY <2>2, <2>5, <3>4 DEF Tally
            <4>2. Rejected(i, k) = Rejected(i, k - 1) \cup {k} /\ k \notin Rejected(i, k - 1)
                BY <2>3, <3>4
            <4> HIDE DEF Rejected
            <4>3. Cardinality(Rejected(i, k)) = Cardinality(Rejected(i, k - 1)) + 1
                BY <3>3, <4>2, FS_AddElement
            <4>4. c[k] \in Nat /\ c[k] <= Cardinality(Rejected(i, k))
                BY <2>2, <3>2, <3>3, <4>1, <4>3
            <4>5. Since(i, k) /\ i \in 1..k + 1
                BY <1>1, <3>1, <4>4
            <4> HIDE DEF Since
            <4> QED
                BY <4>4, <4>5
        <3>5. CASE ~(h[k].stage = "semantic_review" /\ h[k].kind \in {"fail", "inconclusive"})
            <4>1. c[k] = c[k - 1]
                BY <2>2, <2>5, <3>5 DEF Tally
            <4>2. Rejected(i, k - 1) \subseteq Rejected(i, k)
                BY <2>3
            <4> HIDE DEF Rejected
            <4>3. Cardinality(Rejected(i, k - 1)) <= Cardinality(Rejected(i, k))
                BY <3>3, <4>2, FS_Subset
            <4>4. c[k] \in Nat /\ c[k] <= Cardinality(Rejected(i, k))
                BY <2>2, <3>2, <3>3, <4>1, <4>3
            <4>5. Since(i, k) /\ i \in 1..k + 1
                BY <1>1, <3>1, <4>4
            <4> HIDE DEF Since
            <4> QED
                BY <4>4, <4>5
        <3> QED
            BY <3>4, <3>5
    <2> QED
        BY <2>4, <2>5
<1>5. Streak(0)
    <2> HIDE DEF Rejected
    <2>1. 1 \in 1..0 + 1 /\ 1..0 = {} /\ Cardinality(Rejected(1, 0)) \in Nat
        BY <1>3
    <2> HIDE DEF Rejected
    <2> QED
        BY <1>2, <2>1
<1>6. bad = {}
    <2> SUFFICES ASSUME bad # {} PROVE FALSE
        OBVIOUS
    <2> HIDE DEF Streak
    <2>1. bad \subseteq Nat
        BY <1>1
    <2>2. PICK k \in bad : \A m \in bad : k <= m
        <3> HIDE DEF bad
        <3> QED
            BY <2>1, LeastNumber
    <2>3. k \in 0..n /\ ~Streak(k)
        OBVIOUS
    <2>4. k # 0
        BY <1>5, <2>3
    <2>5. k \in 1..n /\ k - 1 \in 0..n /\ k - 1 \notin bad
        <3>1. k \in 1..n /\ k - 1 \in 0..n /\ ~(k <= k - 1)
            BY <1>1, <2>3, <2>4
        <3> HIDE DEF bad
        <3> QED
            BY <2>2, <3>1
    <2>6. Streak(k - 1)
        BY <2>5
    <2> HIDE DEF bad
    <2> QED
        BY <1>4, <2>3, <2>5, <2>6
<1>7. Streak(n)
    <2>1. n \in 0..n
        BY <1>1
    <2> HIDE DEF Streak
    <2> QED
        BY <1>6, <2>1
<1> QED
    BY <1>2, <1>7 DEF n, InARow

(* What writes the row keeps its status, unless it says otherwise.         *)
Alike(r, s) == DOMAIN s = DOMAIN r /\ s.status = r.status

(* Whatever changes the loop of a row, or its request.                     *)
LEMMA StatusKept ==
    ASSUME NEW r, "status" \in DOMAIN r
    PROVE  /\ \A phase : Alike(r, InPhase(r, phase))
           /\ \A reason : Alike(r, Stopped(r, reason))
           /\ Alike(r, Completed(r))
           /\ \A kind, subject : Alike(r, Request(r, kind, subject))
           /\ \A text : StoreWith(r, text) => Alike(r, row')
BY DEF Alike, InPhase, Stopped, Completed, Request, StoreWith

(* A row that was stored has the status of the row it was made of.         *)
LEMMA StatusStored ==
    ASSUME NEW r, "status" \in DOMAIN r, NEW s, Alike(r, s), NEW text, StoreWith(s, text)
    PROVE  row'.status = r.status
BY StatusKept DEF Alike

(* What the steps of the loop write has the status of the row they read.   *)
LEMMA StatusInLoop ==
    ASSUME NEW r, "status" \in DOMAIN r,
           \/ Store(r)
           \/ \E phase, text : StoreWith(InPhase(r, phase), text)
           \/ \E phase : Store(InPhase(r, phase))
           \/ \E reason : StopLoop(r, reason)
           \/ Store(Completed(r))
           \/ \E kind, subject : Store(Request(r, kind, subject))
           \/ \E phase, kind, subject : Store(Request(InPhase(r, phase), kind, subject))
    PROVE  row'.status = r.status
<1>1. ASSUME NEW phase, NEW text, StoreWith(InPhase(r, phase), text) PROVE row'.status = r.status
    BY <1>1, StatusKept, StatusStored
<1>2. ASSUME NEW reason, StopLoop(r, reason) PROVE row'.status = r.status
    BY <1>2, StatusKept, StatusStored DEF StopLoop, Store
<1>3. ASSUME NEW phase, NEW kind, NEW subject, Store(Request(InPhase(r, phase), kind, subject))
      PROVE  row'.status = r.status
    <2> DEFINE s == InPhase(r, phase)
    <2>1. Alike(r, s)
        BY StatusKept
    <2> HIDE DEF s
    <2> DEFINE q == Request(s, kind, subject)
    <2>2. Alike(s, q)
        BY <2>1, StatusKept DEF Alike
    <2>3. StoreWith(q, draft)
        BY <1>3 DEF Store, s
    <2> HIDE DEF q
    <2> QED
        BY <2>1, <2>2, <2>3, StatusStored DEF Alike
<1>4. ASSUME NEW kind, NEW subject, Store(Request(r, kind, subject)) PROVE row'.status = r.status
    BY <1>4, StatusKept, StatusStored DEF Store
<1>5. CASE Store(r) \/ Store(Completed(r))
    BY <1>5, StatusKept, StatusStored DEF Store, Alike
<1> QED
    BY <1>1, <1>2, <1>3, <1>4, <1>5 DEF Store

(* Only the ledger updates that end a build-check and a review-apply give  *)
(* a task another status, and the promotion of its candidate.              *)
LEMMA StatusStep ==
    ASSUME row \in Rows, Next, ~BuildCommit, ~ApplyCommit
    PROVE  row'.status \in {row.status, "COMPLETED"}
<1> DEFINE Same == row'.status = row.status
<1>0. "status" \in DOMAIN row
    BY DEF Rows
<1>1. CASE \E subject \in Subjects : Resume(subject)
    BY <1>0, <1>1, StatusInLoop DEF Resume
<1>2. CASE \E subject \in Subjects : Start(subject)
    <2>1. PICK l : LET r == [row EXCEPT !.loop = l]
                   IN  Store(r) \/ StopLoop(r, "freshness_error")
        <3>1. PICK subject \in Subjects : Start(subject)
            BY <1>2
        <3> QED
            BY <3>1 DEF Start
    <2> DEFINE r == [row EXCEPT !.loop = l]
    <2>2. Alike(row, r)
        BY <1>0 DEF Alike
    <2> HIDE DEF r
    <2>3. row'.status = r.status
        BY <1>0, <2>1, <2>2, StatusInLoop DEF Alike, r
    <2> QED
        BY <2>2, <2>3 DEF Alike
<1>3. CASE StopMaxRounds \/ BeginApply \/ HandToReviewer \/ PrepareExisting
           \/ PrepareExistingRaises \/ PrepareCandidate \/ StopBuildBudget \/ BeginBuild
    BY <1>0, <1>3, StatusInLoop
       DEF StopMaxRounds, BeginApply, HandToReviewer, PrepareExisting, PrepareExistingRaises,
           PrepareCandidate, StopBuildBudget, BeginBuild
<1>4. CASE BuildRefused \/ AfterFailedBuild \/ AfterBuild \/ ApplyReplayed
    BY <1>0, <1>4, StatusInLoop DEF BuildRefused, AfterFailedBuild, AfterBuild, ApplyReplayed
<1>5. CASE BuildRecord \/ ApplyRefused \/ ApplyRecord
    BY <1>5 DEF BuildRecord, ApplyRefused, ApplyRecord
<1>6. CASE DropStaleRequest
    <2> DEFINE r == [row EXCEPT !.req = NoRequest]
    <2>1. Alike(row, r)
        BY <1>0 DEF Alike
    <2>2. Store(InPhase(r, "entry"))
        BY <1>6 DEF DropStaleRequest
    <2> HIDE DEF r
    <2> QED
        BY <1>0, <2>1, <2>2, StatusInLoop DEF Alike
<1>7. CASE SeedRepair
    <2> DEFINE r == [row EXCEPT !.loop.lastRepair = row.rep.n]
    <2>1. Alike(row, r)
        BY <1>0 DEF Alike
    <2>2. StoreWith(InPhase(r, "repair_seeded"), row.rep.code)
        BY <1>7 DEF SeedRepair
    <2> HIDE DEF r
    <2> QED
        BY <1>0, <2>1, <2>2, StatusInLoop DEF Alike
<1>8. CASE ApplyOutcome
    BY <1>0, <1>8 DEF ApplyOutcome
<1>9. CASE AfterFailedApply
    <2>1. CASE \E reason : StopLoop(row, reason)
        BY <1>0, <2>1, StatusInLoop
    <2>2. CASE \E text : NextIteration(text)
        <3>1. PICK text : NextIteration(text)
            BY <2>2
        <3> DEFINE r == [row EXCEPT !.loop.lastCode = row.rep.code, !.loop.lastMark = Mark(row.rep),
                                    !.loop.nonprogress = Nonprogress]
                   s == [r EXCEPT !.loop.round = @ + 1]
        <3>2. Alike(row, r) /\ Alike(r, s)
            BY <1>0 DEF Alike
        <3>3. StoreWith(Stopped(r, "nonprogress"), text) \/ StoreWith(InPhase(s, "entry"), text)
            BY <3>1 DEF NextIteration
        <3> HIDE DEF r, s
        <3>4. "status" \in DOMAIN r /\ "status" \in DOMAIN s
            BY <1>0, <3>2 DEF Alike
        <3> QED
            BY <3>2, <3>3, <3>4, StatusKept, StatusStored DEF Alike
    <2> QED
        BY <1>9, <2>1, <2>2 DEF AfterFailedApply
<1>10. CASE Fix
    BY <1>0, <1>10, StatusKept DEF Fix, Store, Alike
<1>11. CASE BuildByHand \/ ReviewByHand
    BY <1>0, <1>11, StatusInLoop DEF BuildByHand, ReviewByHand
<1>12. CASE ApplyByHand \/ FixByHand
    BY <1>12 DEF ApplyByHand, FixByHand
<1>13. CASE Abandon
    <2> DEFINE r == [row EXCEPT !.rep = NoRepair]
    <2>1. Alike(row, r) /\ Store(r)
        BY <1>0, <1>13 DEF Alike, Abandon
    <2> HIDE DEF r
    <2> QED
        BY <1>0, <2>1, StatusInLoop DEF Alike
<1>14. CASE Edit \/ WriteResult \/ WriteMathReview \/ ChangeBasis \/ Kill
    BY <1>14 DEF Edit, WriteResult, WriteMathReview, ChangeBasis, Kill
<1> QED
    BY <1>1, <1>2, <1>3, <1>4, <1>5, <1>6, <1>7, <1>8, <1>9, <1>10, <1>11, <1>12, <1>13, <1>14
       DEF Next, Command, ByHand

(* A task becomes FAILED_LOCAL only after FailLimit failures in a row, by  *)
(* the attempt history: failed builds with nothing between them, or        *)
(* rejected reviews with no accepted one between them                      *)
(* (phase2_failure_budget).                                                *)
THEOREM FailedLocalMeansFailures == Spec => FailedLocalIsEarned
<1> DEFINE Builds == /\ Len(history) >= FailLimit
                     /\ \A i \in Len(history) - FailLimit + 1 .. Len(history) :
                           history[i].stage = "build" /\ ~history[i].ok
           Reviews == \E i \in DOMAIN history :
                         /\ InARow(history, i, "semantic_review")
                         /\ Cardinality({j \in i..Len(history) :
                                            history[j].kind \in {"fail", "inconclusive"}}) >= FailLimit
           Step == row.status # "FAILED_LOCAL" /\ row'.status = "FAILED_LOCAL" => Builds \/ Reviews
<1>1. FailLimit \in Nat \ {0}
    BY LimitsAssumption
<1>2. IInv /\ [Next]_vars => [Step]_vars
    <2> SUFFICES ASSUME IInv, Next, row.status # "FAILED_LOCAL", row'.status = "FAILED_LOCAL"
                 PROVE  Builds \/ Reviews
        OBVIOUS
    <2>1. row \in Rows /\ history \in Seq(Entries) /\ "status" \in DOMAIN row
        BY DEF IInv, TypeInv, Rows
    <2>2. BuildCommit \/ ApplyCommit
        BY <2>1, StatusStep
    <2>3. CASE BuildCommit
        <3> DEFINE ok == outcome = "built"
                   r == [row EXCEPT !.req = NoRequest, !.ready = IF ok THEN code ELSE @,
                           !.status = IF HasOutput THEN @
                                      ELSE IF ~ok /\ BuildFailures(history) >= FailLimit
                                      THEN "FAILED_LOCAL" ELSE "PACKED"]
        <3>1. StoreWith(r, draft)
            BY <2>3 DEF BuildCommit, Store
        <3>2. /\ "status" \in DOMAIN r
              /\ r.status = "FAILED_LOCAL" => BuildFailures(history) >= FailLimit
            BY <2>1
        <3> HIDE DEF r
        <3>3. BuildFailures(history) >= FailLimit
            BY <3>1, <3>2, StatusKept DEF Alike
        <3>4. /\ BuildFailures(history) \in 0..Len(history) /\ Len(history) \in Nat
              /\ \A i \in Len(history) - BuildFailures(history) + 1 .. Len(history) :
                    history[i].stage = "build" /\ ~history[i].ok
            BY <2>1, BuildStreak
        <3>5. Builds
            BY <1>1, <3>3, <3>4
        <3> QED
            BY <3>5
    <2>4. CASE ApplyCommit
        <3> DEFINE r == [AfterApply(row) EXCEPT !.status = StatusAfterApply]
        <3>1. Store(Completed(r)) \/ Store(r)
            BY <2>4 DEF ApplyCommit
        <3>2. "status" \in DOMAIN AfterApply(row)
            BY <2>1 DEF AfterApply, Released
        <3>3. "status" \in DOMAIN r /\ r.status = StatusAfterApply
            BY <3>2
        <3> HIDE DEF r
        <3>4. StatusAfterApply = "FAILED_LOCAL"
            BY <3>1, <3>3, StatusInLoop
        <3>5. ReviewFailures(history) >= FailLimit
            BY <3>4 DEF StatusAfterApply
        <3>6. PICK i \in 1..Len(history) + 1 :
                 /\ InARow(history, i, "semantic_review")
                 /\ ReviewFailures(history)
                       <= Cardinality({j \in i..Len(history) : history[j].kind \in {"fail", "inconclusive"}})
            BY <2>1, ReviewStreak
        <3> DEFINE R == {j \in i..Len(history) : history[j].kind \in {"fail", "inconclusive"}}
        <3>7. Len(history) \in Nat /\ ReviewFailures(history) \in Nat /\ DOMAIN history = 1..Len(history)
            BY <2>1, ReviewStreak
        <3>8. Cardinality(R) \in Nat
            <4>1. IsFiniteSet(i..Len(history)) /\ R \subseteq i..Len(history)
                BY <3>6, <3>7, FS_Interval
            <4> HIDE DEF R
            <4> QED
                BY <4>1, FS_Subset, FS_CardinalityType
        <3>9. Cardinality(R) >= FailLimit
            <4> HIDE DEF R
            <4>1. ReviewFailures(history) <= Cardinality(R)
                BY <3>6 DEF R
            <4> QED
                BY <1>1, <3>5, <3>7, <3>8, <4>1
        <3>10. R # {}
            <4> HIDE DEF R
            <4> QED
                BY <1>1, <3>8, <3>9, FS_EmptySet
        <3>11. i \in DOMAIN history
            BY <3>6, <3>7, <3>10
        <3>12. Reviews
            BY <3>6, <3>9, <3>11
        <3> QED
            BY <3>12
    <2> QED
        BY <2>2, <2>3, <2>4
<1> QED
    BY <1>2, Invariance, PTL DEF Spec, FailedLocalIsEarned

-----------------------------------------------------------------------------
(* What an accepted answer of a reviewer guarantees, for every request,    *)
(* every answer and every task: no bound on lists, consumers or classes.   *)

(* The task status is one of four.                                         *)
LEMMA StatusKinds ==
    ASSUME NEW t, NEW v, NEW classes
    PROVE  TaskStatus(t, v, classes) \in {"pass", "fail", "blocked", "allowed_exception"}
<1>1. CASE classes = {}
    BY <1>1 DEF TaskStatus
<1>2. CASE classes # {} /\ \E c \in classes : c.defect
    BY <1>2 DEF TaskStatus
<1>3. CASE classes # {} /\ (\A c \in classes : ~c.defect) /\ \E c \in classes : c.blocked
    BY <1>3 DEF TaskStatus
<1>4. CASE classes # {} /\ (\A c \in classes : ~c.defect) /\ \A c \in classes : ~c.blocked
    BY <1>4 DEF TaskStatus
<1> QED
    BY <1>1, <1>2, <1>3, <1>4

(* A task status "pass" is earned: the verdict is pass, no class names a   *)
(* defect or waits for a dependency, and every class is one the role of    *)
(* the task admits, or the task is an obligation child and every class is  *)
(* one a proof or a child may have.  So a bridge or a definition class     *)
(* completes no theorem.                                                   *)
THEOREM TaskPassIsEarned ==
    ASSUME NEW t, NEW v, NEW classes, TaskStatus(t, v, classes) = "pass"
    PROVE  /\ v = "pass" /\ classes # {}
           /\ \A c \in classes : ~c.defect /\ ~c.blocked
           /\ \/ \A c \in classes : c.passes = Role(t) /\ Role(t) # "unknown"
              \/ t.isChild /\ \A c \in classes : c.child \/ c.passes = "proof_bearing"
<1>1. classes # {}
    BY DEF TaskStatus
<1>2. \A c \in classes : ~c.defect
    BY <1>1 DEF TaskStatus
<1>3. \A c \in classes : ~c.blocked
    BY <1>1, <1>2 DEF TaskStatus
<1>4. v = "pass" /\ (ChildPass(t, classes) \/ \A c \in classes : FitsRole(t, c))
    BY <1>1, <1>2, <1>3 DEF TaskStatus
<1> QED
    BY <1>1, <1>2, <1>3, <1>4 DEF ChildPass, FitsRole

(* An outcome "pass", the only one that promotes, is the independent       *)
(* answer to this very request about exactly the bytes the request froze,  *)
(* and speaks for every evidence class and every direct consumer.          *)
THEOREM OnlyACoveredPassPromotes ==
    ASSUME NEW i, NEW r, NEW t, Outcome(i, r, t) = "pass"
    PROVE  /\ r.verdict = "pass" /\ Independent(r)
           /\ r.inputHash = i /\ r.candidateHash = i.candidate.lean
           /\ \A class \in i.basis.evidenceClasses :
                 Listed(r.evidence.items, class)
                 /\ LastOf(r.evidence.items, class).status \in Harmless
           /\ \A c \in i.basis.consumers :
                 Listed(r.downstream.checked, c)
                 /\ LastOf(r.downstream.checked, c).status # "blocked"
           /\ TaskStatus(t, "pass", Classes(r)) = "pass"
<1>1. Accepted(i, r)
    BY DEF Outcome
<1>2. r.verdict = "pass"
    BY <1>1 DEF Outcome
<1>3. TaskStatus(t, "pass", Classes(r)) = "pass"
    <2>1. TaskStatus(t, r.verdict, Classes(r)) \in {"pass", "fail", "blocked", "allowed_exception"}
        BY StatusKinds
    <2> QED
        BY <1>1, <1>2, <2>1 DEF Outcome
<1>4. Independent(r) /\ r.inputHash = i /\ r.candidateHash = i.candidate.lean
    BY <1>1 DEF Accepted, AnswersRequest, InputBound
<1>5. \A class \in i.basis.evidenceClasses :
          Listed(r.evidence.items, class) /\ LastOf(r.evidence.items, class).status \in Harmless
    BY <1>1, <1>2 DEF Accepted, EvidenceOk
<1>6. \A c \in i.basis.consumers :
          Listed(r.downstream.checked, c) /\ LastOf(r.downstream.checked, c).status # "blocked"
    BY <1>1, <1>2 DEF Accepted, ConsumersOk
<1> QED
    BY <1>2, <1>3, <1>4, <1>5, <1>6
=============================================================================
