-------------------------- MODULE ReviewApplyProofs --------------------------
(***************************************************************************)
(* What ReviewApply guarantees however many commands overlap and wherever  *)
(* they are killed: types, the canonical file, the evidence of an          *)
(* acceptance, and what the last comparison of revisions is good for; and  *)
(* what more holds of commands that come one at a time.                    *)
(***************************************************************************)
EXTENDS ReviewApply, TLAPS

InApply(p) == pc[p] \in {"validate", "note", "promote", "rebuild", "accept", "relabel",
                         "finish", "flag"}

(* A review-apply has an attempt; every command remembers a status.        *)
LocalInv ==
    \A p \in Procs : /\ InApply(p) => att[p] \in 1..Len(requests)
                     /\ pc[p] # "idle" => orig[p] \in Statuses

(* A command that is about to overwrite, or has built, holds a PASS.       *)
Holds(p) == pc[p] \in {"promote", "rebuild", "accept", "relabel"}
            \/ (pc[p] = "finish" /\ built[p])
PassInv == \A p \in Procs : Holds(p) => results[att[p]] = "pass"

(* An undo log, too, brings back only what was reviewed.                   *)
LogIsReviewed == log \in {None, NoFile, Original} \/ PassedFor(log)

(* A command whose revision is the stored one has the stored row.          *)
RevisionInv == \A p \in Procs : pc[p] # "idle" /\ p \notin stale => mem[p] = row

IInv ==
    /\ TypeOK /\ LocalInv /\ PassInv
    /\ CanonicalIsReviewed /\ LogIsReviewed
    /\ AcceptanceHasEvidence /\ RevisionInv

-----------------------------------------------------------------------------
(* The ledger row.                                                         *)

(* A transaction that stores a row leaves the ledger variables typed.      *)
LEMMA CommitTyped ==
    ASSUME TypeOK, NEW p \in Procs, NEW r \in Rows, Commit(p, r)
    PROVE  row' \in Rows /\ mem' \in [Procs -> Rows] /\ stale' \subseteq Procs
BY DEF TypeOK, Commit

(* Whoever commits has the stored row, and whoever does not is stale.      *)
LEMMA CommitRevision ==
    ASSUME TypeOK, RevisionInv, NEW p \in Procs, NEW r, Commit(p, r),
           \A q \in Procs \ {p} : pc'[q] = pc[q]
    PROVE  RevisionInv'
BY DEF TypeOK, Commit, RevisionInv

(* A review basis has the type of one.                                     *)
LEMMA BasisTyped ==
    ASSUME TypeOK, NEW d \in Deps, NEW r \in Rows
    PROVE  Basis(d, r) \in Bases
BY DEF TypeOK, Basis, Bases, Rows

(* The subject of a request is a file content.                             *)
LEMMA SubjectTyped ==
    ASSUME TypeOK, NEW a \in 1..Len(requests)
    PROVE  requests[a].subject \in Contents
<1>1. requests[a] \in Requests
    BY DEF TypeOK
<1> QED
    BY <1>1 DEF Requests

(* What recovery leaves on the canonical path.                             *)
LEMMA RecoveredReviewed ==
    ASSUME TypeOK, CanonicalIsReviewed, LogIsReviewed
    PROVE  /\ Recovered \in Contents \cup {NoFile}
           /\ Recovered \in {NoFile, Original} \/ PassedFor(Recovered)
BY DEF TypeOK, Recovered, CanonicalIsReviewed, LogIsReviewed

(* A step that leaves files and reviews alone and does not invent an       *)
(* acceptance keeps all that is said about them.                           *)
LEMMA EvidenceKept ==
    ASSUME IInv, row'.applied \in {None, row.applied},
           UNCHANGED <<canon, log, requests, results, receipts, reviews>>
    PROVE  CanonicalIsReviewed' /\ LogIsReviewed' /\ AcceptanceHasEvidence'
BY DEF IInv, CanonicalIsReviewed, LogIsReviewed, AcceptanceHasEvidence, PassedFor

(* A transaction on the task row that invents no acceptance.               *)
LEMMA LedgerStep ==
    ASSUME IInv, NEW p \in Procs, NEW r \in Rows, Commit(p, r),
           r.applied \in {None, row.applied},
           NEW l \in Labels, Goto(p, l),
           UNCHANGED <<reviews, files, cmd, tdeps, existing, cand, att, before>>,
           orig' \in [Procs -> Statuses \cup {None}], built' \in [Procs -> BOOLEAN]
    PROVE  /\ TypeOK' /\ RevisionInv'
           /\ CanonicalIsReviewed' /\ LogIsReviewed' /\ AcceptanceHasEvidence'
<1>1. TypeOK'
    BY CommitTyped DEF IInv, TypeOK, Goto, files
<1>2. RevisionInv'
    BY CommitRevision DEF IInv, TypeOK, Goto
<1>3. CanonicalIsReviewed' /\ LogIsReviewed' /\ AcceptanceHasEvidence'
    BY EvidenceKept DEF Commit, files
<1> QED
    BY <1>1, <1>2, <1>3

(* A command that ends or is killed keeps nothing.                         *)
LEMMA ForgetKeeps ==
    ASSUME IInv, NEW p \in Procs, Forget(p), UNCHANGED <<requests, results>>
    PROVE  /\ pc' \in [Procs -> Labels] /\ mem' \in [Procs -> Rows] /\ stale' \subseteq Procs
           /\ tdeps' \in [Procs -> Deps] /\ orig' \in [Procs -> Statuses \cup {None}]
           /\ existing' \in [Procs -> BOOLEAN] /\ built' \in [Procs -> BOOLEAN]
           /\ cand' \in [Procs -> Candidates \cup {None}]
           /\ att' \in [Procs -> 0..Len(requests)]
           /\ before' \in [Procs -> Contents \cup {NoFile, None}]
           /\ LocalInv' /\ PassInv' /\ RevisionInv'
<1> USE DEF IInv, TypeOK, Forget, Goto
<1>1. /\ pc' \in [Procs -> Labels] /\ mem' \in [Procs -> Rows] /\ stale' \subseteq Procs
      /\ tdeps' \in [Procs -> Deps] /\ orig' \in [Procs -> Statuses \cup {None}]
      /\ existing' \in [Procs -> BOOLEAN] /\ built' \in [Procs -> BOOLEAN]
      /\ cand' \in [Procs -> Candidates \cup {None}]
      /\ att' \in [Procs -> 0..Len(requests)]
      /\ before' \in [Procs -> Contents \cup {NoFile, None}]
    BY DEF Rows, Labels
<1>2. LocalInv' /\ PassInv'
    BY DEF LocalInv, PassInv, InApply, Holds
<1>3. RevisionInv'
    BY DEF RevisionInv
<1> QED
    BY <1>1, <1>2, <1>3

-----------------------------------------------------------------------------
(* The planned task, and the one imported with its output, have no review. *)
LEMMA Initial == Init => IInv
<1> SUFFICES ASSUME Init PROVE IInv
    OBVIOUS
<1> USE ConstantsAssumption DEF Init
<1>1. row \in Rows
  <2>1. PICK d \in Deps : \/ row = [NewRow EXCEPT !.deps = d]
                          \/ row = [NewRow EXCEPT !.deps = d, !.status = "COMPLETED"]
    OBVIOUS
  <2>2. 0 \in 0..MaxBuilds
    OBVIOUS
  <2>3. row = [status |-> row.status, ready |-> None, build |-> 0, deps |-> d,
               p2 |-> None, applied |-> None]
        /\ row.status \in {"DISCOVERED", "COMPLETED"}
    BY <2>1 DEF NewRow
  <2> HIDE DEF Init
  <2> QED
    BY <2>2, <2>3 DEF Rows, Statuses
<1>2. TypeOK
    BY <1>1 DEF TypeOK, Rows, Contents, Labels
<1>3. LocalInv /\ PassInv /\ RevisionInv
    BY DEF LocalInv, PassInv, RevisionInv, InApply, Holds
<1>4. CanonicalIsReviewed /\ LogIsReviewed
    BY DEF CanonicalIsReviewed, LogIsReviewed
<1>5. AcceptanceHasEvidence
    BY DEF AcceptanceHasEvidence, NewRow
<1> QED
    BY <1>2, <1>3, <1>4, <1>5 DEF IInv

(* Every step preserves the invariant: one step of the proof per action.   *)
LEMMA Inductive == IInv /\ [Next]_vars => IInv'
<1> SUFFICES ASSUME IInv, [Next]_vars PROVE IInv'
    OBVIOUS
<1> USE ConstantsAssumption
<1>1. ASSUME NEW p \in Procs, Start(p) PROVE IInv'
  <2>1. TypeOK'
    <3>1. row.status \in Statuses /\ row.deps \in Deps
      BY DEF IInv, TypeOK, Rows
    <3>2. \/ att' = att
          \/ \E a \in 1..Len(requests) : att' = [att EXCEPT ![p] = a]
      BY <1>1 DEF Start
    <3>3. pc' \in [Procs -> Labels]
      BY <1>1 DEF Start, Goto, IInv, TypeOK, Labels
    <3>4. att' \in [Procs -> 0..Len(requests)]
      <4>1. att \in [Procs -> 0..Len(requests)]
        BY DEF IInv, TypeOK
      <4>2. ASSUME NEW a \in 1..Len(requests), att' = [att EXCEPT ![p] = a]
            PROVE  att' \in [Procs -> 0..Len(requests)]
        <5>1. a \in 0..Len(requests)
          BY DEF IInv, TypeOK
        <5> QED
          BY <4>1, <4>2, <5>1
      <4> QED
        BY <3>2, <4>1, <4>2
    <3>5. mem' \in [Procs -> Rows] /\ stale' \subseteq Procs
      BY <1>1 DEF Start, IInv, TypeOK
    <3> QED
      BY <1>1, <3>1, <3>3, <3>4, <3>5 DEF Start, IInv, TypeOK, files
  <2>2. LocalInv' /\ PassInv'
    BY <1>1 DEF Start, Goto, IInv, TypeOK, LocalInv, PassInv, InApply, Holds, Rows, files
  <2>3. RevisionInv'
    BY <1>1 DEF Start, Goto, IInv, TypeOK, RevisionInv
  <2>4. CanonicalIsReviewed' /\ LogIsReviewed' /\ AcceptanceHasEvidence'
    BY <1>1, EvidenceKept DEF Start, files
  <2> QED
    BY <2>1, <2>2, <2>3, <2>4 DEF IInv
<1>2. ASSUME NEW p \in Procs, Register(p) PROVE IInv'
  <2>1. [row EXCEPT !.deps = tdeps[p]] \in Rows
    BY <1>2 DEF Register, IInv, TypeOK, Rows
  <2>2. /\ TypeOK' /\ RevisionInv'
        /\ CanonicalIsReviewed' /\ LogIsReviewed' /\ AcceptanceHasEvidence'
    BY <1>2, <2>1, LedgerStep DEF Register, Goto, Labels, Ended, IInv, TypeOK, Rows, files, local
  <2>3. LocalInv' /\ PassInv'
    BY <1>2 DEF Register, IInv, TypeOK, Goto, LocalInv, PassInv, InApply, Holds, Rows, files, local
  <2> QED
    BY <2>2, <2>3 DEF IInv
<1>3. ASSUME NEW p \in Procs, Sync(p) PROVE IInv'
  <2>1. CASE mem[p].ready \in {None, draft}
    <3>1. TypeOK' /\ LocalInv' /\ PassInv' /\ RevisionInv'
      BY <1>3, <2>1 DEF Sync, Goto, IInv, TypeOK, LocalInv, PassInv, RevisionInv, InApply, Holds,
                     Labels, files, local
    <3>2. CanonicalIsReviewed' /\ LogIsReviewed' /\ AcceptanceHasEvidence'
      BY <1>3, <2>1, EvidenceKept DEF Sync, files
    <3> QED
      BY <3>1, <3>2 DEF IInv
  <2>2. CASE mem[p].ready \notin {None, draft}
    <3>1. [row EXCEPT !.ready = None] \in Rows
      BY DEF IInv, TypeOK, Rows
    <3>2. /\ TypeOK' /\ RevisionInv'
          /\ CanonicalIsReviewed' /\ LogIsReviewed' /\ AcceptanceHasEvidence'
      BY <1>3, <2>2, <3>1, LedgerStep DEF Sync, Goto, Labels, IInv, TypeOK, Rows, files, local
    <3>3. LocalInv' /\ PassInv'
      BY <1>3 DEF Sync, IInv, TypeOK, Goto, LocalInv, PassInv, InApply, Holds, files, local
    <3> QED
      BY <3>2, <3>3 DEF IInv
  <2> QED
    BY <2>1, <2>2
<1>4. ASSUME NEW p \in Procs, BuildDraft(p) PROVE IInv'
  <2>1. TypeOK'
    BY <1>4, RecoveredReviewed DEF BuildDraft, Goto, IInv, TypeOK, Labels, ledger
  <2>2. LocalInv' /\ PassInv' /\ RevisionInv'
    BY <1>4 DEF BuildDraft, Goto, IInv, TypeOK, LocalInv, PassInv, RevisionInv, InApply, Holds,
             ledger
  <2>3. CanonicalIsReviewed' /\ LogIsReviewed'
    BY <1>4, RecoveredReviewed DEF BuildDraft, IInv, CanonicalIsReviewed, LogIsReviewed, PassedFor
  <2>4. AcceptanceHasEvidence'
    BY <1>4 DEF BuildDraft, IInv, AcceptanceHasEvidence, ledger
  <2> QED
    BY <2>1, <2>2, <2>3, <2>4 DEF IInv
<1>5. ASSUME NEW p \in Procs, RecordBuild(p) PROVE IInv'
  <2>1. [row EXCEPT !.build = @ + 1, !.ready = IF built[p] THEN cand[p] ELSE @] \in Rows
    <3>1. row.build + 1 \in 0..MaxBuilds
      BY <1>5 DEF RecordBuild, IInv, TypeOK, Rows
    <3>2. (IF built[p] THEN cand[p] ELSE row.ready) \in Candidates \cup {None}
      BY DEF IInv, TypeOK, Rows
    <3> QED
      BY <3>1, <3>2 DEF IInv, TypeOK, Rows
  <2>2. /\ TypeOK' /\ RevisionInv'
        /\ CanonicalIsReviewed' /\ LogIsReviewed' /\ AcceptanceHasEvidence'
    BY <1>5, <2>1, LedgerStep DEF RecordBuild, Goto, Labels, Ended, IInv, TypeOK, Rows, files, local
  <2>3. LocalInv' /\ PassInv'
    BY <1>5 DEF RecordBuild, IInv, TypeOK, Goto, LocalInv, PassInv, InApply, Holds, Rows, files, local
  <2> QED
    BY <2>2, <2>3 DEF IInv
<1>6. ASSUME NEW p \in Procs, RecordStatus(p) PROVE IInv'
  <2>1. PICK s \in Unaccepted :
          Commit(p, [row EXCEPT !.status = IF existing[p] THEN orig[p] ELSE s])
    BY <1>6 DEF RecordStatus
  <2>2. [row EXCEPT !.status = IF existing[p] THEN orig[p] ELSE s] \in Rows
    BY <1>6 DEF RecordStatus, IInv, TypeOK, LocalInv, Rows, Statuses
  <2>3. /\ TypeOK' /\ RevisionInv'
        /\ CanonicalIsReviewed' /\ LogIsReviewed' /\ AcceptanceHasEvidence'
    BY <1>6, <2>1, <2>2, LedgerStep DEF RecordStatus, Goto, Labels, Ended, IInv, TypeOK, Rows,
                                     files, local
  <2>4. LocalInv' /\ PassInv'
    BY <1>6 DEF RecordStatus, IInv, TypeOK, Goto, LocalInv, PassInv, InApply, Holds, files, local
  <2> QED
    BY <2>3, <2>4 DEF IInv
<1>7. ASSUME NEW p \in Procs, Request(p) PROVE IInv'
  <2>1. PICK q \in Requests : /\ requests' = Append(requests, q)
                              /\ results' = Append(results, "none")
    <3>1. Basis(tdeps[p], mem[p]) \in Bases
      BY BasisTyped DEF IInv, TypeOK
    <3> QED
      BY <1>7, <3>1 DEF Request, Requests, Contents, IInv, TypeOK, Rows
  <2>2. /\ Len(requests') = Len(requests) + 1 /\ Len(results') = Len(requests')
        /\ \A a \in 1..Len(requests) : requests'[a] = requests[a] /\ results'[a] = results[a]
    BY <2>1 DEF IInv, TypeOK
  <2>3. TypeOK'
    BY <1>7, <2>1, <2>2 DEF Request, Goto, IInv, TypeOK, Labels, ledger, local
  <2>4. LocalInv' /\ PassInv'
    BY <1>7, <2>2 DEF Request, Goto, IInv, TypeOK, LocalInv, PassInv, InApply, Holds, local
  <2>5. RevisionInv'
    BY <1>7 DEF Request, Goto, IInv, TypeOK, RevisionInv, ledger
  <2>6. CanonicalIsReviewed' /\ LogIsReviewed'
    BY <1>7, <2>2 DEF Request, IInv, TypeOK, CanonicalIsReviewed, LogIsReviewed, PassedFor
  <2>7. AcceptanceHasEvidence'
    BY <1>7, <2>2 DEF Request, IInv, TypeOK, AcceptanceHasEvidence, ledger
  <2> QED
    BY <2>3, <2>4, <2>5, <2>6, <2>7 DEF IInv
<1>8. ASSUME NEW p \in Procs, RequestRefused(p) PROVE IInv'
  <2>1. TypeOK' /\ LocalInv' /\ PassInv' /\ RevisionInv'
    BY <1>8 DEF RequestRefused, Goto, IInv, TypeOK, LocalInv, PassInv, RevisionInv, InApply, Holds,
             Labels, Ended, ledger, local, files
  <2>2. CanonicalIsReviewed' /\ LogIsReviewed' /\ AcceptanceHasEvidence'
    BY <1>8, EvidenceKept DEF RequestRefused, ledger, files
  <2> QED
    BY <2>1, <2>2 DEF IInv
<1>9. ASSUME NEW p \in Procs, Bind(p) PROVE IInv'
  <2>1. row \in Rows
    BY DEF IInv, TypeOK
  <2>2. /\ TypeOK' /\ RevisionInv'
        /\ CanonicalIsReviewed' /\ LogIsReviewed' /\ AcceptanceHasEvidence'
    BY <1>9, <2>1, LedgerStep DEF Bind, Touch, Goto, Labels, Ended, IInv, TypeOK, files, local
  <2>3. LocalInv' /\ PassInv'
    BY <1>9 DEF Bind, IInv, TypeOK, Goto, LocalInv, PassInv, InApply, Holds, files, local
  <2> QED
    BY <2>2, <2>3 DEF IInv
<1>10. ASSUME NEW p \in Procs, Validate(p) PROVE IInv'
  <2>1. TypeOK' /\ RevisionInv'
    BY <1>10 DEF Validate, Goto, IInv, TypeOK, RevisionInv, HasOutput, Labels, Ended, ledger, files
  <2>2. LocalInv' /\ PassInv'
    BY <1>10 DEF Validate, Goto, IInv, TypeOK, LocalInv, PassInv, InApply, Holds, Passed, files
  <2>3. CanonicalIsReviewed' /\ LogIsReviewed' /\ AcceptanceHasEvidence'
    BY <1>10, EvidenceKept DEF Validate, ledger, files
  <2> QED
    BY <2>1, <2>2, <2>3 DEF IInv
<1>11. ASSUME NEW p \in Procs, Note(p) PROVE IInv'
  <2>1. LocalInv' /\ PassInv'
    BY <1>11 DEF Note, IInv, TypeOK, Goto, LocalInv, PassInv, InApply, Holds, files
  <2>2. CASE Touch(p)
    <3>1. row \in Rows
      BY DEF IInv, TypeOK
    <3>2. /\ TypeOK' /\ RevisionInv'
          /\ CanonicalIsReviewed' /\ LogIsReviewed' /\ AcceptanceHasEvidence'
      BY <1>11, <2>2, <3>1, LedgerStep DEF Note, Touch, Goto, Labels, IInv, TypeOK, files
    <3> QED
      BY <2>1, <3>2 DEF IInv
  <2>3. CASE UNCHANGED <<row, mem, stale>>
    <3>1. TypeOK' /\ RevisionInv'
      BY <1>11, <2>3 DEF Note, Goto, IInv, TypeOK, RevisionInv, Labels, files
    <3>2. CanonicalIsReviewed' /\ LogIsReviewed' /\ AcceptanceHasEvidence'
      BY <1>11, <2>3, EvidenceKept DEF Note, files
    <3> QED
      BY <2>1, <3>1, <3>2 DEF IInv
  <2> QED
    BY <1>11, <2>2, <2>3 DEF Note
<1>12. ASSUME NEW p \in Procs, Promote(p) PROVE IInv'
  <2>1. /\ att[p] \in 1..Len(requests) /\ results[att[p]] = "pass"
        /\ Req(p).subject \in Contents
    <3>1. att[p] \in 1..Len(requests) /\ results[att[p]] = "pass"
      BY <1>12 DEF Promote, IInv, LocalInv, PassInv, InApply, Holds
    <3> QED
      BY <3>1, SubjectTyped DEF IInv, Req
  <2>2. TypeOK'
    BY <1>12, <2>1, RecoveredReviewed DEF Promote, AfterBuild, Goto, IInv, TypeOK, Labels, ledger
  <2>3. LocalInv' /\ PassInv' /\ RevisionInv'
    BY <1>12, <2>1 DEF Promote, Goto, IInv, TypeOK, LocalInv, PassInv, RevisionInv, InApply, Holds,
                   ledger
  <2>4. CanonicalIsReviewed' /\ LogIsReviewed'
    BY <1>12, <2>1, RecoveredReviewed
       DEF Promote, AfterBuild, Req, IInv, CanonicalIsReviewed, LogIsReviewed, PassedFor
  <2>5. AcceptanceHasEvidence'
    BY <1>12 DEF Promote, IInv, AcceptanceHasEvidence, ledger
  <2> QED
    BY <2>2, <2>3, <2>4, <2>5 DEF IInv
<1>13. ASSUME NEW p \in Procs, Rebuild(p) PROVE IInv'
  <2>1. TypeOK' /\ LocalInv' /\ PassInv' /\ RevisionInv'
    BY <1>13 DEF Rebuild, Goto, IInv, TypeOK, LocalInv, PassInv, RevisionInv, InApply, Holds,
             Labels, Ended, ledger, local, files
  <2>2. CanonicalIsReviewed' /\ LogIsReviewed' /\ AcceptanceHasEvidence'
    BY <1>13, EvidenceKept DEF Rebuild, ledger, files
  <2> QED
    BY <2>1, <2>2 DEF IInv
<1>14. ASSUME NEW p \in Procs, Accept(p) PROVE IInv'
  <2>1. [row EXCEPT !.status = "COMPLETED"] \in Rows
    BY <1>14 DEF Accept, IInv, TypeOK, Rows, Statuses
  <2>2. /\ TypeOK' /\ RevisionInv'
        /\ CanonicalIsReviewed' /\ LogIsReviewed' /\ AcceptanceHasEvidence'
    BY <1>14, <2>1, LedgerStep DEF Accept, Goto, Labels, Ended, IInv, TypeOK, Rows, files, local
  <2>3. LocalInv' /\ PassInv'
    BY <1>14 DEF Accept, IInv, TypeOK, Goto, LocalInv, PassInv, InApply, Holds, Rows, files, local
  <2> QED
    BY <2>2, <2>3 DEF IInv
<1>15. ASSUME NEW p \in Procs, Relabel(p) PROVE IInv'
  <2>1. row \in Rows
    BY DEF IInv, TypeOK
  <2>2. /\ TypeOK' /\ RevisionInv'
        /\ CanonicalIsReviewed' /\ LogIsReviewed' /\ AcceptanceHasEvidence'
    BY <1>15, <2>1, LedgerStep DEF Relabel, Touch, Goto, Labels, Ended, IInv, TypeOK, files, local
  <2>3. LocalInv' /\ PassInv'
    BY <1>15 DEF Relabel, IInv, TypeOK, Goto, LocalInv, PassInv, InApply, Holds, files, local
  <2> QED
    BY <2>2, <2>3 DEF IInv
<1>16. ASSUME NEW p \in Procs, FinishOk(p) PROVE IInv'
  <2>1. /\ att[p] \in 1..Len(requests) /\ results[att[p]] = "pass"
    BY <1>16 DEF FinishOk, IInv, LocalInv, PassInv, InApply, Holds
  <2> DEFINE r == [row EXCEPT !.status = "COMPLETED", !.p2 = "pass",
                              !.ready = IF IsCandidate(p) THEN None ELSE @]
             a == [att |-> att[p], post |-> Basis(tdeps[p], r)]
             s == [r EXCEPT !.applied = a]
  <2>2. Commit(p, s)
    BY <1>16 DEF FinishOk
  <2>3. r \in Rows
    BY DEF IInv, TypeOK, Rows, Statuses
  <2>4. a \in [att : 1..MaxReviews, post : Bases]
    <3>1. Basis(tdeps[p], r) \in Bases
      BY <2>3, BasisTyped DEF IInv, TypeOK
    <3>2. att[p] \in 1..MaxReviews
      BY <2>1 DEF IInv, TypeOK
    <3> QED
      BY <3>1, <3>2
  <2>5. s \in Rows /\ s.applied = a
    BY <2>3, <2>4 DEF Rows
  <2> HIDE DEF s
  <2>6. TypeOK'
    BY <1>16, <2>1, <2>2, <2>5, CommitTyped
       DEF FinishOk, WriteReceipt, Goto, IInv, TypeOK, Labels, Ended, local
  <2>7. LocalInv' /\ PassInv'
    BY <1>16 DEF FinishOk, Goto, IInv, TypeOK, LocalInv, PassInv, InApply, Holds, local
  <2>8. RevisionInv'
    BY <1>16, <2>2, CommitRevision DEF FinishOk, Goto, IInv, TypeOK
  <2>9. CanonicalIsReviewed' /\ LogIsReviewed'
    BY <1>16 DEF FinishOk, IInv, CanonicalIsReviewed, LogIsReviewed, PassedFor
  <2>10. AcceptanceHasEvidence'
    BY <1>16, <2>1, <2>2, <2>5 DEF FinishOk, WriteReceipt, Commit, IInv, AcceptanceHasEvidence
  <2> QED
    BY <2>6, <2>7, <2>8, <2>9, <2>10 DEF IInv
<1>17. ASSUME NEW p \in Procs, FinishFail(p) PROVE IInv'
  <2> DEFINE r(s) == [row EXCEPT
                        !.status = IF existing[p] \/ ~IsCandidate(p) THEN orig[p] ELSE s,
                        !.p2 = IF Passed(p) THEN "pass" ELSE "unclean"]
  <2>1. PICK s \in Unaccepted : Commit(p, r(s))
    BY <1>17 DEF FinishFail
  <2>2. orig[p] \in Statuses
    BY <1>17 DEF FinishFail, IInv, LocalInv
  <2>3. r(s) \in Rows
    BY <2>2 DEF IInv, TypeOK, Rows, Statuses
  <2>4. r(s).applied = row.applied
    BY DEF IInv, TypeOK, Rows
  <2> HIDE DEF r
  <2>5. /\ TypeOK' /\ RevisionInv'
        /\ CanonicalIsReviewed' /\ LogIsReviewed' /\ AcceptanceHasEvidence'
    BY <1>17, <2>1, <2>3, <2>4, LedgerStep
       DEF FinishFail, Goto, Labels, Ended, IInv, TypeOK, files, local
  <2>6. LocalInv' /\ PassInv'
    BY <1>17 DEF FinishFail, IInv, TypeOK, Goto, LocalInv, PassInv, InApply, Holds, files, local
  <2> QED
    BY <2>5, <2>6 DEF IInv
<1>18. ASSUME NEW p \in Procs, FinishRaises(p) PROVE IInv'
  <2>1. TypeOK' /\ LocalInv' /\ PassInv' /\ RevisionInv'
    BY <1>18 DEF FinishRaises, Goto, IInv, TypeOK, LocalInv, PassInv, RevisionInv, InApply, Holds,
             Labels, Ended, ledger, local, files
  <2>2. CanonicalIsReviewed' /\ LogIsReviewed' /\ AcceptanceHasEvidence'
    BY <1>18, EvidenceKept DEF FinishRaises, ledger, files
  <2> QED
    BY <2>1, <2>2 DEF IInv
<1>19. ASSUME NEW p \in Procs, Flag(p) PROVE IInv'
  <2>1. row \in Rows
    BY DEF IInv, TypeOK
  <2>2. /\ TypeOK' /\ RevisionInv'
        /\ CanonicalIsReviewed' /\ LogIsReviewed' /\ AcceptanceHasEvidence'
    BY <1>19, <2>1, LedgerStep DEF Flag, Touch, Goto, Labels, Ended, IInv, TypeOK, files, local
  <2>3. LocalInv' /\ PassInv'
    BY <1>19 DEF Flag, IInv, TypeOK, Goto, LocalInv, PassInv, InApply, Holds, files, local
  <2> QED
    BY <2>2, <2>3 DEF IInv
<1>20. ASSUME NEW p \in Procs, End(p) PROVE IInv'
  <2>1. TypeOK'
    BY <1>20, ForgetKeeps DEF End, Forget, IInv, TypeOK, files
  <2>2. LocalInv' /\ PassInv' /\ RevisionInv'
    BY <1>20, ForgetKeeps DEF End, files
  <2>3. CanonicalIsReviewed' /\ LogIsReviewed' /\ AcceptanceHasEvidence'
    BY <1>20, EvidenceKept DEF End, Forget, files
  <2> QED
    BY <2>1, <2>2, <2>3 DEF IInv
<1>21. ASSUME NEW p \in Procs, Kill(p) PROVE IInv'
  <2>1. TypeOK'
    BY <1>21, ForgetKeeps DEF Kill, Forget, IInv, TypeOK, files
  <2>2. LocalInv' /\ PassInv' /\ RevisionInv'
    BY <1>21, ForgetKeeps DEF Kill, files
  <2>3. CanonicalIsReviewed' /\ LogIsReviewed' /\ AcceptanceHasEvidence'
    BY <1>21, EvidenceKept DEF Kill, Forget, files
  <2> QED
    BY <2>1, <2>2, <2>3 DEF IInv
<1>22. ASSUME NEW p \in Procs, KillInPromotion(p) PROVE IInv'
  <2>1. /\ att[p] \in 1..Len(requests) /\ results[att[p]] = "pass"
        /\ Req(p).subject \in Contents
    <3>1. att[p] \in 1..Len(requests) /\ results[att[p]] = "pass"
      BY <1>22 DEF KillInPromotion, IInv, LocalInv, PassInv, InApply, Holds
    <3> QED
      BY <3>1, SubjectTyped DEF IInv, Req
  <2>2. TypeOK'
    BY <1>22, <2>1, ForgetKeeps, RecoveredReviewed DEF KillInPromotion, Forget, IInv, TypeOK
  <2>3. LocalInv' /\ PassInv' /\ RevisionInv'
    BY <1>22, ForgetKeeps DEF KillInPromotion
  <2>4. CanonicalIsReviewed' /\ LogIsReviewed'
    BY <1>22, <2>1, RecoveredReviewed
       DEF KillInPromotion, Req, IInv, CanonicalIsReviewed, LogIsReviewed, PassedFor
  <2>5. AcceptanceHasEvidence'
    BY <1>22 DEF KillInPromotion, Forget, IInv, AcceptanceHasEvidence
  <2> QED
    BY <2>2, <2>3, <2>4, <2>5 DEF IInv
<1>23. ASSUME NEW p \in Procs, KillBeforeCommit(p) PROVE IInv'
  <2>1. /\ att[p] \in 1..Len(requests) /\ results[att[p]] = "pass"
    BY <1>23 DEF KillBeforeCommit, IInv, LocalInv, PassInv, InApply, Holds
  <2>2. TypeOK'
    BY <1>23, <2>1, ForgetKeeps DEF KillBeforeCommit, WriteReceipt, Forget, IInv, TypeOK
  <2>3. LocalInv' /\ PassInv' /\ RevisionInv'
    BY <1>23, ForgetKeeps DEF KillBeforeCommit
  <2>4. CanonicalIsReviewed' /\ LogIsReviewed'
    BY <1>23 DEF KillBeforeCommit, IInv, CanonicalIsReviewed, LogIsReviewed, PassedFor
  <2>5. AcceptanceHasEvidence'
    BY <1>23, <2>1 DEF KillBeforeCommit, WriteReceipt, Forget, IInv, AcceptanceHasEvidence
  <2> QED
    BY <2>2, <2>3, <2>4, <2>5 DEF IInv
<1>24. ASSUME NEW p \in Procs, Reconcile(p) PROVE IInv'
  <2>1. PICK d \in Deps : Commit(p, Reconciled(d))
    BY <1>24 DEF Reconcile
  <2>2. Reconciled(d) \in Rows /\ Reconciled(d).applied = None
    BY DEF Reconciled, IInv, TypeOK, Rows, Statuses
  <2>3. TypeOK'
    BY <1>24, <2>1, <2>2, CommitTyped DEF Reconcile, IInv, TypeOK, files, local
  <2>4. LocalInv' /\ PassInv'
    BY <1>24 DEF Reconcile, IInv, LocalInv, PassInv, InApply, Holds, files, local
  <2>5. RevisionInv'
    BY <1>24, <2>1, CommitRevision DEF Reconcile, IInv
  <2>6. CanonicalIsReviewed' /\ LogIsReviewed' /\ AcceptanceHasEvidence'
    BY <1>24, <2>1, <2>2, EvidenceKept DEF Reconcile, Commit, files
  <2> QED
    BY <2>3, <2>4, <2>5, <2>6 DEF IInv
<1>25. ASSUME OtherTask PROVE IInv'
  <2>1. TypeOK' /\ LocalInv' /\ PassInv'
    BY <1>25 DEF OtherTask, IInv, TypeOK, LocalInv, PassInv, InApply, Holds, local
  <2>2. RevisionInv'
    BY <1>25 DEF OtherTask, IInv, RevisionInv
  <2>3. CanonicalIsReviewed' /\ LogIsReviewed' /\ AcceptanceHasEvidence'
    BY <1>25, EvidenceKept DEF OtherTask
  <2> QED
    BY <2>1, <2>2, <2>3 DEF IInv
<1>26. ASSUME AuthorEdits PROVE IInv'
  <2>1. TypeOK' /\ LocalInv' /\ PassInv' /\ RevisionInv'
    BY <1>26 DEF AuthorEdits, IInv, TypeOK, LocalInv, PassInv, RevisionInv, InApply, Holds,
             ledger, local
  <2>2. CanonicalIsReviewed' /\ LogIsReviewed' /\ AcceptanceHasEvidence'
    BY <1>26, EvidenceKept DEF AuthorEdits, ledger
  <2> QED
    BY <2>1, <2>2 DEF IInv
<1>27. ASSUME ReviewerAnswers PROVE IInv'
  <2>1. PICK b \in 1..Len(requests), v \in {"pass", "unclean"} :
          results[b] = "none" /\ results' = [results EXCEPT ![b] = v]
    BY <1>27 DEF ReviewerAnswers
  <2>2. /\ results' \in Seq({"none", "pass", "unclean"}) /\ Len(results') = Len(results)
        /\ \A a \in 1..Len(requests) : results[a] = "pass" => results'[a] = "pass"
    BY <2>1 DEF IInv, TypeOK
  <2>3. TypeOK'
    BY <1>27, <2>2 DEF ReviewerAnswers, IInv, TypeOK, ledger, local
  <2>4. LocalInv' /\ PassInv' /\ RevisionInv'
    BY <1>27, <2>2 DEF ReviewerAnswers, IInv, TypeOK, LocalInv, PassInv, RevisionInv, InApply, Holds,
                   ledger, local
  <2>5. CanonicalIsReviewed' /\ LogIsReviewed'
    BY <1>27, <2>2 DEF ReviewerAnswers, IInv, CanonicalIsReviewed, LogIsReviewed, PassedFor
  <2>6. AcceptanceHasEvidence'
    BY <1>27, <2>2 DEF ReviewerAnswers, IInv, TypeOK, AcceptanceHasEvidence, ledger
  <2> QED
    BY <2>3, <2>4, <2>5, <2>6 DEF IInv
<1>28. CASE UNCHANGED vars
  BY <1>28 DEF vars, IInv, TypeOK, LocalInv, PassInv, RevisionInv, InApply, Holds,
             CanonicalIsReviewed, LogIsReviewed, AcceptanceHasEvidence, PassedFor
<1> QED
    BY <1>1, <1>2, <1>3, <1>4, <1>5, <1>6, <1>7, <1>8, <1>9, <1>10, <1>11,
       <1>12, <1>13, <1>14, <1>15, <1>16, <1>17, <1>18, <1>19, <1>20, <1>21,
       <1>22, <1>23, <1>24, <1>25, <1>26, <1>27, <1>28
       DEF Next, BuildCheck, ReviewNow, Apply, Finish, Stop

-----------------------------------------------------------------------------
(* The invariant holds in every reachable state.                           *)
THEOREM Invariance == Spec => []IInv
BY Initial, Inductive, PTL DEF Spec

(* Every variable of the review workflow keeps its type.                   *)
THEOREM TypeCorrect == Spec => []TypeOK
<1>1. IInv => TypeOK
    BY DEF IInv
<1> QED
    BY <1>1, Invariance, PTL

(* However many commands overlap and wherever they are killed, the         *)
(* canonical file is the original or one that a reviewer passed.           *)
THEOREM OnlyReviewedLands == Spec => []CanonicalIsReviewed
<1>1. IInv => CanonicalIsReviewed
    BY DEF IInv
<1> QED
    BY <1>1, Invariance, PTL

(* An acceptance in the ledger row has its PASS, its review row and its    *)
(* receipt file, although no transaction covers the file.                  *)
THEOREM AcceptancesHaveEvidence == Spec => []AcceptanceHasEvidence
<1>1. IInv => AcceptanceHasEvidence
    BY DEF IInv
<1> QED
    BY <1>1, Invariance, PTL

(* The comparison of revisions in the last transaction of a review-apply   *)
(* is enough for it to start from the row its command has in memory.       *)
THEOREM AcceptancesSawTheRow == Spec => AcceptanceSawTheRow
<1> DEFINE A == \A p \in Procs : pc[p] = "finish" /\ pc'[p] = "applied" => mem[p] = row
<1>1. IInv /\ [Next]_vars => [A]_vars
  <2> SUFFICES ASSUME IInv, Next, NEW p \in Procs, pc[p] = "finish", pc'[p] = "applied"
               PROVE  mem[p] = row
      OBVIOUS
  <2>1. FinishOk(p)
    <3>1. PICK q \in Procs : \/ Start(q) \/ BuildCheck(q) \/ ReviewNow(q) \/ Apply(q) \/ Stop(q)
                            \/ Reconcile(q)
      BY DEF Next, OtherTask, AuthorEdits, ReviewerAnswers
    <3>2. q = p
      BY <3>1 DEF IInv, TypeOK, Start, BuildCheck, Register, Sync, BuildDraft, RecordBuild,
                  RecordStatus, ReviewNow, Request, RequestRefused, Bind, Apply, Validate, Note,
                  Promote, Rebuild, Accept, Relabel, Finish, FinishOk, FinishFail, FinishRaises,
                  Flag, Stop, End, Kill, KillInPromotion, KillBeforeCommit, Forget, Reconcile,
                  OtherTask, Goto
    <3> QED
      BY <3>1, <3>2 DEF IInv, TypeOK, Start, BuildCheck, Register, Sync, BuildDraft, RecordBuild,
                  RecordStatus, ReviewNow, Request, RequestRefused, Bind, Apply, Validate, Note,
                  Promote, Rebuild, Accept, Relabel, Finish, FinishFail, FinishRaises,
                  Flag, Stop, End, Kill, KillInPromotion, KillBeforeCommit, Forget, Reconcile,
                  OtherTask, Goto
  <2> QED
      BY <2>1 DEF FinishOk, RevisionHolds, IInv, RevisionInv
<1> QED
    BY <1>1, Invariance, PTL DEF Spec, AcceptanceSawTheRow
-----------------------------------------------------------------------------
(* Commands of one task that do not overlap.                               *)

(* The task's commands come one at a time, while commands of other tasks   *)
(* may come between at any moment.                                         *)
Alone == \A p, q \in Procs : p = q

Validated(p) == pc[p] \in {"note", "promote", "rebuild", "accept", "relabel", "finish"}

(* A command has the stored row, and the request that a review-apply has   *)
(* found fresh is for the dependencies and builds in it.                   *)
FreshInv ==
    /\ \A p \in Procs : mem[p] = row
    /\ \A p \in Procs : pc[p] # "idle" => tdeps[p] = row.deps
    /\ \A p \in Procs : Validated(p) => Req(p).basis.deps = row.deps
                                        /\ Req(p).basis.build = row.build
    /\ AcceptedForCurrentDeps

(* Only a promotion overwrites the canonical file, and where its build has *)
(* failed the file is back.                                                *)
RestoreInv ==
    /\ \A p \in Procs :
          /\ before[p] # None => /\ att[p] \in 1..Len(requests)
                                 /\ pc[p] \in {"accept", "relabel", "finish", "flag", "failed", "applied"}
          /\ pc[p] \in {"accept", "relabel"} => built[p]
          /\ pc[p] = "flag" \/ (pc[p] = "finish" /\ ~built[p]) =>
                before[p] \in {None, canon}
    /\ UncontestedFailureRestores

(* Every request that was made stays as it was.                            *)
LEMMA RequestsStay ==
    ASSUME IInv, [Next]_vars
    PROVE  /\ Len(requests) \in Nat
           /\ \A a \in 1..Len(requests) : a \in 1..Len(requests') /\ requests'[a] = requests[a]
<1>1. Len(requests) \in Nat /\ requests \in Seq(Requests)
    BY DEF IInv, TypeOK
<1>2. CASE UNCHANGED requests
    BY <1>1, <1>2
<1>3. CASE \E p \in Procs : Request(p)
    <2>1. PICK q : requests' = Append(requests, q)
        BY <1>3 DEF Request
    <2>2. /\ Len(requests') = Len(requests) + 1
          /\ \A a \in 1..Len(requests) : requests'[a] = requests[a]
        <3>1. requests \in Seq(Requests \cup {q})
            BY <1>1
        <3> QED
            BY <2>1, <3>1
    <2> QED
        BY <1>1, <2>2
<1> QED
    BY <1>1, <1>2, <1>3
    DEF Next, Start, BuildCheck, Register, Sync, BuildDraft, RecordBuild, RecordStatus,
        ReviewNow, RequestRefused, Bind, Apply, Validate, Note, Promote, Rebuild, Accept, Relabel,
        Finish, FinishOk, FinishFail, FinishRaises, Flag, Stop, End, Kill, KillInPromotion,
        KillBeforeCommit, Reconcile, OtherTask, AuthorEdits, ReviewerAnswers, vars, files

(* A step that keeps the acceptance and what it was for.                   *)
LEMMA FreshKept ==
    ASSUME IInv, FreshInv, [Next]_vars, row'.deps = row.deps, row'.applied = row.applied,
           \A p \in Procs :
              /\ mem'[p] = row'
              /\ pc'[p] # "idle" => pc[p] # "idle" /\ tdeps'[p] = tdeps[p]
              /\ Validated(p)' => Validated(p) /\ att'[p] = att[p] /\ row'.build = row.build
    PROVE  FreshInv'
<1>1. ASSUME NEW p \in Procs, Validated(p)'
      PROVE  Req(p)'.basis.deps = row'.deps /\ Req(p)'.basis.build = row'.build
    <2>1. Validated(p) /\ att'[p] = att[p] /\ row'.build = row.build
        BY <1>1
    <2>2. att[p] \in 1..Len(requests)
        BY <2>1 DEF Validated, IInv, LocalInv, InApply
    <2>3. Req(p)' = Req(p)
        BY <2>1, <2>2, RequestsStay DEF Req
    <2> QED
        BY <2>1, <2>3 DEF FreshInv
<1>2. AcceptedForCurrentDeps'
    <2> SUFFICES ASSUME row.applied # None
                 PROVE  requests'[row.applied.att].basis.deps = row.deps
        BY DEF AcceptedForCurrentDeps
    <2>1. row.applied.att \in 1..Len(requests)
        BY DEF IInv, TypeOK, AcceptanceHasEvidence
    <2> QED
        BY <2>1, RequestsStay DEF FreshInv, AcceptedForCurrentDeps
<1>3. \A p \in Procs : mem'[p] = row' /\ (pc'[p] # "idle" => tdeps'[p] = row'.deps)
    BY DEF FreshInv
<1> QED
    BY <1>1, <1>2, <1>3 DEF FreshInv

(* Each step keeps the row, the commands and the reviews together.         *)
LEMMA FreshStep ==
    ASSUME Alone, IInv, FreshInv, [Next]_vars
    PROVE  FreshInv'
<1>0. /\ row \in Rows /\ pc \in [Procs -> Labels] /\ mem \in [Procs -> Rows]
      /\ tdeps \in [Procs -> Deps] /\ att \in [Procs -> 0..Len(requests)]
    BY DEF IInv, TypeOK
<1>a. ASSUME NEW r \in Rows, NEW p \in Procs, Commit(p, r)
      PROVE  \A q \in Procs : mem'[q] = row'
    BY <1>0, <1>a DEF Commit, Alone
<1>1. ASSUME NEW p \in Procs, Start(p) PROVE FreshInv'
    <2>1. /\ \A q \in Procs : mem'[q] = row' /\ tdeps'[q] = row'.deps /\ ~Validated(q)'
          /\ row' = row /\ requests' = requests
        BY <1>0, <1>1 DEF Start, Goto, Validated, Alone, files
    <2> QED
        BY <2>1 DEF FreshInv, AcceptedForCurrentDeps
<1>2. ASSUME NEW p \in Procs, Register(p) PROVE FreshInv'
    <2>1. row' = [row EXCEPT !.deps = tdeps[p]] /\ tdeps[p] = row.deps /\ mem'[p] = row'
        BY <1>0, <1>2 DEF Register, Commit, FreshInv
    <2>2. row'.deps = row.deps /\ row'.applied = row.applied
        BY <1>0, <2>1 DEF Rows
    <2>3. /\ \A q \in Procs : mem'[q] = row' /\ pc[q] # "idle" /\ ~Validated(q)'
          /\ tdeps' = tdeps
        BY <1>0, <1>2, <2>1 DEF Register, Goto, Validated, Alone
    <2> QED
        BY <2>2, <2>3, FreshKept
<1>3. ASSUME NEW p \in Procs, Sync(p) PROVE FreshInv'
    <2>1. row'.deps = row.deps /\ row'.applied = row.applied /\ mem'[p] = row'
        BY <1>0, <1>3 DEF Sync, Commit, FreshInv, Rows
    <2>2. /\ \A q \in Procs : mem'[q] = row' /\ pc[q] # "idle" /\ ~Validated(q)'
          /\ tdeps' = tdeps
        BY <1>0, <1>3, <2>1 DEF Sync, Goto, Validated, Alone, local
    <2> QED
        BY <2>1, <2>2, FreshKept
<1>4. ASSUME NEW p \in Procs, BuildDraft(p) \/ Request(p) \/ RequestRefused(p) PROVE FreshInv'
    <2>1. row' = row /\ mem' = mem /\ tdeps' = tdeps
        BY <1>4 DEF BuildDraft, Request, RequestRefused, ledger, local
    <2>2. \A q \in Procs : pc[q] # "idle" /\ ~Validated(q)'
        BY <1>0, <1>4 DEF BuildDraft, Request, RequestRefused, Goto, Validated, Alone
    <2> QED
        BY <2>1, <2>2, FreshKept DEF FreshInv
<1>5. ASSUME NEW p \in Procs, RecordBuild(p) PROVE FreshInv'
    <2>1. row'.deps = row.deps /\ row'.applied = row.applied /\ mem'[p] = row'
        BY <1>0, <1>5 DEF RecordBuild, Commit, Rows
    <2>2. /\ \A q \in Procs : mem'[q] = row' /\ pc[q] # "idle" /\ ~Validated(q)'
          /\ tdeps' = tdeps
        BY <1>0, <1>5, <2>1 DEF RecordBuild, Goto, Validated, Alone, local
    <2> QED
        BY <2>1, <2>2, FreshKept
<1>6. ASSUME NEW p \in Procs, RecordStatus(p) \/ Bind(p) \/ Flag(p) PROVE FreshInv'
    <2>1. row'.deps = row.deps /\ row'.applied = row.applied /\ mem'[p] = row'
        BY <1>0, <1>6 DEF RecordStatus, Bind, Flag, Touch, Commit, Rows
    <2>2. /\ \A q \in Procs : mem'[q] = row' /\ pc[q] # "idle" /\ ~Validated(q)'
          /\ tdeps' = tdeps
        BY <1>0, <1>6, <2>1 DEF RecordStatus, Bind, Flag, Goto, Validated, Alone, local
    <2> QED
        BY <2>1, <2>2, FreshKept
<1>7. ASSUME NEW p \in Procs, Validate(p) PROVE FreshInv'
    <2>1. UNCHANGED <<row, mem, requests, tdeps, att>> /\ pc[p] = "validate"
        BY <1>7 DEF Validate, ledger, files
    <2>2. ASSUME Validated(p)'
          PROVE  Req(p).basis.deps = row.deps /\ Req(p).basis.build = row.build
        <3>1. Fresh(p) /\ ~Promoted(p)
            BY <1>0, <1>7, <2>2 DEF Validate, Goto, Validated
        <3>2. Req(p).basis = Basis(tdeps[p], mem[p])
            BY <3>1 DEF Fresh
        <3>3. tdeps[p] = row.deps /\ mem[p] = row
            BY <2>1 DEF FreshInv
        <3> QED
            BY <3>2, <3>3 DEF Basis
    <2>3. \A q \in Procs : q = p
        BY DEF Alone
    <2> QED
        BY <2>1, <2>2, <2>3 DEF FreshInv, AcceptedForCurrentDeps, Req
<1>8. ASSUME NEW p \in Procs, Note(p) \/ Accept(p) \/ Relabel(p) PROVE FreshInv'
    <2>1. /\ row'.deps = row.deps /\ row'.applied = row.applied /\ row'.build = row.build
          /\ mem'[p] = row'
        BY <1>0, <1>8 DEF Note, Accept, Relabel, Touch, Commit, FreshInv, Rows
    <2>2. /\ \A q \in Procs : mem'[q] = row' /\ pc[q] # "idle" /\ Validated(q)
          /\ tdeps' = tdeps /\ att' = att
        BY <1>0, <1>8, <2>1 DEF Note, Accept, Relabel, Validated, Alone, local
    <2> QED
        BY <2>1, <2>2, FreshKept
<1>9. ASSUME NEW p \in Procs, Promote(p) \/ Rebuild(p) \/ FinishRaises(p) PROVE FreshInv'
    <2>1. row' = row /\ mem' = mem /\ tdeps' = tdeps /\ att' = att
        BY <1>9 DEF Promote, Rebuild, FinishRaises, ledger, local
    <2>2. \A q \in Procs : pc[q] # "idle" /\ Validated(q)
        BY <1>0, <1>9 DEF Promote, Rebuild, FinishRaises, Validated, Alone
    <2> QED
        BY <2>1, <2>2, FreshKept DEF FreshInv
<1>10. ASSUME NEW p \in Procs, FinishOk(p) PROVE FreshInv'
    <2> DEFINE r == [row EXCEPT !.status = "COMPLETED", !.p2 = "pass",
                                !.ready = IF IsCandidate(p) THEN None ELSE @]
               a == [att |-> att[p], post |-> Basis(tdeps[p], r)]
    <2>1. /\ row' = [r EXCEPT !.applied = a] /\ mem'[p] = row'
          /\ UNCHANGED <<tdeps, requests>> /\ pc[p] = "finish" /\ pc'[p] = "applied"
        BY <1>0, <1>10 DEF FinishOk, Commit, Goto, local
    <2>2. row'.deps = row.deps /\ row'.applied.att = att[p]
        BY <1>0, <2>1 DEF Rows
    <2>3. Req(p).basis.deps = row.deps /\ tdeps[p] = row.deps
        BY <2>1 DEF FreshInv, Validated
    <2>4. AcceptedForCurrentDeps'
        BY <2>1, <2>2, <2>3 DEF AcceptedForCurrentDeps, Req
    <2>5. \A q \in Procs : q = p
        BY DEF Alone
    <2> HIDE DEF r, a
    <2> QED
        BY <2>1, <2>2, <2>3, <2>4, <2>5 DEF FreshInv, Validated
<1>11. ASSUME NEW p \in Procs, FinishFail(p) PROVE FreshInv'
    <2>1. /\ row'.deps = row.deps /\ row'.applied = row.applied /\ mem'[p] = row'
        BY <1>0, <1>11 DEF FinishFail, Commit, Rows
    <2>2. /\ \A q \in Procs : mem'[q] = row' /\ pc[q] # "idle" /\ ~Validated(q)'
          /\ tdeps' = tdeps
        BY <1>0, <1>11, <2>1 DEF FinishFail, Goto, Validated, Alone, local
    <2> QED
        BY <2>1, <2>2, FreshKept
<1>12. ASSUME NEW p \in Procs, Stop(p) PROVE FreshInv'
    <2>1. Forget(p)
        BY <1>12 DEF Stop, End, Kill, KillInPromotion, KillBeforeCommit
    <2>2. row' = row /\ \A q \in Procs : mem'[q] = row' /\ pc'[q] = "idle" /\ ~Validated(q)'
        BY <1>0, <2>1 DEF Forget, Goto, Validated, Alone
    <2> QED
        BY <2>2, FreshKept
<1>13. ASSUME NEW p \in Procs, Reconcile(p) PROVE FreshInv'
    <2>1. row'.applied = None /\ mem'[p] = row' /\ pc[p] = "idle" /\ pc' = pc
        BY <1>0, <1>13 DEF Reconcile, Commit, Reconciled, Rows
    <2>2. \A q \in Procs : mem'[q] = row' /\ pc'[q] = "idle" /\ ~Validated(q)'
        BY <2>1 DEF Validated, Alone
    <2> QED
        BY <2>1, <2>2 DEF FreshInv, AcceptedForCurrentDeps
<1>14. CASE OtherTask \/ AuthorEdits \/ ReviewerAnswers \/ UNCHANGED vars
    <2>1. UNCHANGED <<row, mem, pc, tdeps, att>>
        BY <1>14 DEF OtherTask, AuthorEdits, ReviewerAnswers, ledger, local, vars
    <2> QED
        BY <2>1, FreshKept DEF FreshInv, Validated
<1> QED
    BY <1>1, <1>2, <1>3, <1>4, <1>5, <1>6, <1>7, <1>8, <1>9, <1>10, <1>11, <1>12, <1>13, <1>14
    DEF Next, BuildCheck, ReviewNow, Apply, Finish
(* A command that overwrites nothing restores nothing.                     *)
LEMMA NothingOverwritten ==
    ASSUME \A p \in Procs : before'[p] = None /\ pc'[p] \notin {"accept", "relabel"}
    PROVE  RestoreInv'
BY DEF RestoreInv, UncontestedFailureRestores

(* Each step of a review-apply that fails has the file back at the end.    *)
LEMMA RestoreStep ==
    ASSUME Alone, IInv, RestoreInv, [Next]_vars
    PROVE  RestoreInv'
<1>0. /\ pc \in [Procs -> Labels] /\ before \in [Procs -> Contents \cup {NoFile, None}]
      /\ att \in [Procs -> 0..Len(requests)] /\ built \in [Procs -> BOOLEAN]
      /\ stale \subseteq Procs
    BY DEF IInv, TypeOK
<1>a. \A p, q \in Procs : q = p
    BY DEF Alone
<1>1. ASSUME NEW p \in Procs,
             Start(p) \/ BuildCheck(p) \/ ReviewNow(p) \/ Validate(p) \/ Note(p) \/ Reconcile(p)
      PROVE  RestoreInv'
    <2>1. CASE Start(p)
        BY <1>0, <1>a, <2>1, NothingOverwritten DEF Start, Goto
    <2>2. CASE BuildCheck(p) \/ ReviewNow(p) \/ Validate(p) \/ Note(p) \/ Reconcile(p)
        <3>1. before' = before
            BY <2>2 DEF BuildCheck, Register, Sync, BuildDraft, RecordBuild, RecordStatus, ReviewNow,
                        Request, RequestRefused, Bind, Validate, Note, Reconcile, local
        <3>2. /\ pc[p] \notin {"accept", "relabel", "finish", "flag", "failed", "applied"}
              /\ pc'[p] \notin {"accept", "relabel"}
            BY <1>0, <2>2
            DEF BuildCheck, Register, Sync, BuildDraft, RecordBuild, RecordStatus, ReviewNow,
                Request, RequestRefused, Bind, Validate, Note, Reconcile, Goto
        <3>3. before[p] = None
            BY <3>2 DEF RestoreInv
        <3> QED
            BY <1>a, <3>1, <3>2, <3>3, NothingOverwritten
    <2> QED
        BY <1>1, <2>1, <2>2
<1>2. ASSUME NEW p \in Procs, Stop(p) PROVE RestoreInv'
    <2>1. Forget(p)
        BY <1>2 DEF Stop, End, Kill, KillInPromotion, KillBeforeCommit
    <2>2. before'[p] = None /\ pc'[p] = "idle"
        BY <1>0, <2>1 DEF Forget, Goto
    <2> QED
        BY <1>a, <2>2, NothingOverwritten
<1>3. ASSUME NEW p \in Procs, Promote(p) PROVE RestoreInv'
    <2>1. att[p] \in 1..Len(requests) /\ UNCHANGED <<att, requests>>
        BY <1>3 DEF Promote, IInv, LocalInv, InApply
    <2>2. /\ before'[p] = Recovered /\ pc'[p] \in {"accept", "finish"}
          /\ built'[p] \/ (pc'[p] = "finish" /\ canon' = Recovered)
        BY <1>0, <1>3 DEF Promote, Goto, AfterBuild
    <2> QED
        BY <1>0, <1>a, <2>1, <2>2 DEF RestoreInv, UncontestedFailureRestores
<1>4. ASSUME NEW p \in Procs, Rebuild(p) PROVE RestoreInv'
    <2>1. before[p] = None /\ before' = before
        BY <1>4 DEF Rebuild, RestoreInv
    <2>2. pc'[p] \in {"accept", "finish"} /\ (pc'[p] = "accept" => built'[p])
        BY <1>0, <1>4 DEF Rebuild, Goto
    <2> QED
        BY <1>a, <2>1, <2>2 DEF RestoreInv, UncontestedFailureRestores
<1>5. ASSUME NEW p \in Procs, Accept(p) \/ Relabel(p) PROVE RestoreInv'
    <2>1. /\ UNCHANGED <<before, att, requests, built, canon>> /\ built[p] /\ att[p] \in 1..Len(requests)
          /\ pc'[p] \in {"relabel", "finish"}
        BY <1>0, <1>5
        DEF Accept, Relabel, Goto, local, files, RestoreInv, IInv, LocalInv, InApply
    <2> QED
        BY <1>a, <2>1 DEF RestoreInv, UncontestedFailureRestores
<1>6. ASSUME NEW p \in Procs, FinishOk(p) PROVE RestoreInv'
    <2>1. UNCHANGED <<before, att, requests>> /\ pc'[p] = "applied" /\ pc[p] = "finish"
        BY <1>0, <1>6 DEF FinishOk, Goto, local
    <2> QED
        BY <1>a, <2>1 DEF RestoreInv, UncontestedFailureRestores
<1>7. ASSUME NEW p \in Procs, FinishFail(p) \/ Flag(p) PROVE RestoreInv'
    <2>1. /\ UNCHANGED <<before, att, requests, built, canon>>
          /\ pc'[p] \in {"flag", "failed"} /\ pc[p] \in {"finish", "flag"}
        BY <1>0, <1>7 DEF FinishFail, Flag, Goto, local, files
    <2>2. before[p] \in {None, canon}
        BY <1>7 DEF FinishFail, Flag, RestoreInv
    <2> QED
        BY <1>a, <2>1, <2>2 DEF RestoreInv, UncontestedFailureRestores
<1>8. ASSUME NEW p \in Procs, FinishRaises(p) PROVE RestoreInv'
    <2>1. /\ UNCHANGED <<before, att, requests, built, canon, stale>>
          /\ pc'[p] = "failed" /\ pc[p] = "finish"
          /\ p \in stale \/ canon # Req(p).subject
        BY <1>0, <1>8 DEF FinishRaises, RevisionHolds, Goto, ledger, local, files
    <2> QED
        BY <1>a, <2>1 DEF RestoreInv, UncontestedFailureRestores, Req
<1>9. CASE OtherTask
    <2>1. /\ UNCHANGED <<before, att, requests, built, canon, pc>>
          /\ \A p \in Procs : p \notin stale' => pc[p] = "idle"
        BY <1>9 DEF OtherTask, local
    <2> QED
        BY <2>1 DEF RestoreInv, UncontestedFailureRestores
<1>10. CASE AuthorEdits \/ ReviewerAnswers \/ UNCHANGED vars
    <2>1. UNCHANGED <<before, att, requests, built, canon, pc, stale>>
        BY <1>10 DEF AuthorEdits, ReviewerAnswers, vars, ledger, local
    <2> QED
        BY <2>1 DEF RestoreInv, UncontestedFailureRestores, Req
<1> QED
    BY <1>1, <1>2, <1>3, <1>4, <1>5, <1>6, <1>7, <1>8, <1>9, <1>10
    DEF Next, Apply, Finish

(* The task begins without an acceptance and with nothing overwritten.     *)
LEMMA AloneInitially ==
    ASSUME Init
    PROVE  FreshInv /\ RestoreInv
<1>1. row.applied = None
    BY DEF Init, NewRow
<1> QED
    BY <1>1 DEF Init, FreshInv, RestoreInv, Validated, AcceptedForCurrentDeps,
                UncontestedFailureRestores

(* While the task's commands do not overlap, an acceptance in the row is   *)
(* for the dependency list in the row, whatever reconciles come between    *)
(* commands and whoever is killed (_validate_review_input_freshness).      *)
THEOREM AcceptancesFitTheRow ==
    ASSUME Alone PROVE Spec => []AcceptedForCurrentDeps
<1>1. Init => FreshInv
    BY AloneInitially
<1>2. IInv /\ FreshInv /\ [Next]_vars => FreshInv'
    BY FreshStep
<1>3. FreshInv => AcceptedForCurrentDeps
    BY DEF FreshInv
<1> QED
    BY <1>1, <1>2, <1>3, Invariance, PTL DEF Spec

(* While the task's commands do not overlap, a review-apply that overwrote *)
(* the canonical file and failed before another task's commit overtook it  *)
(* has put the file back.                                                  *)
THEOREM FailuresRestore ==
    ASSUME Alone PROVE Spec => []UncontestedFailureRestores
<1>1. Init => RestoreInv
    BY AloneInitially
<1>2. IInv /\ RestoreInv /\ [Next]_vars => RestoreInv'
    BY RestoreStep
<1>3. RestoreInv => UncontestedFailureRestores
    BY DEF RestoreInv
<1> QED
    BY <1>1, <1>2, <1>3, Invariance, PTL DEF Spec

(* While the task's commands do not overlap, the request a review-apply    *)
(* accepts was made for the dependency list and the build count that the   *)
(* ledger row has at that moment (finish).  It says nothing of the rest of *)
(* the basis: rows and outputs of the dependencies may change between the  *)
(* validation and the last transaction, and nobody compares them again.    *)
THEOREM AcceptancesFitDepsAndBuilds ==
    ASSUME Alone PROVE Spec => AcceptanceIsFresh
<1> DEFINE A == \A p \in Procs : pc[p] = "finish" /\ pc'[p] = "applied" =>
                    Req(p).basis.deps = row.deps /\ Req(p).basis.build = row.build
<1>1. FreshInv => [A]_vars
    BY DEF FreshInv, Validated
<1>2. Init => FreshInv
    BY AloneInitially
<1>3. IInv /\ FreshInv /\ [Next]_vars => FreshInv'
    BY FreshStep
<1> QED
    BY <1>1, <1>2, <1>3, Invariance, PTL DEF Spec, AcceptanceIsFresh
=============================================================================
