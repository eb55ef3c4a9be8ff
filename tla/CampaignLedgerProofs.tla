------------------------ MODULE CampaignLedgerProofs -------------------------
(***************************************************************************)
(* The invariants of CampaignLedger for any number of managers and         *)
(* updates, and that it implements AtomicLedger.                           *)
(***************************************************************************)
EXTENDS CampaignLedger, TLAPS

InTx(m) == pc[m] \in {"mutate", "normalize", "commit"}
Writing(m) == pc[m] = "begin" \/ InTx(m)
Staged(m) == pc[m] \in {"normalize", "commit"}

(* The manager inside BEGIN IMMEDIATE is the one whose transaction runs.   *)
WriterInv ==
    /\ \A m \in Managers : InTx(m) <=> writer = m
    /\ (writer = NoOne \/ \E m \in Managers : pc[m] = "mutate") => stagedRows = {}

(* The campaign row holds the legacy content, and exists as soon as a      *)
(* manager has loaded the ledger.                                          *)
ImportInv ==
    /\ IF revision = 0 THEN content = {} ELSE Legacy \in content
    /\ \A m \in Managers : /\ pc[m] = "import" => mem[m] = {Legacy}
                           /\ pc[m] = "reload" \/ HasLedger(m) => revision > 0

(* An update is written by one manager and is open while it is; a save     *)
(* has it in the copy it stores.                                           *)
UpdateInv ==
    /\ \A m \in Managers :
        IF Writing(m) \/ pc[m] = "committed"
        THEN /\ upd[m] \in Updates /\ fate[upd[m]] = "open"
             /\ upd[m] \in Evidence <=> way[m] = "normalized"
        ELSE upd[m] = None
    /\ \A m, n \in Managers : m # n /\ upd[m] = upd[n] => upd[m] = None
    /\ \A m \in Managers : /\ Writing(m) /\ way[m] = "save" => upd[m] \in mem[m]
                           /\ pc[m] = "committed" => upd[m] \in content

(* What a ledger or a copy holds was asked for and was not refused.        *)
HeldInv ==
    \A u \in Updates :
        \/ fate[u] \in {"open", "acked"}
        \/ /\ u \notin content /\ u \notin staged
           /\ \A m \in Managers : u \notin mem[m] /\ u \notin oldMem[m]

(* The update of a running transaction is nowhere else.                    *)
PrivateInv ==
    \A m \in Managers : Writing(m) /\ way[m] # "save" =>
        /\ upd[m] \notin content
        /\ ~Staged(m) => upd[m] \notin mem[m]
        /\ ~Staged(m) => upd[m] \notin staged
        /\ \A n \in Managers : upd[m] \notin oldMem[n] /\ (n # m => upd[m] \notin mem[n])

(* Only the normalized transaction itself holds an update with rows that   *)
(* is not stored.                                                          *)
EvidenceInv ==
    \A m \in Managers : \A u \in Evidence :
        /\ u \in oldMem[m] => u \in content
        /\ u \in mem[m] => u \in content \/ (Staged(m) /\ way[m] = "normalized" /\ u = upd[m])

(* What a transaction will store.                                          *)
StagedInv ==
    \A m \in Managers :
        /\ Staged(m) => /\ staged = mem[m] /\ content \subseteq staged
                        /\ way[m] # "save" => staged = content \cup {upd[m]}
        /\ pc[m] = "normalize" => way[m] = "normalized" /\ stagedRows = {}
        /\ pc[m] = "commit" => stagedRows = IF way[m] = "normalized" THEN {upd[m]} ELSE {}
        /\ InTx(m) /\ way[m] # "plain" => rev[m] = revision

(* A copy with the stored revision lacks nothing of the stored ledger, and *)
(* neither does what a failing transaction would put back.                 *)
CopyInv ==
    \A m \in Managers : HasLedger(m) /\ rev[m] = revision =>
        /\ content \subseteq mem[m]
        /\ Writing(m) => content \subseteq oldMem[m]

(* Half of FateIsTruthful; the other half follows from HeldInv.            *)
AckedInv == \A u \in Updates : fate[u] = "acked" => u \in content

IInv ==
    /\ TypeOK /\ RowsFollowLedger
    /\ WriterInv /\ ImportInv /\ UpdateInv /\ HeldInv
    /\ PrivateInv /\ EvidenceInv /\ StagedInv /\ CopyInv
    /\ AckedInv

-----------------------------------------------------------------------------
(* Every step preserves the invariant: one step of the proof per action,    *)
(* conjuncts that only need their own definition come first.               *)
LEMMA Inductive == IInv /\ [Next]_vars => IInv'
<1> SUFFICES ASSUME IInv, [Next]_vars PROVE IInv'
    OBVIOUS
<1> USE ConstantsAssumption DEF IInv, db, tx, Goto, HasLedger, InTx, Writing, Staged
<1>1. ASSUME NEW m \in Managers, Open(m) PROVE IInv'
  <2> USE <1>1 DEF Open, Adopt
  <2>1. TypeOK' /\ RowsFollowLedger' /\ WriterInv' /\ ImportInv'
    BY DEF TypeOK, Ledgers, Labels, RowsFollowLedger, WriterInv, ImportInv
  <2>2. UpdateInv' /\ HeldInv' /\ PrivateInv' /\ EvidenceInv'
    BY DEF UpdateInv, HeldInv, PrivateInv, EvidenceInv
  <2>3. StagedInv' /\ AckedInv'
    BY DEF StagedInv, AckedInv
  <2>4. CopyInv'
    BY DEF TypeOK, Ledgers, Labels, CopyInv
  <2> QED
    BY <2>1, <2>2, <2>3, <2>4
<1>2. ASSUME NEW m \in Managers, OpenLegacy(m) PROVE IInv'
  <2> USE <1>2 DEF OpenLegacy
  <2>1. TypeOK' /\ RowsFollowLedger' /\ WriterInv' /\ UpdateInv'
    BY DEF TypeOK, Ledgers, Labels, RowsFollowLedger, WriterInv, UpdateInv
  <2>2. HeldInv' /\ EvidenceInv' /\ StagedInv' /\ CopyInv'
    BY DEF HeldInv, EvidenceInv, StagedInv, CopyInv
  <2>3. AckedInv'
    BY DEF AckedInv
  <2>4. ImportInv'
    BY DEF TypeOK, Ledgers, Labels, ImportInv
  <2>5. PrivateInv'
    BY DEF TypeOK, Ledgers, Labels, UpdateInv, PrivateInv
  <2> QED
    BY <2>1, <2>2, <2>3, <2>4, <2>5
<1>3. ASSUME NEW m \in Managers, Import(m) PROVE IInv'
  <2> USE <1>3 DEF Import
  <2>1. TypeOK' /\ WriterInv' /\ HeldInv' /\ PrivateInv'
    BY DEF TypeOK, Ledgers, Labels, WriterInv, HeldInv, PrivateInv
  <2>2. RowsFollowLedger'
    BY DEF TypeOK, Ledgers, Labels, RowsFollowLedger, ImportInv
  <2>3. ImportInv'
    BY DEF TypeOK, Ledgers, Labels, ImportInv
  <2>4. UpdateInv'
    BY DEF TypeOK, Ledgers, Labels, ImportInv, UpdateInv
  <2>5. EvidenceInv'
    BY DEF TypeOK, Ledgers, Labels, ImportInv, EvidenceInv
  <2>6. StagedInv'
    BY DEF TypeOK, Ledgers, Labels, WriterInv, StagedInv
  <2>7. CopyInv'
    BY DEF TypeOK, Ledgers, Labels, CopyInv
  <2>8. AckedInv'
    BY DEF TypeOK, Ledgers, Labels, ImportInv, AckedInv
  <2> QED
    BY <2>1, <2>2, <2>3, <2>4, <2>5, <2>6, <2>7, <2>8
<1>4. ASSUME NEW m \in Managers, Reload(m) PROVE IInv'
  <2> USE <1>4 DEF Reload, Adopt
  <2>1. TypeOK' /\ RowsFollowLedger' /\ WriterInv' /\ ImportInv'
    BY DEF TypeOK, Ledgers, Labels, RowsFollowLedger, WriterInv, ImportInv
  <2>2. UpdateInv' /\ HeldInv' /\ PrivateInv' /\ EvidenceInv'
    BY DEF UpdateInv, HeldInv, PrivateInv, EvidenceInv
  <2>3. StagedInv' /\ AckedInv'
    BY DEF StagedInv, AckedInv
  <2>4. CopyInv'
    BY DEF TypeOK, Ledgers, Labels, CopyInv
  <2> QED
    BY <2>1, <2>2, <2>3, <2>4
<1>5. ASSUME NEW m \in Managers, Recover(m) PROVE IInv'
  <2> USE <1>5 DEF Recover, Adopt
  <2>1. TypeOK' /\ RowsFollowLedger' /\ WriterInv' /\ ImportInv'
    BY DEF TypeOK, Ledgers, Labels, RowsFollowLedger, WriterInv, ImportInv
  <2>2. UpdateInv' /\ HeldInv' /\ PrivateInv' /\ EvidenceInv'
    BY DEF UpdateInv, HeldInv, PrivateInv, EvidenceInv
  <2>3. StagedInv' /\ AckedInv'
    BY DEF StagedInv, AckedInv
  <2>4. CopyInv'
    BY DEF TypeOK, Ledgers, Labels, CopyInv
  <2> QED
    BY <2>1, <2>2, <2>3, <2>4
\* The update is new, so it is nowhere; it becomes open.
<1>6. ASSUME NEW m \in Managers, Ask(m) PROVE IInv'
  <2> USE <1>6 DEF Ask
  <2>1. TypeOK' /\ RowsFollowLedger' /\ WriterInv' /\ ImportInv'
    BY DEF TypeOK, Ledgers, Labels, RowsFollowLedger, WriterInv, ImportInv
  <2>2. EvidenceInv' /\ StagedInv' /\ AckedInv'
    BY DEF EvidenceInv, StagedInv, AckedInv
  <2>3. UpdateInv'
    BY DEF TypeOK, Ledgers, Labels, UpdateInv
  <2>4. HeldInv'
    BY DEF TypeOK, Ledgers, Labels, HeldInv
  <2>5. PrivateInv'
    BY DEF TypeOK, Ledgers, Labels, UpdateInv, HeldInv, PrivateInv
  <2>6. CopyInv'
    BY DEF TypeOK, Ledgers, Labels, CopyInv
  <2> QED
    BY <2>1, <2>2, <2>3, <2>4, <2>5, <2>6
<1>7. ASSUME NEW m \in Managers, Begin(m) PROVE IInv'
  <2> USE <1>7 DEF Begin, RevisionHolds
  <2>1. TypeOK' /\ RowsFollowLedger' /\ ImportInv' /\ UpdateInv'
    BY DEF TypeOK, Ledgers, Labels, RowsFollowLedger, ImportInv, UpdateInv
  <2>2. HeldInv' /\ PrivateInv' /\ EvidenceInv' /\ StagedInv'
    BY DEF HeldInv, PrivateInv, EvidenceInv, StagedInv
  <2>3. CopyInv' /\ AckedInv'
    BY DEF CopyInv, AckedInv
  <2>4. WriterInv'
    BY DEF TypeOK, Ledgers, Labels, WriterInv
  <2> QED
    BY <2>1, <2>2, <2>3, <2>4
<1>8. ASSUME NEW m \in Managers, BeginRaises(m) PROVE IInv'
  <2> USE <1>8 DEF BeginRaises, RevisionHolds, Raise, RestoredMemory
  <2>1. TypeOK' /\ RowsFollowLedger' /\ WriterInv'
    BY DEF TypeOK, Ledgers, Labels, RowsFollowLedger, WriterInv
  <2>2. ImportInv'
    BY DEF TypeOK, Ledgers, Labels, ImportInv
  <2>3. UpdateInv'
    BY DEF TypeOK, Ledgers, Labels, UpdateInv
  <2>4. HeldInv'
    BY DEF TypeOK, Ledgers, Labels, HeldInv, PrivateInv
  <2>5. PrivateInv'
    BY DEF TypeOK, Ledgers, Labels, PrivateInv
  <2>6. EvidenceInv'
    BY DEF TypeOK, Ledgers, Labels, EvidenceInv
  <2>7. StagedInv'
    BY DEF TypeOK, Ledgers, Labels, StagedInv
  <2>8. CopyInv'
    BY DEF TypeOK, Ledgers, Labels, CopyInv
  <2>9. AckedInv'
    BY DEF TypeOK, Ledgers, Labels, AckedInv
  <2> QED
    BY <2>1, <2>2, <2>3, <2>4, <2>5, <2>6, <2>7, <2>8, <2>9
\* The only step that puts a not yet stored update into a copy.
<1>9. ASSUME NEW m \in Managers, Mutate(m) PROVE IInv'
  <2> USE <1>9 DEF Mutate
  <2>1. RowsFollowLedger' /\ WriterInv' /\ ImportInv' /\ UpdateInv'
    BY DEF RowsFollowLedger, WriterInv, ImportInv, UpdateInv
  <2>2. CopyInv' /\ AckedInv'
    BY DEF CopyInv, AckedInv
  <2>3. TypeOK'
    BY DEF TypeOK, Ledgers, Labels, UpdateInv
  <2>4. HeldInv'
    BY DEF TypeOK, Ledgers, Labels, UpdateInv, HeldInv
  <2>5. PrivateInv'
    BY DEF TypeOK, Ledgers, Labels, UpdateInv, PrivateInv
  <2>6. EvidenceInv'
    BY DEF TypeOK, Ledgers, Labels, UpdateInv, EvidenceInv
  <2>7. StagedInv'
    BY DEF TypeOK, Ledgers, Labels, WriterInv, StagedInv, CopyInv
  <2> QED
    BY <2>1, <2>2, <2>3, <2>4, <2>5, <2>6, <2>7
<1>10. ASSUME NEW m \in Managers, Normalize(m) PROVE IInv'
  <2> USE <1>10 DEF Normalize
  <2>1. RowsFollowLedger' /\ WriterInv' /\ ImportInv' /\ UpdateInv'
    BY DEF RowsFollowLedger, WriterInv, ImportInv, UpdateInv
  <2>2. HeldInv' /\ PrivateInv' /\ EvidenceInv' /\ CopyInv'
    BY DEF HeldInv, PrivateInv, EvidenceInv, CopyInv
  <2>3. AckedInv'
    BY DEF AckedInv
  <2>4. TypeOK'
    BY DEF TypeOK, Ledgers, Labels, UpdateInv
  <2>5. StagedInv'
    BY DEF TypeOK, Ledgers, Labels, WriterInv, StagedInv
  <2> QED
    BY <2>1, <2>2, <2>3, <2>4, <2>5
<1>11. ASSUME NEW m \in Managers, Rollback(m) PROVE IInv'
  <2> USE <1>11 DEF Rollback, Raise, RestoredMemory, NoTx
  <2>1. TypeOK' /\ RowsFollowLedger'
    BY DEF TypeOK, Ledgers, Labels, RowsFollowLedger
  <2>2. WriterInv'
    BY DEF TypeOK, Ledgers, Labels, WriterInv
  <2>3. ImportInv'
    BY DEF TypeOK, Ledgers, Labels, ImportInv
  <2>4. UpdateInv'
    BY DEF TypeOK, Ledgers, Labels, UpdateInv
  <2>5. HeldInv'
    BY DEF TypeOK, Ledgers, Labels, HeldInv, PrivateInv
  <2>6. PrivateInv'
    BY DEF TypeOK, Ledgers, Labels, PrivateInv
  <2>7. EvidenceInv'
    BY DEF TypeOK, Ledgers, Labels, EvidenceInv
  <2>8. StagedInv'
    BY DEF TypeOK, Ledgers, Labels, WriterInv, StagedInv
  <2>9. CopyInv'
    BY DEF TypeOK, Ledgers, Labels, CopyInv
  <2>10. AckedInv'
    BY DEF TypeOK, Ledgers, Labels, AckedInv
  <2> QED
    BY <2>1, <2>2, <2>3, <2>4, <2>5, <2>6, <2>7, <2>8, <2>9, <2>10
\* What was staged becomes the ledger; every older copy is out of date now.
<1>12. ASSUME NEW m \in Managers, Commit(m) PROVE IInv'
  <2> USE <1>12 DEF Commit, NoTx
  <2>1. TypeOK' /\ HeldInv'
    BY DEF TypeOK, Ledgers, Labels, HeldInv
  <2>2. RowsFollowLedger'
    BY DEF RowsFollowLedger, UpdateInv, EvidenceInv, StagedInv
  <2>3. WriterInv'
    BY DEF TypeOK, Ledgers, Labels, WriterInv
  <2>4. ImportInv'
    BY DEF TypeOK, Ledgers, Labels, ImportInv, StagedInv
  <2>5. UpdateInv'
    BY DEF TypeOK, Ledgers, Labels, WriterInv, UpdateInv, StagedInv
  <2>6. PrivateInv'
    BY DEF TypeOK, Ledgers, Labels, WriterInv, PrivateInv
  <2>7. EvidenceInv'
    BY DEF EvidenceInv, StagedInv
  <2>8. StagedInv'
    BY DEF TypeOK, Ledgers, Labels, WriterInv, StagedInv
  <2>9. CopyInv'
    BY DEF TypeOK, Ledgers, Labels, StagedInv, CopyInv
  <2>10. AckedInv'
    BY DEF StagedInv, AckedInv
  <2> QED
    BY <2>1, <2>2, <2>3, <2>4, <2>5, <2>6, <2>7, <2>8, <2>9, <2>10
<1>13. ASSUME NEW m \in Managers, Return(m) PROVE IInv'
  <2> USE <1>13 DEF Return
  <2>1. RowsFollowLedger' /\ WriterInv' /\ ImportInv' /\ HeldInv'
    BY DEF RowsFollowLedger, WriterInv, ImportInv, HeldInv
  <2>2. PrivateInv' /\ EvidenceInv' /\ StagedInv' /\ CopyInv'
    BY DEF PrivateInv, EvidenceInv, StagedInv, CopyInv
  <2>3. TypeOK'
    BY DEF TypeOK, Ledgers, Labels, UpdateInv
  <2>4. UpdateInv'
    BY DEF TypeOK, Ledgers, Labels, UpdateInv
  <2>5. AckedInv'
    BY DEF TypeOK, Ledgers, Labels, UpdateInv, AckedInv
  <2> QED
    BY <2>1, <2>2, <2>3, <2>4, <2>5
\* The update of a killed command stays open for good.
<1>14. ASSUME NEW m \in Managers, Exit(m) PROVE IInv'
  <2> USE <1>14 DEF Exit, NoTx
  <2>1. TypeOK' /\ RowsFollowLedger' /\ HeldInv' /\ AckedInv'
    BY DEF TypeOK, Ledgers, Labels, RowsFollowLedger, HeldInv, AckedInv
  <2>2. WriterInv'
    BY DEF TypeOK, Ledgers, Labels, WriterInv
  <2>3. ImportInv'
    BY DEF TypeOK, Ledgers, Labels, ImportInv
  <2>4. UpdateInv'
    BY DEF TypeOK, Ledgers, Labels, UpdateInv
  <2>5. PrivateInv'
    BY DEF TypeOK, Ledgers, Labels, PrivateInv
  <2>6. EvidenceInv'
    BY DEF TypeOK, Ledgers, Labels, EvidenceInv
  <2>7. StagedInv'
    BY DEF TypeOK, Ledgers, Labels, WriterInv, StagedInv
  <2>8. CopyInv'
    BY DEF TypeOK, Ledgers, Labels, CopyInv
  <2> QED
    BY <2>1, <2>2, <2>3, <2>4, <2>5, <2>6, <2>7, <2>8
<1>15. CASE UNCHANGED vars
  <2> USE <1>15 DEF vars
  <2>1. TypeOK' /\ RowsFollowLedger' /\ WriterInv' /\ ImportInv'
    BY DEF TypeOK, Ledgers, Labels, RowsFollowLedger, WriterInv, ImportInv
  <2>2. UpdateInv' /\ HeldInv' /\ PrivateInv' /\ EvidenceInv'
    BY DEF UpdateInv, HeldInv, PrivateInv, EvidenceInv
  <2>3. StagedInv' /\ CopyInv' /\ AckedInv'
    BY DEF StagedInv, CopyInv, AckedInv
  <2> QED
    BY <2>1, <2>2, <2>3
<1> QED
    BY <1>1, <1>2, <1>3, <1>4, <1>5, <1>6, <1>7, <1>8, <1>9, <1>10, <1>11, <1>12,
       <1>13, <1>14, <1>15 DEF Next, Load, Write

-----------------------------------------------------------------------------
(* The initial state satisfies the invariant.                              *)
LEMMA Initial == Init => IInv
<1> SUFFICES ASSUME Init PROVE IInv
    OBVIOUS
<1> USE ConstantsAssumption DEF Init, InTx, Writing, Staged, HasLedger
<1>1. TypeOK
    BY DEF TypeOK, Ledgers, Labels
<1>2. RowsFollowLedger /\ WriterInv /\ ImportInv /\ AckedInv
    BY DEF RowsFollowLedger, WriterInv, ImportInv, AckedInv
<1>3. UpdateInv /\ HeldInv /\ PrivateInv
    BY DEF UpdateInv, HeldInv, PrivateInv
<1>4. EvidenceInv /\ StagedInv /\ CopyInv
    BY DEF EvidenceInv, StagedInv, CopyInv
<1> QED
    BY <1>1, <1>2, <1>3, <1>4 DEF IInv

(* The invariant holds in every reachable state.                           *)
THEOREM Invariance == Spec => []IInv
    BY Initial, Inductive, PTL DEF Spec

(* Every variable of the ledger and of its managers keeps its type, and no *)
(* manager ever has a revision the store has not reached.                  *)
THEOREM TypeCorrect == Spec => []TypeOK
<1>1. IInv => TypeOK
    BY DEF IInv
<1> QED
    BY <1>1, Invariance, PTL

(* However many commands write the campaign, with copies of any age, what  *)
(* each was told about its update stays true: acknowledged updates are in  *)
(* the stored ledger, refused ones are not.                                *)
THEOREM FatesAreTruthful == Spec => []FateIsTruthful
<1>1. IInv => FateIsTruthful
    BY DEF IInv, AckedInv, HeldInv, FateIsTruthful
<1> QED
    BY <1>1, Invariance, PTL

(* The rows in the database are those of the updates in the ledger: the    *)
(* acceptance of a review and its rows come and go in one transaction.     *)
THEOREM RowsFollow == Spec => []RowsFollowLedger
<1>1. IInv => RowsFollowLedger
    BY DEF IInv
<1> QED
    BY <1>1, Invariance, PTL

(* Comparing revisions is enough for save: a copy with the stored revision *)
(* lacks nothing of the stored ledger.                                     *)
THEOREM CopiesAreCurrent == Spec => []MemoryAtRevision
<1>1. IInv => MemoryAtRevision
    BY DEF IInv, CopyInv, MemoryAtRevision
<1> QED
    BY <1>1, Invariance, PTL

-----------------------------------------------------------------------------
(* Every step is a step of the atomic ledger or leaves it unchanged:       *)
(* Import, Ask, Commit, Return and the exceptions that refuse an update    *)
(* are its steps, all others stutter.                                      *)
LEMMA StepSimulation == IInv /\ [Next]_vars => [Atomic!Next]_Atomic!avars
<1> SUFFICES ASSUME IInv, [Next]_vars
             PROVE  Atomic!Next \/ UNCHANGED Atomic!avars
    BY DEF Atomic!avars
<1> USE ConstantsAssumption DEF IInv, db, tx, HasLedger, InTx, Writing, Staged, Atomic!avars
<1>1. ASSUME NEW m \in Managers,
             \/ Open(m) \/ OpenLegacy(m) \/ Reload(m) \/ Recover(m)
             \/ Begin(m) \/ Mutate(m) \/ Normalize(m) \/ Exit(m)
      PROVE  UNCHANGED Atomic!avars
    BY <1>1 DEF Open, OpenLegacy, Reload, Recover, Begin, Mutate, Normalize, Exit
<1>2. ASSUME NEW m \in Managers, Import(m)
      PROVE  Atomic!Import \/ UNCHANGED Atomic!avars
    BY <1>2 DEF Import, ImportInv, Atomic!Import
<1>3. ASSUME NEW m \in Managers, Ask(m)
      PROVE  \E u \in Updates : Atomic!Ask(u)
  <2>1. PICK u \in Updates : fate[u] = "new" /\ fate' = [fate EXCEPT ![u] = "open"]
    BY <1>3 DEF Ask
  <2>2. content # {} /\ UNCHANGED <<content, rows>>
    BY <1>3 DEF Ask, ImportInv
  <2> QED
    BY <2>1, <2>2 DEF Atomic!Ask
<1>4. ASSUME NEW m \in Managers, InTx(m) \/ pc[m] = "begin", Raise(m)
      PROVE  (\E u \in Updates : Atomic!Refuse(u)) \/ UNCHANGED Atomic!avars
  <2>1. CASE way[m] = "save"
    BY <1>4, <2>1 DEF Raise
  <2>2. CASE way[m] # "save"
    <3>1. upd[m] \in Updates /\ fate[upd[m]] = "open" /\ upd[m] \notin content
        BY <1>4, <2>2 DEF UpdateInv, PrivateInv
    <3> QED
        BY <1>4, <2>2, <3>1 DEF Raise, Atomic!Refuse
  <2> QED
    BY <2>1, <2>2
<1>5. ASSUME NEW m \in Managers, Commit(m)
      PROVE  \E us \in SUBSET Updates : Atomic!Apply(us)
  <2> DEFINE us == staged \ content
  <2>1. revision > 0 /\ content # {} /\ content \subseteq staged
    BY <1>5 DEF Commit, TypeOK, ImportInv, StagedInv
  <2>2. us \in SUBSET Updates /\ content' = content \cup us
    BY <1>5, <2>1 DEF Commit, TypeOK, Ledgers, ImportInv
  <2>3. \A u \in us : fate[u] = "open"
    BY <2>2 DEF HeldInv, AckedInv
  <2>4. stagedRows = us \cap Evidence
    BY <1>5, <2>2 DEF Commit, StagedInv, UpdateInv, PrivateInv, EvidenceInv
  <2>5. Atomic!Apply(us)
    BY <1>5, <2>1, <2>2, <2>3, <2>4 DEF Commit, Atomic!Apply
  <2> QED
    BY <2>2, <2>5
<1>6. ASSUME NEW m \in Managers, Return(m)
      PROVE  \E u \in Updates : Atomic!Acknowledge(u)
    BY <1>6 DEF Return, UpdateInv, Atomic!Acknowledge
<1>7. ASSUME NEW m \in Managers, BeginRaises(m) \/ Rollback(m)
      PROVE  (\E u \in Updates : Atomic!Refuse(u)) \/ UNCHANGED Atomic!avars
    BY <1>4, <1>7 DEF BeginRaises, Rollback
<1>8. CASE UNCHANGED vars
    BY <1>8 DEF vars
<1> QED
    BY <1>1, <1>2, <1>3, <1>5, <1>6, <1>7, <1>8 DEF Next, Load, Write, Atomic!Next

(* The SQLite ledger with its managers implements the atomic ledger.       *)
THEOREM Implementation == Spec => ImplementsAtomicLedger
<1>1. Init => Atomic!Init
    BY DEF Init, Atomic!Init
<1> QED
    BY <1>1, StepSimulation, Invariance, PTL DEF Spec, ImplementsAtomicLedger, Atomic!Spec
=============================================================================
