-------------------------- MODULE StagedBuildProofs --------------------------
(***************************************************************************)
(* What the staged build guarantees for any number of processes, targets   *)
(* and attempts, wherever processes die: from TypeOK, from the order of    *)
(* backup, manifest, write, restore, delete and unlock, and from the one   *)
(* assumption that the lock file is read without a race (RaceFree).        *)
(***************************************************************************)
EXTENDS StagedBuild, TLAPS

(* A process that replays or deletes what an earlier one left behind.      *)
Recovering(p) ==
    pc[p] = "recover" \/ (pc[p] \in {"restore", "remove"} /\ todo[p] # {})

Holds(p) == InLockWindow(p) \/ Staging(p)

(* Whoever is between the check of the lock file and its release is alone  *)
(* there, and the lock file says where it is.                              *)
LockInv ==
    /\ \A p, q \in Procs : Holds(p) /\ Holds(q) => p = q
    /\ \A p \in Procs :
          /\ Staging(p) /\ pc[p] # "relocking" => lock = p
          /\ pc[p] \in {"locking", "relocking"} => lock = Torn
          /\ pc[p] = "lock" => lock = NoLock
          /\ Recovering(p) => lock # NoLock

(* The manifests that a process has still to replay; only a recovering one *)
(* has any, and while it replays one there is no other.                    *)
TodoInv ==
    \A p \in Procs :
        /\ pc[p] \in {"restore", "remove"} => todo[p] \subseteq {undo[p]}
        /\ pc[p] \notin {"recover", "restore", "remove", "raised", "exited"} => todo[p] = {}
        /\ Staging(p) /\ pc[p] \notin {"prepare", "mkdir", "relock", "relocking"}
              => undo[p] = job[p]

NoManifests == \A d \in Dirs : dir[d].manifest = "none"
OnlyManifest(d) == \A e \in Dirs \ {d} : dir[e].manifest = "none"

(* At most one manifest exists, and who may meet it knows where.           *)
LogInv ==
    /\ NoOrphanUndoLog
    /\ \A d, e \in Dirs : dir[d].manifest # "none" /\ dir[e].manifest # "none" => d = e
    /\ \A p \in Procs :
          /\ pc[p] = "recover" => todo[p] = {d \in Dirs : dir[d].manifest # "none"}
          /\ pc[p] \in {"lock", "locking", "prepare", "mkdir", "relock", "relocking",
                        "backup", "manifest", "release"} => NoManifests
          /\ pc[p] \in {"write", "build", "restore", "remove"} => OnlyManifest(undo[p])
          /\ pc[p] \in {"write", "build", "restore"} =>
                dir[undo[p]].manifest = "whole" /\ man[p] = dir[undo[p]].entries

(* Whatever a manifest can bring back is good, also when some of its       *)
(* backups are already deleted.                                            *)
BackupInv ==
    /\ NoFile \notin built
    /\ \A d \in Dirs : dir[d].manifest = "whole" =>
          \A t \in 1..dir[d].entries.listed :
              IF t \in dir[d].entries.existed
              THEN dir[d].backup[t] \in Good(t) \cup {NoFile}
              ELSE Start0[t] = NoFile

AllGood == \A t \in Targets : canon[t] \in Good(t)

(* UnbuiltBytesAreCovered, with what a process that is about to give up an *)
(* undo log has already put right.                                         *)
CoverInv ==
    /\ UnbuiltBytesAreCovered
    /\ \A p \in Procs :
          /\ pc[p] = "restore" =>
                \A t \in Targets : t < pos[p] => canon[t] \in Good(t)
          /\ pc[p] = "remove" => AllGood

(* The targets listed so far have the bytes they had before the call in    *)
(* their backups.                                                          *)
Saved(p) ==
    \A t \in 1..man[p].listed :
        /\ dir[job[p]].backup[t] = prior[p][t]
        /\ t \in man[p].existed <=> prior[p][t] # NoFile

(* What a staging call has made of the targets at each of its places.      *)
Staged(p) ==
    Staging(p) =>
        /\ pc[p] \in {"relock", "relocking", "backup", "manifest"} => canon = prior[p]
        /\ pc[p] = "backup" =>
              /\ man[p].listed = pos[p] - 1 /\ man[p].existed \subseteq 1..man[p].listed
              /\ Saved(p)
        /\ pc[p] \in {"manifest", "write", "build", "restore"} =>
              /\ man[p].listed = IF Mode(p) = "review-apply" THEN NumTargets ELSE 0
              /\ Saved(p)
        /\ pc[p] \in {"backup", "write", "restore"} => Mode(p) = "review-apply"
        /\ pc[p] = "write" =>
              \A t \in Targets : canon[t] = IF t < pos[p] THEN p ELSE prior[p][t]
        /\ pc[p] = "build" =>
              canon = IF Mode(p) = "review-apply" THEN [t \in Targets |-> p] ELSE prior[p]
        /\ pc[p] \in {"write", "build"} =>
              \A t \in Targets : prior[p][t] \in Good(t)
        /\ pc[p] = "restore" =>
              /\ result[p] = "failed"
              /\ \A t \in Targets : t < pos[p] => canon[t] = prior[p][t]
        /\ pc[p] \in {"remove", "release"} =>
              canon = IF Mode(p) = "review-apply" /\ result[p] = "ok"
                      THEN [t \in Targets |-> p] ELSE prior[p]

StageInv == \A p \in Procs : Staged(p)

-----------------------------------------------------------------------------
IInv == TypeOK /\ LockInv /\ TodoInv /\ LogInv /\ BackupInv /\ CoverInv /\ StageInv
-----------------------------------------------------------------------------
(* A process runs one mode in one attempt.                                 *)
LEMMA ModeKinds ==
    ASSUME TypeOK, NEW p \in Procs
    PROVE  Mode(p) \in Modes
BY DEF TypeOK, Mode, Dirs

(* A process takes one step.                                               *)
Step(p) ==
    \/ Begin(p) \/ Acquire(p) \/ Recover(p) \/ Restore(p) \/ Remove(p)
    \/ TakeLock(p) \/ Stage(p) \/ Build(p) \/ Exit(p) \/ ExitWriting(p)

(* What a step leaves of the undo log of directory d.                      *)
SameLog(d) ==
    /\ dir'[d].manifest = dir[d].manifest /\ dir'[d].backup = dir[d].backup
    /\ dir[d].manifest # "none" => dir'[d].entries = dir[d].entries

(* Making, clearing and deleting a directory changes no undo log: what is  *)
(* deleted is empty.                                                       *)
LEMMA DirectoryEffect ==
    ASSUME TypeOK, NEW p \in Procs,
           Prepare(p) \/ Mkdir(p) \/ RemoveDone(p) \/ BuildStaged(p)
    PROVE  dir' \in [Dirs -> DirStates] /\ \A d \in Dirs : SameLog(d)
<1>1. NoDir \in DirStates
    BY ConstantsAssumption DEF NoDir, NoManifest, Manifests, DirStates, Contents
<1>2. dir \in [Dirs -> DirStates] /\ job[p] \in Dirs /\ undo[p] \in Dirs
    BY DEF TypeOK
<1>3. \A d \in Dirs : IsEmpty(d) => dir[d].backup = NoDir.backup /\ NoDir.manifest = "none"
    BY <1>2 DEF IsEmpty, NoDir, DirStates
<1>4. CASE Prepare(p) \/ RemoveDone(p)
  <2>1. dir' = dir \/ \E d \in Dirs : IsEmpty(d) /\ dir' = [dir EXCEPT ![d] = NoDir]
      BY <1>2, <1>4 DEF Prepare, RemoveDone
  <2> QED
      BY <1>1, <1>2, <1>3, <2>1 DEF SameLog, IsEmpty
<1>5. CASE Mkdir(p) \/ BuildStaged(p)
  <2>1. dir' \in [Dirs -> DirStates] /\ \A d \in Dirs \ {job[p]} : dir'[d] = dir[d]
      BY <1>2, <1>5 DEF Mkdir, BuildStaged, DirStates
  <2>2. SameLog(job[p])
      BY <1>2, <1>5 DEF Mkdir, BuildStaged, DirStates, SameLog
  <2> QED
      BY <2>1, <2>2 DEF SameLog
<1> QED
    BY <1>4, <1>5

LEMMA BackupEffect ==
    ASSUME TypeOK, NEW p \in Procs, Backup(p)
    PROVE  /\ dir' \in [Dirs -> DirStates]
           /\ \A d \in Dirs : dir'[d].manifest = dir[d].manifest
           /\ \A t \in Targets : dir'[job[p]].backup[t] =
                IF t = pos[p] THEN canon[t] ELSE dir[job[p]].backup[t]
<1> DEFINE e == [dir[job[p]] EXCEPT !.backup[pos[p]] = canon[pos[p]]]
<1>1. pos[p] \in Targets /\ canon[pos[p]] \in Contents
    BY ConstantsAssumption DEF TypeOK, Backup, Targets
<1>2. dir \in [Dirs -> DirStates] /\ job[p] \in Dirs
    BY DEF TypeOK
<1>3. dir'[job[p]] = e /\ \A d \in Dirs \ {job[p]} : dir'[d] = dir[d]
    BY <1>2 DEF Backup
<1>4. e \in DirStates /\ e.manifest = dir[job[p]].manifest
    BY <1>1, <1>2 DEF DirStates
<1>5. \A t \in Targets : e.backup[t] =
          IF t = pos[p] THEN canon[t] ELSE dir[job[p]].backup[t]
    BY <1>1, <1>2 DEF DirStates
<1>6. dir' = [dir EXCEPT ![job[p]] = e]
    BY DEF Backup
<1> QED
    BY <1>2, <1>3, <1>4, <1>5, <1>6

LEMMA WriteManifestEffect ==
    ASSUME TypeOK, NEW p \in Procs, WriteManifest(p)
    PROVE  /\ dir' \in [Dirs -> DirStates]
           /\ \A d \in Dirs \ {job[p]} : dir'[d] = dir[d]
           /\ dir'[job[p]].manifest = "whole" /\ dir'[job[p]].entries = man[p]
           /\ dir'[job[p]].backup = dir[job[p]].backup
<1>1. dir' = [dir EXCEPT ![job[p]].manifest = "whole", ![job[p]].entries = man[p]]
    BY DEF WriteManifest
<1>2. dir'[job[p]] = [dir[job[p]] EXCEPT !.manifest = "whole", !.entries = man[p]]
    BY <1>1 DEF TypeOK
<1>3. \A d \in Dirs \ {job[p]} : dir'[d] = dir[d]
    BY <1>1 DEF TypeOK
<1>4. dir[job[p]] \in DirStates
    BY DEF TypeOK
<1>5. /\ dir'[job[p]].manifest = "whole" /\ dir'[job[p]].entries = man[p]
      /\ dir'[job[p]].backup = dir[job[p]].backup
    BY <1>2, <1>4 DEF DirStates
<1>6. dir'[job[p]] \in DirStates
    BY <1>2, <1>4 DEF DirStates, TypeOK
<1>7. dir' \in [Dirs -> DirStates]
    BY <1>1, <1>3, <1>6 DEF TypeOK
<1> QED
    BY <1>3, <1>5, <1>7

LEMMA RemoveEntryEffect ==
    ASSUME TypeOK, NEW p \in Procs, RemoveEntry(p)
    PROVE  /\ dir' \in [Dirs -> DirStates]
           /\ \A d \in Dirs \ {undo[p]} : dir'[d] = dir[d]
           /\ \/ dir'[undo[p]].manifest = "none"
              \/ /\ dir'[undo[p]].manifest = dir[undo[p]].manifest
                 /\ dir'[undo[p]].entries = dir[undo[p]].entries
           /\ \A t \in Targets :
                dir'[undo[p]].backup[t] \in {dir[undo[p]].backup[t], NoFile}
<1> DEFINE d == undo[p]
<1>1. dir[d] \in DirStates /\ d \in Dirs
    BY DEF TypeOK
<1>2. NoManifest \in Manifests /\ NoFile \in Contents
    BY ConstantsAssumption DEF NoManifest, Manifests, Contents
<1>3. CASE dir' = [dir EXCEPT ![d].manifest = "none", ![d].entries = NoManifest]
  <2>1. dir'[d] = [dir[d] EXCEPT !.manifest = "none", !.entries = NoManifest]
      BY <1>3 DEF TypeOK
  <2>2. \A c \in Dirs \ {d} : dir'[c] = dir[c]
      BY <1>3 DEF TypeOK
  <2>3. /\ dir'[d] \in DirStates /\ dir'[d].manifest = "none"
        /\ dir'[d].backup = dir[d].backup
      BY <1>1, <1>2, <2>1 DEF DirStates
  <2> QED
      BY <1>3, <2>2, <2>3 DEF TypeOK
<1>4. CASE dir' = [dir EXCEPT ![d].scratch = FALSE]
  <2>1. dir'[d] = [dir[d] EXCEPT !.scratch = FALSE]
      BY <1>4 DEF TypeOK
  <2>2. \A c \in Dirs \ {d} : dir'[c] = dir[c]
      BY <1>4 DEF TypeOK
  <2>3. /\ dir'[d] \in DirStates /\ dir'[d].manifest = dir[d].manifest
        /\ dir'[d].entries = dir[d].entries /\ dir'[d].backup = dir[d].backup
      BY <1>1, <2>1 DEF DirStates
  <2> QED
      BY <1>4, <2>2, <2>3 DEF TypeOK
<1>5. ASSUME NEW t \in Targets, dir' = [dir EXCEPT ![d].backup[t] = NoFile]
      PROVE  /\ dir' \in [Dirs -> DirStates]
             /\ \A c \in Dirs \ {d} : dir'[c] = dir[c]
             /\ dir'[d].manifest = dir[d].manifest /\ dir'[d].entries = dir[d].entries
             /\ \A u \in Targets : dir'[d].backup[u] \in {dir[d].backup[u], NoFile}
  <2>1. dir'[d] = [dir[d] EXCEPT !.backup[t] = NoFile]
      BY <1>5 DEF TypeOK
  <2>2. \A c \in Dirs \ {d} : dir'[c] = dir[c]
      BY <1>5 DEF TypeOK
  <2>3. /\ dir'[d] \in DirStates /\ dir'[d].manifest = dir[d].manifest
        /\ dir'[d].entries = dir[d].entries
        /\ \A u \in Targets : dir'[d].backup[u] \in {dir[d].backup[u], NoFile}
      BY <1>1, <1>2, <2>1 DEF DirStates
  <2> QED
      BY <1>5, <2>2, <2>3 DEF TypeOK
<1> QED
    BY <1>3, <1>4, <1>5 DEF RemoveEntry

LEMMA ExitWritingEffect ==
    ASSUME TypeOK, NEW p \in Procs, ExitWriting(p)
    PROVE  /\ dir' \in [Dirs -> DirStates]
           /\ \A d \in Dirs \ {job[p]} : dir'[d] = dir[d]
           /\ \/ dir' = dir
              \/ pc[p] = "backup" /\ dir'[job[p]].manifest = dir[job[p]].manifest
              \/ pc[p] = "manifest" /\ dir'[job[p]].manifest = "torn"
<1> DEFINE d == job[p]
<1>1. dir[d] \in DirStates /\ d \in Dirs /\ pos[p] \in 1..(NumTargets + 1)
    BY DEF TypeOK
<1>2. CASE pc[p] = "backup" /\ pos[p] <= NumTargets
           /\ dir' = [dir EXCEPT ![d].backup[pos[p]] = Torn]
  <2>1. dir'[d] = [dir[d] EXCEPT !.backup[pos[p]] = Torn]
      BY <1>2 DEF TypeOK
  <2>2. \A c \in Dirs \ {d} : dir'[c] = dir[c]
      BY <1>2 DEF TypeOK
  <2>3. dir'[d] \in DirStates /\ dir'[d].manifest = dir[d].manifest
      BY <1>1, <1>2, <2>1 DEF DirStates, Contents
  <2> QED
      BY <1>2, <2>2, <2>3 DEF TypeOK
<1>3. CASE pc[p] = "manifest" /\ dir' = [dir EXCEPT ![d].manifest = "torn"]
  <2>1. dir'[d] = [dir[d] EXCEPT !.manifest = "torn"]
      BY <1>3 DEF TypeOK
  <2>2. \A c \in Dirs \ {d} : dir'[c] = dir[c]
      BY <1>3 DEF TypeOK
  <2>3. dir'[d] \in DirStates /\ dir'[d].manifest = "torn"
      BY <1>1, <2>1 DEF DirStates
  <2> QED
      BY <1>3, <2>2, <2>3 DEF TypeOK
<1>4. CASE dir' = dir
    BY <1>4 DEF TypeOK
<1> QED
    BY <1>2, <1>3, <1>4 DEF ExitWriting

(* A process keeps its mode and its attempt.                               *)
LEMMA JobFixed ==
    ASSUME NEW p \in Procs, Step(p)
    PROVE  job' = job /\ \A q \in Procs : Mode(q)' = Mode(q)
BY DEF Step, Begin, Acquire, AcquireFree, AcquireStale, AcquireRefused, Recover,
       RecoverOpen, RecoverUnreadable, RecoverDone, Restore, RestoreTarget, RestoreFails,
       RestoreDone, Remove, RemoveEntry, RemoveDone, TakeLock, LockOpen, LockWrite,
       RelockOpen, RelockWrite, Stage, Prepare, Mkdir, MkdirExists, Backup, BackupDone,
       WriteManifest, WriteTarget, WriteDone, Build, BuildStaged, BuildOk, BuildFails,
       Release, Exit, ExitWriting, Mode

(* A step of p touches nothing of another process.                         *)
LEMMA Others ==
    ASSUME TypeOK, NEW p \in Procs, Step(p), NEW q \in Procs \ {p}
    PROVE  /\ pc'[q] = pc[q] /\ man'[q] = man[q] /\ pos'[q] = pos[q]
           /\ todo'[q] = todo[q] /\ undo'[q] = undo[q] /\ result'[q] = result[q]
           /\ prior'[q] = prior[q] /\ job' = job
           /\ Staging(q)' <=> Staging(q)
           /\ InLockWindow(q)' <=> InLockWindow(q)
           /\ Recovering(q)' <=> Recovering(q)
           /\ Mode(q)' = Mode(q) /\ Mode(p)' = Mode(p)

<1>1. job' = job /\ \A r \in Procs : Mode(r)' = Mode(r)
    BY JobFixed
<1>2. /\ pc'[q] = pc[q] /\ man'[q] = man[q] /\ pos'[q] = pos[q]
      /\ todo'[q] = todo[q] /\ undo'[q] = undo[q] /\ result'[q] = result[q]
      /\ prior'[q] = prior[q]
  <2> USE DEF TypeOK, Goto
  <2>1. CASE Begin(p) \/ Acquire(p) \/ Recover(p)
      BY <2>1 DEF Begin, Acquire, AcquireFree, AcquireStale, AcquireRefused, Recover,
                  RecoverOpen, RecoverUnreadable, RecoverDone
  <2>2. CASE Restore(p) \/ Remove(p)
      BY <2>2 DEF Restore, RestoreTarget, RestoreFails, RestoreDone, Remove,
                  RemoveEntry, RemoveDone
  <2>3. CASE TakeLock(p)
      BY <2>3 DEF TakeLock, LockOpen, LockWrite, RelockOpen, RelockWrite
  <2>4. CASE Stage(p)
      BY <2>4 DEF Stage, Prepare, Mkdir, MkdirExists, Backup, BackupDone,
                  WriteManifest, WriteTarget, WriteDone
  <2>5. CASE Build(p) \/ Exit(p) \/ ExitWriting(p)
      BY <2>5 DEF Build, BuildStaged, BuildOk, BuildFails, Release, Exit, ExitWriting
  <2> QED
      BY <2>1, <2>2, <2>3, <2>4, <2>5 DEF Step
<1> QED
    BY <1>1, <1>2 DEF Staging, InLockWindow, Recovering

LEMMA TypeInit == Init => TypeOK
<1> USE ConstantsAssumption DEF Init, TypeOK
<1>1. Init => dir \in [Dirs -> DirStates] /\ man \in [Procs -> Manifests]
    BY DEF NoDir, DirStates, NoManifest, Manifests, Contents, Targets
<1>2. Init => canon \in [Targets -> Contents] /\ prior \in [Procs -> [Targets -> Contents]]
    BY DEF Start0, Contents
<1> QED
    BY <1>1, <1>2 DEF Labels

LEMMA TypeStep == TypeOK /\ [Next]_vars => TypeOK'
<1> SUFFICES ASSUME TypeOK, [Next]_vars PROVE TypeOK'
    OBVIOUS
<1> USE ConstantsAssumption DEF TypeOK
<1>1. ASSUME NEW p \in Procs, Begin(p) \/ Acquire(p) PROVE TypeOK'
  <2>1. pc' \in [Procs -> Labels]
      BY <1>1 DEF Begin, Acquire, AcquireFree, AcquireStale, AcquireRefused, Goto, Labels
  <2>2. {d \in Dirs : dir[d].manifest # "none"} \in SUBSET Dirs
      OBVIOUS
  <2>3. todo' \in [Procs -> SUBSET Dirs]
      BY <1>1, <2>2 DEF Begin, Acquire, AcquireFree, AcquireStale, AcquireRefused
  <2> QED
      BY <1>1, <2>1, <2>3 DEF Begin, Acquire, AcquireFree, AcquireStale, AcquireRefused
<1>2. ASSUME NEW p \in Procs, Recover(p) PROVE TypeOK'
  <2>1. pc' \in [Procs -> Labels]
      BY <1>2 DEF Recover, RecoverOpen, RecoverUnreadable, RecoverDone, Goto, Labels
  <2>2. CASE RecoverOpen(p)
    <3>1. PICK d \in todo[p] :
              /\ undo' = [undo EXCEPT ![p] = d]
              /\ man' = [man EXCEPT ![p] = dir[d].entries]
              /\ pos' = [pos EXCEPT ![p] = 1]
        BY <2>2 DEF RecoverOpen
    <3>2. d \in Dirs /\ dir[d].entries \in Manifests
        BY DEF DirStates
    <3> QED
        BY <2>1, <2>2, <3>1, <3>2 DEF RecoverOpen
  <2> QED
      BY <1>2, <2>1, <2>2 DEF Recover, RecoverUnreadable, RecoverDone
<1>3. ASSUME NEW p \in Procs, Restore(p) PROVE TypeOK'
  <2>1. pc' \in [Procs -> Labels]
      BY <1>3 DEF Restore, RestoreTarget, RestoreFails, RestoreDone, Goto, Labels
  <2>2. CASE RestoreTarget(p)
    <3>1. pos[p] \in Targets
        BY <2>2 DEF RestoreTarget, Restorable, Manifests, Targets
    <3>2. RestoredBytes(p) \in Contents
        BY <3>1 DEF RestoredBytes, DirStates, Contents
    <3>3. pos' \in [Procs -> 1..(NumTargets + 1)]
        BY <2>2, <3>1 DEF RestoreTarget, Targets
    <3> QED
        BY <2>1, <2>2, <3>1, <3>2, <3>3 DEF RestoreTarget
  <2> QED
      BY <1>3, <2>1, <2>2 DEF Restore, RestoreFails, RestoreDone
<1>4. ASSUME NEW p \in Procs, Remove(p) PROVE TypeOK'
  <2>1. pc' \in [Procs -> Labels]
      BY <1>4 DEF Remove, RemoveEntry, RemoveDone, Goto, Labels
  <2>2. CASE RemoveEntry(p)
    <3>1. dir' \in [Dirs -> DirStates]
        BY <2>2, RemoveEntryEffect
    <3> QED
        BY <2>1, <2>2, <3>1 DEF RemoveEntry
  <2>3. CASE RemoveDone(p)
    <3>1. dir' \in [Dirs -> DirStates]
        BY <2>3, DirectoryEffect
    <3> QED
        BY <2>1, <2>3, <3>1 DEF RemoveDone
  <2> QED
      BY <1>4, <2>2, <2>3 DEF Remove
<1>5. ASSUME NEW p \in Procs, TakeLock(p) PROVE TypeOK'
  <2>1. pc' \in [Procs -> Labels]
      BY <1>5 DEF TakeLock, LockOpen, LockWrite, RelockOpen, RelockWrite, Goto, Labels
  <2>2. 1 \in 1..(NumTargets + 1) /\ NoManifest \in Manifests
      BY DEF NoManifest, Manifests
  <2> QED
    <3>1. CASE RelockWrite(p)
        BY <2>1, <2>2, <3>1 DEF RelockWrite
    <3> QED
        BY <1>5, <2>1, <3>1 DEF TakeLock, LockOpen, LockWrite, RelockOpen
<1>6. ASSUME NEW p \in Procs, Stage(p) PROVE TypeOK'
  <2>0. pc' \in [Procs -> Labels]
      BY <1>6 DEF Stage, Prepare, Mkdir, MkdirExists, Backup, BackupDone,
                  WriteManifest, WriteTarget, WriteDone, Goto, Labels
  <2>1. CASE Prepare(p) \/ Mkdir(p) \/ MkdirExists(p)
    <3>1. dir' \in [Dirs -> DirStates]
        BY <2>1, DirectoryEffect DEF MkdirExists
    <3> QED
        BY <2>0, <2>1, <3>1 DEF Prepare, Mkdir, MkdirExists
  <2>2. CASE Backup(p)
    <3>1. pos[p] \in Targets /\ canon[pos[p]] \in Contents
        BY <2>2 DEF Backup, Targets
    <3>2. dir' \in [Dirs -> DirStates]
        BY <2>2, BackupEffect
    <3>3. man' \in [Procs -> Manifests]
      <4> DEFINE m == [man[p] EXCEPT !.listed = pos[p],
                            !.existed = IF canon[pos[p]] # NoFile THEN @ \cup {pos[p]} ELSE @]
      <4>1. man' = [man EXCEPT ![p] = m]
          BY <2>2 DEF Backup
      <4>2. man[p] \in Manifests
          OBVIOUS
      <4>3. m.existed \in SUBSET Targets /\ m.listed \in 0..NumTargets
          BY <3>1, <4>2 DEF Manifests, Targets
      <4>4. m \in Manifests
          BY <4>2, <4>3 DEF Manifests
      <4> QED
          BY <4>1, <4>4
    <3>4. pos' \in [Procs -> 1..(NumTargets + 1)]
        BY <2>2, <3>1 DEF Backup, Targets
    <3> QED
        BY <2>0, <2>2, <3>2, <3>3, <3>4 DEF Backup
  <2>3. CASE BackupDone(p) \/ WriteDone(p)
      BY <2>0, <2>3 DEF BackupDone, WriteDone
  <2>4. CASE WriteManifest(p)
    <3>1. dir' \in [Dirs -> DirStates]
        BY <2>4, WriteManifestEffect
    <3>2. 1 \in 1..(NumTargets + 1)
        OBVIOUS
    <3> QED
        BY <2>0, <2>4, <3>1, <3>2 DEF WriteManifest
  <2>5. CASE WriteTarget(p)
    <3>1. pos[p] \in Targets
        BY <2>5 DEF WriteTarget, Manifests, Targets
    <3>2. pos' \in [Procs -> 1..(NumTargets + 1)]
        BY <2>5, <3>1 DEF WriteTarget, Targets
    <3>3. canon' \in [Targets -> Contents]
        BY <2>5, <3>1 DEF WriteTarget, Contents
    <3> QED
        BY <2>0, <2>5, <3>2, <3>3 DEF WriteTarget
  <2> QED
      BY <1>6, <2>1, <2>2, <2>3, <2>4, <2>5 DEF Stage
<1>7. ASSUME NEW p \in Procs, Build(p) PROVE TypeOK'
  <2>0. pc' \in [Procs -> Labels]
      BY <1>7 DEF Build, BuildStaged, BuildOk, BuildFails, Release, Goto, Labels
  <2>1. CASE BuildStaged(p)
    <3>1. dir' \in [Dirs -> DirStates]
        BY <2>1, DirectoryEffect
    <3> QED
        BY <2>0, <2>1, <3>1 DEF BuildStaged
  <2>2. CASE BuildOk(p) \/ Release(p)
    <3>1. 1 \in Targets
        BY DEF Targets
    <3> QED
        BY <2>0, <2>2, <3>1 DEF BuildOk, Release
  <2>3. CASE BuildFails(p)
    <3>1. dir[job[p]].entries \in Manifests /\ 1 \in 1..(NumTargets + 1)
        BY DEF DirStates
    <3> QED
        BY <2>0, <2>3, <3>1 DEF BuildFails
  <2> QED
      BY <1>7, <2>1, <2>2, <2>3 DEF Build
<1>8. ASSUME NEW p \in Procs, Exit(p) PROVE TypeOK'
    BY <1>8 DEF Exit, Goto, Labels
<1>9. ASSUME NEW p \in Procs, ExitWriting(p) PROVE TypeOK'
  <2>1. pc' \in [Procs -> Labels]
      BY <1>9 DEF ExitWriting, Goto, Labels
  <2>2. dir' \in [Dirs -> DirStates]
      BY <1>9, ExitWritingEffect
  <2>3. canon' \in [Targets -> Contents]
      BY <1>9 DEF ExitWriting, Contents
  <2> QED
      BY <1>9, <2>1, <2>2, <2>3 DEF ExitWriting
<1>10. CASE UNCHANGED vars
    BY <1>10 DEF vars
<1> QED
    BY <1>1, <1>2, <1>3, <1>4, <1>5, <1>6, <1>7, <1>8, <1>9, <1>10 DEF Next

-----------------------------------------------------------------------------
(* A process that holds nothing touches neither the lock file nor a file.  *)
LEMMA Bystander ==
    ASSUME TypeOK, NEW p \in Procs, Step(p), ~Holds(p)
    PROVE  UNCHANGED <<lock, dir, canon, built>>
BY DEF Step, Holds, InLockWindow, Staging, Begin, Acquire, AcquireFree, AcquireStale,
       AcquireRefused, Recover, RecoverOpen, RecoverUnreadable, RecoverDone, Restore,
       RestoreTarget, Restorable, RestoreFails, RestoreDone, Remove, RemoveEntry, RemoveDone,
       TakeLock, LockOpen, LockWrite, RelockOpen, RelockWrite, Stage, Prepare, Mkdir,
       MkdirExists, Backup, BackupDone, WriteManifest, WriteTarget, WriteDone, Build,
       BuildStaged, BuildOk, BuildFails, Release, Exit, ExitWriting

(* Who begins to hold read the lock file while nobody held anything.       *)
LEMMA Entry ==
    ASSUME RaceFree, TypeOK, LockInv, NEW p \in Procs, AcquireFree(p) \/ AcquireStale(p)
    PROVE  \A q \in Procs : ~Holds(q)
<1> SUFFICES ASSUME NEW q \in Procs, Holds(q) PROVE FALSE
    OBVIOUS
<1>1. ~InLockWindow(q)
    BY DEF AcquireFree, AcquireStale, ReadsLock
<1>2. Staging(q) /\ pc[q] # "relocking" /\ Live(q)
    BY <1>1 DEF Holds, InLockWindow, Staging, Live
<1>3. lock = q
    BY <1>2 DEF LockInv
<1> QED
    BY <1>2, <1>3, ConstantsAssumption DEF AcquireFree, AcquireStale, LockIsStale

LEMMA LockStep ==
    ASSUME RaceFree, TypeOK, LockInv, TodoInv, NEW p \in Procs, Step(p)
    PROVE  LockInv'
<1> DEFINE Place(q) ==
        /\ Staging(q) /\ pc[q] # "relocking" => lock = q
        /\ pc[q] \in {"locking", "relocking"} => lock = Torn
        /\ pc[q] = "lock" => lock = NoLock
        /\ Recovering(q) => lock # NoLock
<1>1. ASSUME NEW q \in Procs \ {p} PROVE (Holds(q)' <=> Holds(q)) /\ pc'[q] = pc[q]
    BY Others DEF Holds
<1>2. CASE AcquireFree(p) \/ AcquireStale(p)
  <2>1. \A q \in Procs \ {p} : ~Holds(q)'
      BY <1>1, <1>2, Entry
  <2>2. Place(p)'
      BY <1>2, ConstantsAssumption
         DEF TypeOK, AcquireFree, AcquireStale, LockIsStale, Goto, Staging, Recovering
  <2>3. \A q \in Procs \ {p} : Place(q)'
      BY <2>1 DEF Holds, InLockWindow, Staging, Recovering
  <2> QED
      BY <2>1, <2>2, <2>3 DEF LockInv
<1>3. CASE ~(AcquireFree(p) \/ AcquireStale(p))
  <2> USE DEF TypeOK, Goto, TodoInv
  <2>1. (Holds(p)' => Holds(p)) /\ Place(p)'
    <3> USE ConstantsAssumption DEF Holds, InLockWindow, Staging, Recovering, LockInv
    <3>1. CASE Begin(p) \/ AcquireRefused(p) \/ Exit(p) \/ ExitWriting(p)
        BY <3>1 DEF Begin, AcquireRefused, Exit, ExitWriting
    <3>2. CASE Recover(p)
        BY <3>2 DEF Recover, RecoverOpen, RecoverUnreadable, RecoverDone
    <3>3. CASE Restore(p)
        BY <3>3 DEF Restore, RestoreTarget, Restorable, RestoreFails, RestoreDone
    <3>4. CASE Remove(p)
        BY <3>4 DEF Remove, RemoveEntry, RemoveDone
    <3>5. CASE TakeLock(p)
        BY <3>5 DEF TakeLock, LockOpen, LockWrite, RelockOpen, RelockWrite
    <3>6. CASE Stage(p)
        BY <3>6 DEF Stage, Prepare, Mkdir, MkdirExists, Backup, BackupDone,
                    WriteManifest, WriteTarget, WriteDone
    <3>7. CASE Build(p)
        BY <3>7 DEF Build, BuildStaged, BuildOk, BuildFails, Release
    <3> QED
        BY <1>3, <3>1, <3>2, <3>3, <3>4, <3>5, <3>6, <3>7 DEF Step, Acquire
  <2>3. \A q \in Procs \ {p} : Place(q)'
    <3> SUFFICES ASSUME NEW q \in Procs \ {p}, Holds(q) PROVE Place(q)'
        BY <1>1 DEF Holds, InLockWindow, Staging, Recovering
    <3>1. lock' = lock
        BY Bystander DEF LockInv
    <3> QED
        BY <3>1, Others DEF LockInv
  <2> QED
      BY <1>1, <2>1, <2>3 DEF LockInv
<1> QED
    BY <1>2, <1>3

LEMMA TodoStep ==
    ASSUME TypeOK, TodoInv, LogInv, NEW p \in Procs, Step(p)
    PROVE  TodoInv'
<1> DEFINE Todo(q) ==
        /\ pc[q] \in {"restore", "remove"} => todo[q] \subseteq {undo[q]}
        /\ pc[q] \notin {"recover", "restore", "remove", "raised", "exited"} => todo[q] = {}
        /\ Staging(q) /\ pc[q] \notin {"prepare", "mkdir", "relock", "relocking"}
              => undo[q] = job[q]
<1>1. ASSUME NEW q \in Procs \ {p} PROVE Todo(q)'
    BY Others DEF TodoInv
<1>2. Todo(p)'
  <2> USE DEF TypeOK, TodoInv, Goto, Staging
  <2>1. CASE Begin(p) \/ Acquire(p) \/ Exit(p) \/ ExitWriting(p)
    <3>1. CASE AcquireStale(p)
        BY <3>1 DEF AcquireStale
    <3> QED
        BY <2>1, <3>1 DEF Begin, Acquire, AcquireFree, AcquireRefused, ReadsLock, Exit,
                          ExitWriting
  <2>2. CASE Recover(p)
      BY <2>2 DEF Recover, RecoverOpen, RecoverUnreadable, RecoverDone, LogInv
  <2>3. CASE Restore(p)
      BY <2>3 DEF Restore, RestoreTarget, Restorable, RestoreFails, RestoreDone
  <2>4. CASE Remove(p)
      BY <2>4 DEF Remove, RemoveEntry, RemoveDone
  <2>5. CASE TakeLock(p)
      BY <2>5 DEF TakeLock, LockOpen, LockWrite, RelockOpen, RelockWrite
  <2>6. CASE Stage(p)
      BY <2>6 DEF Stage, Prepare, Mkdir, MkdirExists, Backup, BackupDone,
                  WriteManifest, WriteTarget, WriteDone
  <2>7. CASE Build(p)
      BY <2>7 DEF Build, BuildStaged, BuildOk, BuildFails, Release
  <2> QED
      BY <2>1, <2>2, <2>3, <2>4, <2>5, <2>6, <2>7 DEF Step
<1> QED
    BY <1>1, <1>2 DEF TodoInv

(* Apart from the writing and the deleting of files in a staging           *)
(* directory, no step touches an undo log.                                 *)
LEMMA LogsKept ==
    ASSUME TypeOK, NEW p \in Procs, Step(p),
           ~Backup(p), ~WriteManifest(p), ~RemoveEntry(p), ~ExitWriting(p)
    PROVE  \A d \in Dirs : SameLog(d)
<1>1. CASE Prepare(p) \/ Mkdir(p) \/ RemoveDone(p) \/ BuildStaged(p)
    BY <1>1, DirectoryEffect
<1>2. CASE ~(Prepare(p) \/ Mkdir(p) \/ RemoveDone(p) \/ BuildStaged(p))
  <2>1. dir' = dir
      BY <1>2 DEF Step, Begin, Acquire, AcquireFree, AcquireStale, AcquireRefused, Recover,
             RecoverOpen, RecoverUnreadable, RecoverDone, Restore, RestoreTarget,
             RestoreFails, RestoreDone, Remove, TakeLock, LockOpen, LockWrite, RelockOpen,
             RelockWrite, Stage, MkdirExists, BackupDone, WriteTarget, WriteDone, Build,
             BuildOk, BuildFails, Release, Exit
  <2> QED
      BY <2>1 DEF SameLog
<1> QED
    BY <1>1, <1>2

(* Only the writing of a manifest makes one.                               *)
LEMMA ManifestsKept ==
    ASSUME TypeOK, NEW p \in Procs, Step(p)
    PROVE  /\ \/ \A d \in Dirs : dir'[d].manifest \in {dir[d].manifest, "none"}
              \/ /\ pc[p] = "manifest" /\ (WriteManifest(p) \/ ExitWriting(p))
                 /\ \A d \in Dirs \ {job[p]} : dir'[d] = dir[d]
           /\ ~(WriteManifest(p) \/ RemoveEntry(p) \/ ExitWriting(p)) =>
                \A d \in Dirs : dir'[d].manifest = dir[d].manifest
<1>1. CASE Backup(p)
    BY <1>1, BackupEffect
<1>2. CASE WriteManifest(p)
    BY <1>2, WriteManifestEffect DEF WriteManifest
<1>3. CASE RemoveEntry(p)
    BY <1>3, RemoveEntryEffect
<1>4. CASE ExitWriting(p)
    BY <1>4, ExitWritingEffect DEF TypeOK
<1> QED
    BY <1>1, <1>2, <1>3, <1>4, LogsKept DEF SameLog

LEMMA LogStep ==
    ASSUME RaceFree, TypeOK, LockInv, TodoInv, LogInv, LockInv', NEW p \in Procs, Step(p)
    PROVE  LogInv'
<1> DEFINE Log(q) ==
        /\ pc[q] = "recover" => todo[q] = {d \in Dirs : dir[d].manifest # "none"}
        /\ pc[q] \in {"lock", "locking", "prepare", "mkdir", "relock", "relocking",
                      "backup", "manifest", "release"} => NoManifests
        /\ pc[q] \in {"write", "build", "restore", "remove"} => OnlyManifest(undo[q])
        /\ pc[q] \in {"write", "build", "restore"} =>
              dir[undo[q]].manifest = "whole" /\ man[q] = dir[undo[q]].entries
<1>1. NoOrphanUndoLog'
  <2>1. CASE WriteManifest(p) \/ (ExitWriting(p) /\ pc[p] = "manifest")
    <3>1. lock = p /\ lock' = lock
        BY <2>1 DEF LockInv, Staging, WriteManifest, ExitWriting
    <3> QED
        BY <3>1, ConstantsAssumption DEF NoOrphanUndoLog
  <2>2. CASE RecoverDone(p) \/ Release(p)
    <3>1. NoManifests /\ dir' = dir
        BY <2>2 DEF LogInv, NoManifests, RecoverDone, Release
    <3> QED
        BY <3>1 DEF NoManifests, NoOrphanUndoLog
  <2>3. CASE ~(RecoverDone(p) \/ Release(p))
    <3>1. lock' = NoLock => lock = NoLock
        BY <2>3, ConstantsAssumption
           DEF Step, Begin, Acquire, AcquireFree, AcquireStale, AcquireRefused, Recover,
             RecoverOpen, RecoverUnreadable, Restore, RestoreTarget,
             RestoreFails, RestoreDone, Remove, RemoveEntry, RemoveDone, TakeLock, LockOpen,
             LockWrite, RelockOpen, RelockWrite, Stage, Prepare, Mkdir, MkdirExists, Backup,
             BackupDone, WriteManifest, WriteTarget, WriteDone, Build, BuildStaged,
             BuildOk, BuildFails, Exit, ExitWriting
    <3> QED
        BY <2>1, <3>1, ManifestsKept DEF NoOrphanUndoLog, LogInv, WriteManifest
  <2> QED
      BY <2>2, <2>3
<1>2. \A d, e \in Dirs : dir'[d].manifest # "none" /\ dir'[e].manifest # "none" => d = e
  <2>1. CASE pc[p] = "manifest"
      BY <2>1, ManifestsKept DEF LogInv, NoManifests
  <2>2. CASE pc[p] # "manifest"
      BY <2>2, ManifestsKept DEF LogInv
  <2> QED
      BY <2>1, <2>2
<1>3. ASSUME NEW q \in Procs \ {p} PROVE Log(q)'
  <2> SUFFICES ASSUME Holds(q)' PROVE Log(q)'
      BY DEF Holds, InLockWindow, Staging
  <2>1. ~Holds(p) /\ Holds(q)
      BY Others DEF Holds, LockInv
  <2>2. dir' = dir
      BY <2>1, Bystander
  <2> QED
      BY <2>2, Others DEF LogInv, NoManifests, OnlyManifest
<1>4. Log(p)'
  <2> USE DEF TypeOK, Goto, LogInv
  <2>1. CASE Begin(p) \/ Acquire(p) \/ Exit(p)
      BY <2>1 DEF Begin, Acquire, AcquireFree, AcquireStale, AcquireRefused, Exit,
                  NoOrphanUndoLog, NoManifests
  <2>2. CASE Recover(p)
      BY <2>2 DEF Recover, RecoverOpen, RecoverUnreadable, RecoverDone, NoManifests, OnlyManifest
  <2>3. CASE Restore(p)
      BY <2>3 DEF Restore, RestoreTarget, Restorable, RestoreFails, RestoreDone, OnlyManifest
  <2>4. CASE RemoveEntry(p)
    <3>1. \A d \in Dirs \ {undo[p]} : dir'[d] = dir[d]
        BY <2>4, RemoveEntryEffect
    <3> QED
        BY <2>4, <3>1 DEF RemoveEntry, OnlyManifest
  <2>5. CASE RemoveDone(p)
    <3>1. NoManifests'
        BY <2>5, DirectoryEffect DEF RemoveDone, IsEmpty, SameLog, NoManifests, OnlyManifest
    <3> QED
        BY <2>5, <3>1 DEF RemoveDone, NoManifests, TodoInv
  <2>6. CASE TakeLock(p)
      BY <2>6 DEF TakeLock, LockOpen, LockWrite, RelockOpen, RelockWrite, NoManifests
  <2>7. CASE Prepare(p) \/ Mkdir(p) \/ MkdirExists(p) \/ Backup(p) \/ BackupDone(p)
    <3>1. NoManifests
        BY <2>7 DEF Prepare, Mkdir, MkdirExists, Backup, BackupDone
    <3>2. NoManifests'
      <4>1. \A d \in Dirs : dir'[d].manifest \in {dir[d].manifest, "none"}
          BY <2>7, ManifestsKept DEF Step, Stage, WriteManifest, ExitWriting,
             Prepare, Mkdir, MkdirExists, Backup, BackupDone
      <4> QED
          BY <3>1, <4>1 DEF NoManifests
    <3> QED
        BY <2>7, <3>2 DEF Prepare, Mkdir, MkdirExists, Backup, BackupDone
  <2>8. CASE WriteManifest(p)
    <3>1. NoManifests /\ undo[p] = job[p]
        BY <2>8 DEF WriteManifest, TodoInv, Staging
    <3> QED
        BY <2>8, <3>1, WriteManifestEffect DEF WriteManifest, NoManifests, OnlyManifest
  <2>9. CASE WriteTarget(p) \/ WriteDone(p) \/ BuildOk(p) \/ Release(p)
      BY <2>9 DEF WriteTarget, WriteDone, BuildOk, Release, OnlyManifest, NoManifests
  <2>10. CASE BuildStaged(p)
      BY <2>10, DirectoryEffect DEF BuildStaged, OnlyManifest, SameLog
  <2>11. CASE BuildFails(p)
    <3>1. undo[p] = job[p]
        BY <2>11 DEF BuildFails, TodoInv, Staging
    <3> QED
        BY <2>11, <3>1 DEF BuildFails, OnlyManifest
  <2>12. CASE ExitWriting(p)
      BY <2>12 DEF ExitWriting
  <2> QED
      BY <2>1, <2>2, <2>3, <2>4, <2>5, <2>6, <2>7, <2>8, <2>9, <2>10, <2>11, <2>12
         DEF Step, Remove, Stage, Build
<1> QED
    BY <1>1, <1>2, <1>3, <1>4 DEF LogInv

(* What has passed a build stays good.                                     *)
LEMMA GoodGrows ==
    ASSUME NEW p \in Procs, Step(p)
    PROVE  /\ built \subseteq built' /\ \A t \in Targets : Good(t) \subseteq Good(t)'
           /\ ~BuildOk(p) => built' = built
<1>1. built \subseteq built' /\ (~BuildOk(p) => built' = built)
    BY DEF Step, Begin, Acquire, AcquireFree, AcquireStale, AcquireRefused, Recover,
           RecoverOpen, RecoverUnreadable, RecoverDone, Restore, RestoreTarget, RestoreFails,
           RestoreDone, Remove, RemoveEntry, RemoveDone, TakeLock, LockOpen, LockWrite,
           RelockOpen, RelockWrite, Stage, Prepare, Mkdir, MkdirExists, Backup, BackupDone,
           WriteManifest, WriteTarget, WriteDone, Build, BuildStaged, BuildOk, BuildFails,
           Release, Exit, ExitWriting
<1> QED
    BY <1>1 DEF Good

(* Without an undo log every target holds good bytes.                      *)
LEMMA QuietGood ==
    ASSUME NoManifests, UnbuiltBytesAreCovered
    PROVE  AllGood
BY DEF NoManifests, UnbuiltBytesAreCovered, AllGood, Undoes

LEMMA BackupStep ==
    ASSUME TypeOK, TodoInv, LogInv, BackupInv, CoverInv, StageInv, NEW p \in Procs, Step(p)
    PROVE  BackupInv'
<1> DEFINE Sound(d) == dir[d].manifest = "whole" =>
              \A t \in 1..dir[d].entries.listed :
                  IF t \in dir[d].entries.existed
                  THEN dir[d].backup[t] \in Good(t) \cup {NoFile}
                  ELSE Start0[t] = NoFile
<1>1. NoFile \notin built'
    BY GoodGrows DEF BackupInv, BuildOk
<1>2. ASSUME NEW d \in Dirs PROVE dir[d] \in DirStates /\ 1..dir[d].entries.listed \subseteq Targets
    BY ConstantsAssumption DEF TypeOK, DirStates, Manifests, Targets
<1>3. ASSUME NEW d \in Dirs, SameLog(d) PROVE Sound(d)'
    BY <1>2, <1>3, GoodGrows DEF BackupInv, SameLog
<1>4. CASE Backup(p)
    BY <1>1, <1>4, BackupEffect DEF Backup, LogInv, NoManifests, BackupInv
<1>5. CASE WriteManifest(p)
  <2>1. NoManifests /\ canon = prior[p] /\ Saved(p)
      BY <1>5 DEF WriteManifest, LogInv, StageInv, Staged, Staging
  <2>2. AllGood
      BY <2>1, QuietGood DEF CoverInv
  <2>3. 1..man[p].listed \subseteq Targets
      BY ConstantsAssumption DEF TypeOK, Manifests, Targets
  <2>4. ASSUME NEW t \in 1..man[p].listed
        PROVE  IF t \in man[p].existed THEN dir[job[p]].backup[t] \in Good(t)
               ELSE Start0[t] = NoFile
      BY <2>1, <2>2, <2>3 DEF Saved, AllGood, Good, BackupInv
  <2>5. ASSUME NEW d \in Dirs, d = job[p] PROVE Sound(d)'
      BY <1>5, <2>3, <2>4, <2>5, WriteManifestEffect, GoodGrows
  <2>6. \A d \in Dirs \ {job[p]} : Sound(d)'
      BY <1>3, <1>5, WriteManifestEffect DEF SameLog
  <2> QED
      BY <1>1, <2>5, <2>6 DEF BackupInv
<1>6. CASE RemoveEntry(p)
  <2>1. \A d \in Dirs \ {undo[p]} : Sound(d)'
      BY <1>3, <1>6, RemoveEntryEffect DEF SameLog
  <2>2. ASSUME NEW d \in Dirs, d = undo[p] PROVE Sound(d)'
      BY <1>2, <1>6, <2>2, RemoveEntryEffect, GoodGrows DEF BackupInv
  <2> QED
      BY <1>1, <2>1, <2>2 DEF BackupInv
<1>7. CASE ExitWriting(p)
  <2>1. CASE dir' = dir
      BY <1>1, <1>3, <2>1 DEF SameLog, BackupInv
  <2>2. CASE dir' # dir
      BY <1>1, <1>3, <1>7, <2>2, ExitWritingEffect DEF SameLog, BackupInv, LogInv, NoManifests
  <2> QED
      BY <2>1, <2>2
<1> QED
    BY <1>1, <1>3, <1>4, <1>5, <1>6, <1>7, LogsKept DEF BackupInv

(* While a review-apply overwrites and builds, its manifest undoes it.     *)
LEMMA StagedUndo ==
    ASSUME TypeOK, TodoInv, LogInv, BackupInv, StageInv, NEW p \in Procs,
           pc[p] \in {"write", "build"}, Mode(p) = "review-apply", NEW t \in Targets
    PROVE  Undoes(job[p], t)
<1>1. undo[p] = job[p] /\ dir[job[p]].manifest = "whole" /\ man[p] = dir[job[p]].entries
    BY DEF TodoInv, LogInv, Staging
<1>2. man[p].listed = NumTargets /\ Saved(p) /\ prior[p][t] \in Good(t)
    BY DEF StageInv, Staged, Staging
<1>3. t \in 1..man[p].listed
    BY <1>2 DEF Targets
<1> QED
    BY <1>1, <1>2, <1>3 DEF Undoes, Saved, Good, BackupInv

LEMMA CoverStep ==
    ASSUME RaceFree, TypeOK, LockInv, TodoInv, LogInv, BackupInv, CoverInv, StageInv,
           NEW p \in Procs, Step(p)
    PROVE  CoverInv'
<1> DEFINE Put(q) ==
        /\ pc[q] = "restore" => \A t \in Targets : t < pos[q] => canon[t] \in Good(t)
        /\ pc[q] = "remove" => AllGood
<1>1. ASSUME NEW q \in Procs \ {p} PROVE Put(q)'
  <2> SUFFICES ASSUME Holds(q) PROVE Put(q)'
      BY Others DEF Holds, InLockWindow, Staging
  <2>1. canon' = canon
      BY Bystander DEF LockInv
  <2> QED
      BY <2>1, Others, GoodGrows DEF CoverInv, AllGood
<1>2. ASSUME AllGood, canon' = canon PROVE UnbuiltBytesAreCovered' /\ Put(p)'
  <2>1. AllGood'
      BY <1>2, GoodGrows DEF AllGood
  <2> QED
      BY <2>1 DEF AllGood, UnbuiltBytesAreCovered
<1>3. ASSUME NEW d \in Dirs, NEW t \in Targets, SameLog(d), Undoes(d, t)
      PROVE  Undoes(d, t)'
    BY <1>3, GoodGrows DEF SameLog, Undoes
<1>4. (Holds(p) /\ pc[p] \notin {"lock", "locking", "relocking"}) => lock # NoLock
    BY ConstantsAssumption DEF LockInv, Holds, InLockWindow, Staging, Recovering
<1>5. CASE Backup(p) \/ WriteManifest(p) \/ RecoverDone(p) \/ Release(p)
  <2>1. AllGood
      BY <1>5, QuietGood DEF CoverInv, LogInv, NoManifests, Backup, WriteManifest,
                             RecoverDone, Release
  <2>2. canon' = canon
      BY <1>5 DEF Backup, WriteManifest, RecoverDone, Release
  <2> QED
      BY <1>1, <1>2, <2>1, <2>2 DEF CoverInv
<1>6. CASE Remove(p)
  <2>1. AllGood /\ canon' = canon
      BY <1>6 DEF Remove, RemoveEntry, RemoveDone, CoverInv
  <2> QED
      BY <1>1, <1>2, <2>1 DEF CoverInv
<1>7. CASE RestoreTarget(p)
  <2>1. /\ pos[p] \in Targets /\ pos[p] \in 1..dir[undo[p]].entries.listed
        /\ dir[undo[p]].manifest = "whole" /\ man[p] = dir[undo[p]].entries
        /\ undo[p] \in Dirs
      BY <1>7, ConstantsAssumption
         DEF RestoreTarget, Restorable, LogInv, TypeOK, Manifests, Targets
  <2>2. RestoredBytes(p) \in Good(pos[p])
      BY <1>7, <2>1 DEF RestoreTarget, Restorable, BackedUp, RestoredBytes, BackupInv, Good
  <2>3. \A t \in Targets : canon'[t] = IF t = pos[p] THEN RestoredBytes(p) ELSE canon[t]
      BY <1>7, <2>1 DEF RestoreTarget, TypeOK
  <2>4. UnbuiltBytesAreCovered'
    <3>1. \A d \in Dirs : SameLog(d)
        BY <1>7 DEF RestoreTarget, SameLog
    <3>2. lock' = lock /\ built' = built
        BY <1>7 DEF RestoreTarget
    <3> QED
        BY <1>3, <2>2, <2>3, <3>1, <3>2 DEF CoverInv, UnbuiltBytesAreCovered, Good
  <2>5. Put(p)'
    <3>1. pc[p] = "restore" /\ pc' = pc /\ pos'[p] = pos[p] + 1 /\ built' = built
        BY <1>7 DEF RestoreTarget, Restorable, TypeOK
    <3>2. ASSUME NEW t \in Targets, t < pos[p] + 1 PROVE t = pos[p] \/ t < pos[p]
        BY <2>1, <3>2 DEF Targets
    <3>3. ASSUME NEW t \in Targets, t < pos[p] + 1 PROVE canon'[t] \in Good(t)'
        BY <2>2, <2>3, <3>1, <3>2, <3>3 DEF CoverInv, Good
    <3> QED
        BY <3>1, <3>3
  <2> QED
      BY <1>1, <2>4, <2>5 DEF CoverInv
<1>8. CASE WriteTarget(p)
  <2>1. Mode(p) = "review-apply" /\ lock # NoLock
      BY <1>4, <1>8 DEF WriteTarget, StageInv, Staged, Staging, Holds
  <2>2. \A t \in Targets : Undoes(job[p], t)
      BY <1>8, <2>1, StagedUndo DEF WriteTarget
  <2>3. job[p] \in Dirs /\ SameLog(job[p]) /\ lock' = lock
      BY <1>8 DEF WriteTarget, SameLog, TypeOK
  <2>4. \A t \in Targets : \E d \in Dirs : Undoes(d, t)'
      BY <1>3, <2>2, <2>3
  <2> QED
      BY <1>1, <1>8, <2>1, <2>3, <2>4 DEF WriteTarget, CoverInv, UnbuiltBytesAreCovered
<1>9. CASE RestoreDone(p)
  <2>1. ASSUME NEW t \in Targets PROVE canon[t] \in Good(t)
    <3>1. CASE t <= man[p].listed
        BY <1>9, <2>1, <3>1, ConstantsAssumption DEF RestoreDone, CoverInv, TypeOK, Manifests, Targets
    <3>2. CASE ~(t <= man[p].listed)
      <4>1. \A d \in Dirs : ~Undoes(d, t)
          BY <1>9, <3>2 DEF RestoreDone, LogInv, OnlyManifest, Undoes
      <4> QED
          BY <4>1 DEF CoverInv, UnbuiltBytesAreCovered
    <3> QED
        BY <3>1, <3>2
  <2> QED
      BY <1>1, <1>2, <1>9, <2>1 DEF AllGood, RestoreDone, CoverInv
<1>10. CASE BuildStaged(p)
  <2>1. canon = prior[p] /\ \A t \in Targets : prior[p][t] \in Good(t)
      BY <1>10 DEF BuildStaged, StageInv, Staged, Staging
  <2> QED
      BY <1>1, <1>2, <1>10, <2>1 DEF AllGood, BuildStaged, CoverInv
<1>11. CASE BuildOk(p)
  <2>1. \A t \in Targets : canon[t] = p
      BY <1>11 DEF BuildOk, StageInv, Staged, Staging
  <2>2. 1 \in Targets /\ canon' = canon /\ built' = built \cup {canon[1]}
      BY <1>11, ConstantsAssumption DEF BuildOk, Targets
  <2>3. AllGood'
      BY <2>1, <2>2 DEF AllGood, Good
  <2> QED
      BY <1>1, <2>3 DEF AllGood, CoverInv, UnbuiltBytesAreCovered, Put
<1>12. CASE ExitWriting(p)
  <2>1. pc'[p] = "exited"
      BY <1>12 DEF ExitWriting, Goto, TypeOK
  <2>2. CASE pc[p] \in {"backup", "manifest"}
    <3>1. AllGood
        BY <2>2, QuietGood DEF CoverInv, LogInv
    <3>2. canon' = canon
        BY <1>12, <2>2 DEF ExitWriting, Restorable
    <3> QED
        BY <1>1, <1>2, <3>1, <3>2 DEF CoverInv
  <2>3. CASE pc[p] \in {"write", "restore"}
    <3>1. dir' = dir /\ lock' = lock /\ built' = built /\ lock # NoLock
        BY <1>4, <1>12, <2>3 DEF ExitWriting, Holds, Staging, InLockWindow
    <3>2. \A t \in Targets : canon'[t] = canon[t] \/ \E d \in Dirs : Undoes(d, t)
      <4>1. CASE pc[p] = "write"
          BY <4>1, StagedUndo DEF StageInv, Staged, Staging, TypeOK
      <4>2. CASE pc[p] = "restore"
        <5>1. Restorable(p) /\ pos[p] \in man[p].existed
              /\ canon' = [canon EXCEPT ![pos[p]] = Torn]
            BY <1>12, <4>2 DEF ExitWriting
        <5>2. /\ pos[p] \in 1..dir[undo[p]].entries.listed /\ undo[p] \in Dirs
              /\ dir[undo[p]].manifest = "whole" /\ man[p] = dir[undo[p]].entries
            BY <4>2, <5>1, ConstantsAssumption DEF Restorable, LogInv, TypeOK
        <5>3. Undoes(undo[p], pos[p])
            BY <5>1, <5>2 DEF Restorable, BackedUp, Undoes, BackupInv
        <5> QED
            BY <5>1, <5>2, <5>3 DEF TypeOK
      <4> QED
          BY <2>3, <4>1, <4>2
    <3>3. \A d \in Dirs, t \in Targets : Undoes(d, t) => Undoes(d, t)'
        BY <1>3, <3>1 DEF SameLog
    <3> QED
        BY <1>1, <2>1, <3>1, <3>2, <3>3 DEF CoverInv, UnbuiltBytesAreCovered, Good
  <2> QED
      BY <1>12, <2>2, <2>3 DEF ExitWriting, Restorable
<1>13. CASE ~(\/ Backup(p) \/ WriteManifest(p) \/ RecoverDone(p) \/ Release(p)
              \/ Remove(p) \/ RestoreTarget(p) \/ WriteTarget(p) \/ RestoreDone(p)
              \/ BuildStaged(p) \/ BuildOk(p) \/ ExitWriting(p))
  <2>1. canon' = canon
      BY <1>13 DEF Step, Begin, Acquire, AcquireFree, AcquireStale, AcquireRefused, Recover,
             RecoverOpen, RecoverUnreadable, Restore, RestoreFails, TakeLock, LockOpen,
             LockWrite, RelockOpen, RelockWrite, Stage, Prepare, Mkdir, MkdirExists,
             BackupDone, WriteDone, Build, BuildFails, Exit
  <2>2. lock # NoLock => lock' # NoLock
      BY <1>13, ConstantsAssumption
         DEF Step, Begin, Acquire, AcquireFree, AcquireStale, AcquireRefused, Recover,
             RecoverOpen, RecoverUnreadable, Restore, RestoreFails, TakeLock, LockOpen,
             LockWrite, RelockOpen, RelockWrite, Stage, Prepare, Mkdir, MkdirExists,
             BackupDone, WriteDone, Build, BuildFails, Exit
  <2>3. UnbuiltBytesAreCovered'
      BY <1>3, <1>13, <2>1, <2>2, LogsKept, GoodGrows
         DEF CoverInv, UnbuiltBytesAreCovered, Remove
  <2>4. (pc'[p] = "restore" => pos'[p] = 1) /\ pc'[p] # "remove"
      BY <1>13
         DEF Step, Begin, Acquire, AcquireFree, AcquireStale, AcquireRefused, ReadsLock, Recover,
             RecoverOpen, RecoverUnreadable, Restore, RestoreFails, TakeLock, LockOpen,
             LockWrite, RelockOpen, RelockWrite, Stage, Prepare, Mkdir, MkdirExists,
             BackupDone, WriteDone, Build, BuildFails, Exit, Goto, TypeOK
  <2>5. Put(p)'
      BY <2>4 DEF Targets
  <2> QED
      BY <1>1, <2>3, <2>5 DEF CoverInv
<1> QED
    BY <1>5, <1>6, <1>7, <1>8, <1>9, <1>10, <1>11, <1>12, <1>13

LEMMA StageStep ==
    ASSUME RaceFree, TypeOK, LockInv, TodoInv, LogInv, BackupInv, CoverInv, StageInv,
           NEW p \in Procs, Step(p)
    PROVE  StageInv'
<1>1. ASSUME NEW q \in Procs \ {p} PROVE Staged(q)'
  <2> SUFFICES ASSUME Staging(q) PROVE Staged(q)'
      BY Others DEF Staged
  <2>1. canon' = canon /\ dir' = dir /\ built' = built
      BY Bystander DEF LockInv, Holds
  <2>2. Staged(q)
      BY DEF StageInv
  <2> QED
      BY <2>1, <2>2, Others DEF Staged, Saved, Good
<1>2. Mode(p)' = Mode(p) /\ Mode(p) \in Modes /\ job' = job
    BY JobFixed, ModeKinds
<1>3. CASE ~Staging(p)'
    BY <1>1, <1>3 DEF StageInv, Staged
<1> SUFFICES ASSUME Staging(p)' PROVE Staged(p)'
    BY <1>1, <1>3 DEF StageInv
<1> USE DEF TypeOK, Goto, Staged, Staging
<1>4. CASE LockOpen(p) \/ LockWrite(p) \/ RelockOpen(p) \/ Prepare(p) \/ MkdirExists(p)
  <2>1. /\ pc'[p] \in {"locking", "prepare", "relocking", "mkdir", "raised"}
        /\ pc'[p] = "relocking" => pc[p] = "relock"
        /\ canon' = canon /\ prior' = prior
      BY <1>4 DEF LockOpen, LockWrite, RelockOpen, Prepare, MkdirExists
  <2> QED
      BY <2>1 DEF StageInv
<1>5. CASE Mkdir(p)
  <2>1. pc'[p] = "relock" /\ canon' = prior'[p]
      BY <1>5 DEF Mkdir
  <2> QED
      BY <2>1
<1>6. CASE RelockWrite(p)
  <2>1. /\ pc[p] = "relocking"
        /\ pc'[p] = IF Mode(p) = "build-check" THEN "manifest" ELSE "backup"
        /\ man'[p] = NoManifest /\ pos'[p] = 1 /\ canon' = canon /\ prior' = prior
      BY <1>6 DEF RelockWrite
  <2>2. canon = prior[p]
      BY <2>1 DEF StageInv
  <2>3. man'[p].listed = 0 /\ man'[p].existed = {}
      BY <2>1 DEF NoManifest
  <2>4. Saved(p)'
      BY <2>3 DEF Saved
  <2> QED
      BY <1>2, <2>1, <2>2, <2>3, <2>4 DEF Modes
<1>7. CASE Backup(p)
  <2>1. /\ pc[p] = "backup" /\ pc' = pc /\ canon' = canon /\ prior' = prior
        /\ pos[p] \in Targets /\ pos'[p] = pos[p] + 1
      BY <1>7, ConstantsAssumption DEF Backup, Targets
  <2>2. /\ man'[p].listed = pos[p]
        /\ man'[p].existed = IF canon[pos[p]] # NoFile THEN man[p].existed \cup {pos[p]}
                             ELSE man[p].existed
      BY <1>7 DEF Backup, Manifests
  <2>3. /\ canon = prior[p] /\ man[p].listed = pos[p] - 1
        /\ man[p].existed \subseteq 1..man[p].listed /\ Saved(p) /\ Mode(p) = "review-apply"
    <3>1. Staged(p)
        BY DEF StageInv
    <3> QED
        BY <2>1, <3>1
  <2>4. \A t \in Targets : dir'[job[p]].backup[t] =
            IF t = pos[p] THEN canon[t] ELSE dir[job[p]].backup[t]
      BY <1>7, BackupEffect
  <2>5. 1..pos[p] = (1..(pos[p] - 1)) \cup {pos[p]} /\ 1..pos[p] \subseteq Targets
        /\ pos[p] \notin 1..(pos[p] - 1)
      BY <2>1, ConstantsAssumption DEF Targets
  <2>6. Saved(p)'
    <3>1. ASSUME NEW t \in 1..pos[p]
          PROVE  /\ dir'[job[p]].backup[t] = prior[p][t]
                 /\ t \in man'[p].existed <=> prior[p][t] # NoFile
      <4>1. CASE t = pos[p]
          BY <2>2, <2>3, <2>4, <2>5, <4>1
      <4>2. CASE t \in 1..(pos[p] - 1)
          BY <2>2, <2>3, <2>4, <2>5, <4>2 DEF Saved
      <4> QED
          BY <2>5, <4>1, <4>2
    <3> QED
        BY <1>2, <2>1, <2>2, <3>1 DEF Saved
  <2>7. man'[p].listed = pos'[p] - 1 /\ man'[p].existed \subseteq 1..man'[p].listed
    <3>1. pos[p] \in Nat /\ pos'[p] - 1 = pos[p]
        BY <2>1 DEF Targets
    <3>2. man'[p].existed \subseteq man[p].existed \cup {pos[p]}
        BY <2>2
    <3>3. 1..man[p].listed \subseteq 1..pos[p] /\ pos[p] \in 1..pos[p]
        BY <2>3, <2>5
    <3> QED
        BY <2>2, <2>3, <3>1, <3>2, <3>3
  <2> QED
      BY <1>2, <2>1, <2>3, <2>6, <2>7
<1>8. CASE BackupDone(p)
  <2>1. /\ pc[p] = "backup" /\ pc'[p] = "manifest" /\ pos[p] > NumTargets
        /\ UNCHANGED <<canon, prior, man, dir>>
      BY <1>8 DEF BackupDone
  <2>2. /\ Mode(p) = "review-apply" /\ canon = prior[p] /\ Saved(p)
        /\ man[p].listed = NumTargets
    <3>1. pos[p] \in 1..(NumTargets + 1) /\ NumTargets \in Nat
        BY ConstantsAssumption
    <3>2. /\ Mode(p) = "review-apply" /\ canon = prior[p] /\ Saved(p)
          /\ man[p].listed = pos[p] - 1
        BY <2>1 DEF StageInv
    <3>3. pos[p] = NumTargets + 1
        BY <2>1, <3>1
    <3> QED
        BY <3>1, <3>2, <3>3
  <2>3. Saved(p)'
      BY <1>2, <2>1, <2>2 DEF Saved
  <2> QED
      BY <1>2, <2>1, <2>2, <2>3
<1>9. CASE WriteManifest(p)
  <2>1. /\ pc[p] = "manifest" /\ pos'[p] = 1
        /\ pc'[p] = IF Mode(p) = "build-check" THEN "build" ELSE "write"
        /\ UNCHANGED <<canon, prior, man, built>>
      BY <1>9 DEF WriteManifest
  <2>2. /\ man[p].listed = (IF Mode(p) = "review-apply" THEN NumTargets ELSE 0)
        /\ Saved(p) /\ canon = prior[p]
      BY <2>1 DEF StageInv
  <2>3. AllGood
      BY <2>1, QuietGood DEF LogInv, CoverInv
  <2>4. Saved(p)'
      BY <1>2, <1>9, <2>1, <2>2, WriteManifestEffect DEF Saved
  <2>5. \A t \in Targets : prior'[p][t] \in Good(t)' /\ ~(t < pos'[p])
      BY <2>1, <2>2, <2>3 DEF AllGood, Good, Targets
  <2>6. pc'[p] \in {"build", "write"} /\ canon' = prior'[p] /\ man' = man
        /\ (pc'[p] = "build" <=> Mode(p) = "build-check")
      BY <2>1, <2>2
  <2> QED
      BY <1>2, <2>2, <2>4, <2>5, <2>6 DEF Modes
<1>10. CASE WriteTarget(p)
  <2>1. /\ pc[p] = "write" /\ pc' = pc /\ pos[p] <= man[p].listed
        /\ pos'[p] = pos[p] + 1 /\ canon' = [canon EXCEPT ![pos[p]] = p]
        /\ UNCHANGED <<prior, man, built, dir>>
      BY <1>10 DEF WriteTarget
  <2>2. Staged(p)
      BY DEF StageInv
  <2>3. pos[p] \in Targets
      BY <2>1, ConstantsAssumption DEF Manifests, Targets
  <2>4. ASSUME NEW t \in Targets
        PROVE  canon'[t] = IF t < pos[p] + 1 THEN p ELSE prior[p][t]
    <3>1. canon[t] = IF t < pos[p] THEN p ELSE prior[p][t]
        BY <2>1, <2>2
    <3>2. t < pos[p] + 1 <=> t < pos[p] \/ t = pos[p]
        BY <2>3 DEF Targets
    <3> QED
        BY <2>1, <2>3, <3>1, <3>2
  <2>5. Saved(p)'
      BY <1>2, <2>1, <2>2 DEF Saved
  <2>6. \A t \in Targets : prior'[p][t] \in Good(t)'
      BY <2>1, <2>2 DEF Good
  <2> QED
      BY <1>2, <2>1, <2>2, <2>4, <2>5, <2>6
<1>11. CASE WriteDone(p)
  <2>1. /\ pc[p] = "write" /\ pc'[p] = "build" /\ pos[p] > man[p].listed
        /\ UNCHANGED <<canon, prior, man, built, dir>>
      BY <1>11 DEF WriteDone
  <2>2. Staged(p)
      BY DEF StageInv
  <2>3. \A t \in Targets : t < pos[p]
      BY <2>1, <2>2, ConstantsAssumption DEF Targets
  <2>4. canon = [t \in Targets |-> p]
      BY <2>1, <2>2, <2>3
  <2>5. Saved(p)' /\ \A t \in Targets : prior'[p][t] \in Good(t)'
      BY <1>2, <2>1, <2>2 DEF Saved, Good
  <2> QED
      BY <1>2, <2>1, <2>2, <2>4, <2>5
<1>12. CASE BuildStaged(p) \/ BuildOk(p)
  <2>1. /\ pc[p] = "build" /\ pc'[p] = "remove"
        /\ UNCHANGED <<canon, prior>>
        /\ Mode(p) = "review-apply" => result'[p] = "ok"
      BY <1>12 DEF BuildStaged, BuildOk
  <2>2. canon = IF Mode(p) = "review-apply" THEN [t \in Targets |-> p] ELSE prior[p]
      BY <2>1 DEF StageInv
  <2> QED
      BY <1>2, <2>1, <2>2
<1>13. CASE BuildFails(p)
  <2>1. undo[p] = job[p]
      BY <1>13 DEF BuildFails, TodoInv
  <2>2. /\ pc[p] = "build" /\ Mode(p) = "review-apply" /\ result'[p] = "failed"
        /\ pc'[p] = "restore" /\ man'[p] = man[p] /\ pos'[p] = 1
        /\ UNCHANGED <<canon, dir, prior>>
      BY <1>13, <2>1 DEF BuildFails, LogInv
  <2>3. man[p].listed = NumTargets /\ Saved(p)
      BY <2>2 DEF StageInv
  <2>4. Saved(p)'
      BY <1>2, <2>2, <2>3 DEF Saved
  <2>5. \A t \in Targets : ~(t < pos'[p])
      BY <2>2 DEF Targets
  <2> QED
      BY <1>2, <2>2, <2>3, <2>4, <2>5
<1>14. CASE RestoreTarget(p)
  <2>1. /\ pc[p] = "restore" /\ pc' = pc /\ pos[p] <= man[p].listed
        /\ pos'[p] = pos[p] + 1 /\ canon' = [canon EXCEPT ![pos[p]] = RestoredBytes(p)]
        /\ UNCHANGED <<prior, man, dir, todo, result>>
      BY <1>14 DEF RestoreTarget, Restorable
  <2>2. Staging(p) /\ Staged(p) /\ undo[p] = job[p]
      BY <2>1 DEF StageInv, TodoInv
  <2>3. pos[p] \in Targets /\ pos[p] \in 1..man[p].listed
      BY <2>1, ConstantsAssumption DEF Manifests, Targets
  <2>4. RestoredBytes(p) = prior[p][pos[p]]
      BY <2>1, <2>2, <2>3 DEF RestoredBytes, Saved
  <2>5. ASSUME NEW t \in Targets, t < pos[p] + 1 PROVE canon'[t] = prior[p][t]
    <3>1. t < pos[p] \/ t = pos[p]
        BY <2>3, <2>5 DEF Targets
    <3> QED
        BY <2>1, <2>2, <2>3, <2>4, <3>1
  <2>6. Saved(p)'
      BY <1>2, <2>1, <2>2 DEF Saved
  <2> QED
      BY <1>2, <2>1, <2>2, <2>5, <2>6
<1>15. CASE RestoreDone(p)
  <2>1. /\ pc[p] = "restore" /\ pc'[p] = "remove" /\ pos[p] > man[p].listed
        /\ UNCHANGED <<canon, prior, todo, result>>
      BY <1>15 DEF RestoreDone
  <2>2. Staging(p) /\ Staged(p)
      BY <2>1 DEF StageInv
  <2>3. \A t \in Targets : t < pos[p]
      BY <2>1, <2>2, ConstantsAssumption DEF Targets
  <2>4. canon = prior[p]
      BY <2>1, <2>2, <2>3
  <2> QED
      BY <1>2, <2>1, <2>2, <2>4
<1>16. CASE Remove(p)
  <2>1. /\ pc[p] = "remove" /\ pc'[p] \in {"remove", "release"}
        /\ UNCHANGED <<canon, prior, result>> /\ Staging(p)
      BY <1>16 DEF Remove, RemoveEntry, RemoveDone, TodoInv
  <2>2. Staged(p)
      BY DEF StageInv
  <2> QED
      BY <1>2, <2>1, <2>2
<1>17. CASE ~(TakeLock(p) \/ Stage(p) \/ BuildStaged(p) \/ BuildOk(p) \/ BuildFails(p)
              \/ RestoreTarget(p) \/ RestoreDone(p) \/ Remove(p))
  <2>1. ~Staging(p)'
      BY <1>17 DEF Step, Begin, Acquire, AcquireFree, AcquireStale, AcquireRefused, ReadsLock,
           Recover, RecoverOpen, RecoverUnreadable, RecoverDone, Restore, RestoreFails, Build,
           Release, Exit, ExitWriting
  <2> QED
      BY <2>1
<1> QED
    BY <1>4, <1>5, <1>6, <1>7, <1>8, <1>9, <1>10, <1>11, <1>12, <1>13, <1>14, <1>15, <1>16,
       <1>17 DEF TakeLock, Stage

-----------------------------------------------------------------------------
LEMMA Initially == Init => IInv
<1> SUFFICES ASSUME Init PROVE IInv
    OBVIOUS
<1>1. TypeOK
    BY TypeInit
<1>2. \A p \in Procs : pc[p] = "unborn" /\ todo[p] = {}
    BY DEF Init
<1>3. \A p \in Procs : ~Holds(p) /\ ~Staging(p) /\ ~Recovering(p)
    BY <1>2 DEF Holds, InLockWindow, Staging, Recovering
<1>4. LockInv /\ TodoInv /\ StageInv
    BY <1>2, <1>3 DEF LockInv, TodoInv, StageInv, Staged
<1>5. \A d \in Dirs : dir[d].manifest = "none"
    BY DEF Init, NoDir
<1>6. LogInv /\ BackupInv
    BY <1>2, <1>5, ConstantsAssumption DEF LogInv, NoOrphanUndoLog, BackupInv, Init
<1>7. CoverInv
    BY <1>2 DEF CoverInv, UnbuiltBytesAreCovered, Good, Init
<1> QED
    BY <1>1, <1>4, <1>6, <1>7 DEF IInv

LEMMA Inductive == ASSUME RaceFree PROVE IInv /\ [Next]_vars => IInv'
<1> SUFFICES ASSUME IInv, [Next]_vars PROVE IInv'
    OBVIOUS
<1> USE DEF IInv
<1>1. ASSUME NEW p \in Procs, Step(p) PROVE IInv'
  <2>1. TypeOK' /\ LockInv' /\ TodoInv'
      BY <1>1, TypeStep, LockStep, TodoStep
  <2>2. LogInv' /\ BackupInv'
      BY <1>1, <2>1, LogStep, BackupStep
  <2>3. CoverInv' /\ StageInv'
      BY <1>1, CoverStep, StageStep
  <2> QED
      BY <2>1, <2>2, <2>3
<1>2. CASE UNCHANGED vars
  <2> USE <1>2 DEF vars
  <2>1. TypeOK'
      BY TypeStep
  <2>2. \A p \in Procs : /\ Staging(p)' <=> Staging(p)
                         /\ InLockWindow(p)' <=> InLockWindow(p)
                         /\ Recovering(p)' <=> Recovering(p)
                         /\ Mode(p)' = Mode(p)
      BY DEF Staging, InLockWindow, Recovering, Mode
  <2>3. LockInv' /\ TodoInv'
      BY <2>2 DEF LockInv, TodoInv, Holds
  <2>4. LogInv' /\ BackupInv' /\ CoverInv'
      BY DEF LogInv, NoOrphanUndoLog, NoManifests, OnlyManifest, BackupInv, Good, CoverInv,
             UnbuiltBytesAreCovered, Undoes, AllGood
  <2>5. StageInv'
      BY <2>2 DEF StageInv, Staged, Saved, Good
  <2> QED
      BY <2>1, <2>3, <2>4, <2>5
<1> QED
    BY <1>1, <1>2 DEF Next, Step

(* Every variable has its type, whoever reads the lock file when.          *)
THEOREM TypeCorrect == Spec => []TypeOK
BY TypeInit, TypeStep, PTL DEF Spec

(* The inductive invariant of the staged build.                            *)
THEOREM Invariance == ASSUME RaceFree PROVE Spec => []IInv
BY Initially, Inductive, PTL DEF Spec

(* At most one live process is past the lock, for any number of processes  *)
(* and deaths.                                                             *)
THEOREM Exclusion == ASSUME RaceFree PROVE Spec => []OneStagesAtATime
<1>1. IInv => OneStagesAtATime
    BY DEF IInv, LockInv, Holds, OneStagesAtATime
<1> QED
    BY <1>1, Invariance, PTL

(* With no lock file there is no manifest to replay.                       *)
THEOREM UnlockedMeansNoUndoLog == ASSUME RaceFree PROVE Spec => []NoOrphanUndoLog
<1>1. IInv => NoOrphanUndoLog
    BY DEF IInv, LogInv
<1> QED
    BY <1>1, Invariance, PTL

(* Bytes that never passed a build are on an official path only under a    *)
(* lock file and an undo log that has good bytes for that path.            *)
THEOREM UnbuiltBytesCovered == ASSUME RaceFree PROVE Spec => []UnbuiltBytesAreCovered
<1>1. IInv => UnbuiltBytesAreCovered
    BY DEF IInv, CoverInv
<1> QED
    BY <1>1, Invariance, PTL

(* A staged build that returns has applied its candidate to every target   *)
(* or put every target back.                                               *)
THEOREM AppliedOrRestored == ASSUME RaceFree PROVE Spec => AllOrNothing
<1> DEFINE Outcome == \A p \in Procs : pc[p] = "release" /\ pc'[p] = "returned" =>
              canon' = IF Mode(p) = "review-apply" /\ result[p] = "ok"
                       THEN [t \in Targets |-> p] ELSE prior[p]
<1>1. IInv /\ [Next]_vars => [Outcome]_vars
  <2> SUFFICES ASSUME IInv, NEW q \in Procs, Step(q), NEW p \in Procs,
                      pc[p] = "release", pc'[p] = "returned"
               PROVE  canon' = IF Mode(p) = "review-apply" /\ result[p] = "ok"
                               THEN [t \in Targets |-> p] ELSE prior[p]
      BY DEF Next, Step
  <2>1. q = p
      BY Others DEF IInv
  <2>2. Release(p)
      BY <2>1 DEF Step, Begin, Acquire, AcquireFree, AcquireStale, AcquireRefused, ReadsLock,
           Recover, RecoverOpen, RecoverUnreadable, RecoverDone, Restore, RestoreTarget,
           Restorable, RestoreFails, RestoreDone, Remove, RemoveEntry, RemoveDone, TakeLock,
           LockOpen, LockWrite, RelockOpen, RelockWrite, Stage, Prepare, Mkdir, MkdirExists,
           Backup, BackupDone, WriteManifest, WriteTarget, WriteDone, Build, BuildStaged,
           BuildOk, BuildFails, Exit, ExitWriting, Goto, IInv, TypeOK
  <2> QED
      BY <2>2 DEF Release, IInv, StageInv, Staged, Staging
<1> QED
    BY <1>1, Invariance, PTL DEF Spec, AllOrNothing
=============================================================================
