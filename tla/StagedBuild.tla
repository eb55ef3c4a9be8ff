----------------------------- MODULE StagedBuild -----------------------------
(***************************************************************************)
(* The staged build of one Phase 2 task: phase2_prompt_pack.py, from       *)
(* _pid_is_running to _run_staged_official_build.                          *)
(*                                                                         *)
(* A CLI process takes the task-local lock file, makes a staging directory *)
(* named after its mode and attempt and, for review-apply, copies every    *)
(* official target aside, writes an undo manifest, overwrites the targets  *)
(* with the candidate and builds the module.  A failed build replays the   *)
(* manifest; a successful one deletes the staging directory.  A later      *)
(* process that finds the lock of a dead pid replays every manifest it     *)
(* finds.  No file is written atomically: a crash can leave any of them    *)
(* torn.                                                                   *)
(***************************************************************************)
EXTENDS Naturals

CONSTANTS
    Procs,        \* CLI processes, a pid each; a pid is used once
    NumTargets,   \* official targets of the task (canonical path, compat copies)
    Missing,      \* targets that have no file at the start
    Attempts,     \* attempt numbers that name staging directories
    Original,     \* the bytes an existing target has at the start
    NoFile,       \* "the path does not exist"
    Torn,         \* bytes of a write cut short
    NoLock,       \* the lock file does not exist
    RaceFree      \* TRUE: no process reads the lock file between another's check
                  \* of it and the end of that process's write of it

Targets == 1..NumTargets
Modes == {"build-check", "review-apply"}
Dirs == Modes \X Attempts

ASSUME ConstantsAssumption ==
    /\ NumTargets \in Nat \ {0}
    /\ Missing \subseteq 1..NumTargets
    /\ RaceFree \in BOOLEAN
    /\ {Original, NoFile, Torn, NoLock} \cap Procs = {}
    /\ Original # NoFile /\ Original # Torn /\ NoFile # Torn
    /\ NoLock # Torn

(***************************************************************************)
(* The candidate a process carries is named by the process.                *)
(***************************************************************************)
Contents == Procs \cup {Original, NoFile, Torn}

VARIABLES
    lock,    \* the lock file: NoLock, Torn (not parseable) or the pid in it
    dir,     \* the staging directories
    canon,   \* the official targets
    pc,      \* where each process is
    job,     \* the staging directory (mode, attempt) of each process
    man,     \* the manifest dictionary each process has in memory
    pos,     \* the index of the target loop of each process
    todo,    \* manifests a recovering process still has to replay
    undo,    \* the directory whose manifest a process is replaying or deleting
    result,  \* outcome of the module build of each process
    built,   \* history: contents that have passed a module build
    prior    \* history: the targets when a process made its directory

files == <<lock, dir, canon>>
vars == <<lock, dir, canon, pc, job, man, pos, todo, undo, result, built, prior>>

NoManifest == [listed |-> 0, existed |-> {}]
NoDir == [made |-> FALSE, manifest |-> "none", entries |-> NoManifest,
          scratch |-> FALSE, backup |-> [t \in Targets |-> NoFile]]

Live(p) == pc[p] \notin {"unborn", "exited"}
Mode(p) == job[p][1]

Start0 == [t \in Targets |-> IF t \in Missing THEN NoFile ELSE Original]

Init ==
    /\ lock = NoLock
    /\ dir = [d \in Dirs |-> NoDir]
    /\ canon = Start0
    /\ pc = [p \in Procs |-> "unborn"]
    /\ job \in [Procs -> Dirs]
    /\ man = [p \in Procs |-> NoManifest]
    /\ pos = [p \in Procs |-> 1]
    /\ todo = [p \in Procs |-> {}]
    /\ undo = job
    /\ result = [p \in Procs |-> "none"]
    /\ built = {}
    /\ prior = [p \in Procs |-> Start0]

Goto(p, l) == pc' = [pc EXCEPT ![p] = l]

-----------------------------------------------------------------------------
(* A command is started; its mode and attempt were fixed by job.           *)
Begin(p) ==
    /\ pc[p] = "unborn"
    /\ Goto(p, "acquire")
    /\ UNCHANGED <<lock, dir, canon, job, man, pos, todo, undo, result, built, prior>>

(* From the check of the lock file to the end of the write that claims it, *)
(* and while the claim is written again, a second reader is misled.        *)
InLockWindow(q) ==
    \/ pc[q] \in {"recover", "lock", "locking", "relocking"}
    \/ (pc[q] \in {"restore", "remove"} /\ todo[q] # {})

ReadsLock(p) ==
    /\ pc[p] = "acquire"
    /\ RaceFree => \A q \in Procs : ~InLockWindow(q)

(* _acquire_task_local_lock: the lock file does not exist.                 *)
AcquireFree(p) ==
    /\ ReadsLock(p) /\ lock = NoLock
    /\ Goto(p, "lock")
    /\ UNCHANGED <<lock, dir, canon, job, man, pos, todo, undo, result, built, prior>>

AnyLockIsStale == lock # NoLock   \* mutant: the pid is not looked up

LockIsStale == lock = Torn \/ (lock \in Procs /\ ~Live(lock))

(* The lock is unreadable or its pid is dead: collect every manifest.      *)
AcquireStale(p) ==
    /\ ReadsLock(p) /\ LockIsStale
    /\ todo' = [todo EXCEPT ![p] = {d \in Dirs : dir[d].manifest # "none"}]
    /\ Goto(p, "recover")
    /\ UNCHANGED <<lock, dir, canon, job, man, pos, undo, result, built, prior>>

(* The lock names a live pid: RuntimeError.                                *)
AcquireRefused(p) ==
    /\ ReadsLock(p) /\ lock \in Procs /\ Live(lock)
    /\ Goto(p, "raised")
    /\ UNCHANGED <<lock, dir, canon, job, man, pos, todo, undo, result, built, prior>>

-----------------------------------------------------------------------------
(* _recover_stale_mutation_lock opens the next manifest and, if it cannot  *)
(* be read, gives up with the lock file left in place.                     *)
RecoverOpen(p) ==
    /\ pc[p] = "recover"
    /\ \E d \in todo[p] :
        /\ dir[d].manifest = "whole"
        /\ undo' = [undo EXCEPT ![p] = d]
        /\ man' = [man EXCEPT ![p] = dir[d].entries]
        /\ pos' = [pos EXCEPT ![p] = 1]
    /\ Goto(p, "restore")
    /\ UNCHANGED <<lock, dir, canon, job, todo, result, built, prior>>

RecoverUnreadable(p) ==
    /\ pc[p] = "recover"
    /\ \E d \in todo[p] : dir[d].manifest # "whole"
    /\ Goto(p, "raised")
    /\ UNCHANGED <<lock, dir, canon, job, man, pos, todo, undo, result, built, prior>>

(* Mutant: the stale lock is unlinked with manifests still to replay.      *)
RecoverSkips(p) ==
    /\ pc[p] = "recover"
    /\ lock' = NoLock
    /\ Goto(p, "lock")
    /\ UNCHANGED <<dir, canon, job, man, pos, todo, undo, result, built, prior>>

(* Every manifest was replayed: the stale lock file is unlinked.           *)
RecoverDone(p) ==
    /\ pc[p] = "recover" /\ todo[p] = {}
    /\ lock' = NoLock
    /\ Goto(p, "lock")
    /\ UNCHANGED <<dir, canon, job, man, pos, todo, undo, result, built, prior>>

(* _restore_staging_manifest, one target at a time: a target that existed  *)
(* is copied back, one that did not is unlinked.                           *)
BackedUp(p) == pos[p] \in man[p].existed => dir[undo[p]].backup[pos[p]] # NoFile

RestorableOnePast(p) ==   \* mutant: the loop runs one target too far
    pc[p] = "restore" /\ pos[p] <= man[p].listed + 1 /\ BackedUp(p)

Restorable(p) == pc[p] = "restore" /\ pos[p] <= man[p].listed /\ BackedUp(p)

NewTargetsStay(p) ==   \* mutant: a target that did not exist is not unlinked
    IF pos[p] \in man[p].existed THEN dir[undo[p]].backup[pos[p]] ELSE canon[pos[p]]

RestoredBytes(p) ==
    IF pos[p] \in man[p].existed THEN dir[undo[p]].backup[pos[p]] ELSE NoFile

RestoreTarget(p) ==
    /\ Restorable(p)
    /\ canon' = [canon EXCEPT ![pos[p]] = RestoredBytes(p)]
    /\ pos' = [pos EXCEPT ![p] = @ + 1]
    /\ UNCHANGED <<lock, dir, pc, job, man, todo, undo, result, built, prior>>

(* A backup is gone: False, which both callers turn into a RuntimeError.   *)
RestoreFails(p) ==
    /\ pc[p] = "restore" /\ pos[p] <= man[p].listed
    /\ ~Restorable(p)
    /\ Goto(p, "raised")
    /\ UNCHANGED <<lock, dir, canon, job, man, pos, todo, undo, result, built, prior>>

RestoreKeepsStaging(p) ==   \* mutant: the replayed manifest is kept
    /\ pc[p] = "restore" /\ pos[p] > man[p].listed
    /\ Goto(p, "release")
    /\ UNCHANGED <<lock, dir, canon, job, man, pos, todo, undo, result, built, prior>>

RestoreDone(p) ==
    /\ pc[p] = "restore" /\ pos[p] > man[p].listed
    /\ Goto(p, "remove")
    /\ UNCHANGED <<lock, dir, canon, job, man, pos, todo, undo, result, built, prior>>

(* _remove_tree unlinks the entries of the staging directory one by one,   *)
(* in the order the file system lists them.                                *)
RemoveEntry(p) ==
    /\ pc[p] = "remove"
    /\ LET d == undo[p] IN
        \/ /\ dir[d].manifest # "none"
           /\ dir' = [dir EXCEPT ![d].manifest = "none", ![d].entries = NoManifest]
        \/ /\ dir[d].scratch
           /\ dir' = [dir EXCEPT ![d].scratch = FALSE]
        \/ \E t \in Targets :
            /\ dir[d].backup[t] # NoFile
            /\ dir' = [dir EXCEPT ![d].backup[t] = NoFile]
    /\ UNCHANGED <<lock, canon, pc, job, man, pos, todo, undo, result, built, prior>>

IsEmpty(d) ==
    /\ dir[d].manifest = "none" /\ ~dir[d].scratch
    /\ \A t \in Targets : dir[d].backup[t] = NoFile

(* The directory itself goes last; a recovering process turns to the next  *)
(* manifest, a building one to the release of its lock.                    *)
RemoveDone(p) ==
    /\ pc[p] = "remove" /\ IsEmpty(undo[p])
    /\ dir' = [dir EXCEPT ![undo[p]] = NoDir]
    /\ todo' = [todo EXCEPT ![p] = @ \ {undo[p]}]
    /\ Goto(p, IF undo[p] \in todo[p] THEN "recover" ELSE "release")
    /\ UNCHANGED <<lock, canon, job, man, pos, undo, result, built, prior>>

-----------------------------------------------------------------------------
(* _write_json opens the lock file for writing, which truncates it, and    *)
(* then writes it.  The existence check was an earlier step.               *)
LockOpen(p) ==
    /\ pc[p] = "lock"
    /\ lock' = Torn
    /\ Goto(p, "locking")
    /\ UNCHANGED <<dir, canon, job, man, pos, todo, undo, result, built, prior>>

LockWrite(p) ==
    /\ pc[p] = "locking"
    /\ lock' = p
    /\ Goto(p, "prepare")
    /\ UNCHANGED <<dir, canon, job, man, pos, todo, undo, result, built, prior>>

(* _remove_empty_staging_dir_without_manifest.                             *)
Prepare(p) ==
    /\ pc[p] = "prepare"
    /\ dir' = IF IsEmpty(job[p]) THEN [dir EXCEPT ![job[p]] = NoDir] ELSE dir
    /\ Goto(p, "mkdir")
    /\ UNCHANGED <<lock, canon, job, man, pos, todo, undo, result, built, prior>>

Mkdir(p) ==
    /\ pc[p] = "mkdir" /\ ~dir[job[p]].made
    /\ dir' = [dir EXCEPT ![job[p]].made = TRUE]
    /\ prior' = [prior EXCEPT ![p] = canon]
    /\ Goto(p, "relock")
    /\ UNCHANGED <<lock, canon, job, man, pos, todo, undo, result, built>>

(* FileExistsError, raised before the try block: the lock stays behind.    *)
MkdirExists(p) ==
    /\ pc[p] = "mkdir" /\ dir[job[p]].made
    /\ Goto(p, "raised")
    /\ UNCHANGED <<lock, dir, canon, job, man, pos, todo, undo, result, built, prior>>

(* _rewrite_task_lock: the same file, truncated and written again.         *)
RelockOpen(p) ==
    /\ pc[p] = "relock"
    /\ lock' = Torn
    /\ Goto(p, "relocking")
    /\ UNCHANGED <<dir, canon, job, man, pos, todo, undo, result, built, prior>>

RelockWrite(p) ==
    /\ pc[p] = "relocking"
    /\ lock' = p
    /\ man' = [man EXCEPT ![p] = NoManifest]
    /\ pos' = [pos EXCEPT ![p] = 1]
    /\ undo' = [undo EXCEPT ![p] = job[p]]
    /\ Goto(p, IF Mode(p) = "build-check" THEN "manifest" ELSE "backup")
    /\ UNCHANGED <<dir, canon, job, todo, result, built, prior>>

-----------------------------------------------------------------------------
(* Copy the next target aside and list it in the manifest.                 *)
Backup(p) ==
    /\ pc[p] = "backup" /\ pos[p] <= NumTargets
    /\ dir[job[p]].made
    /\ LET t == pos[p] IN
        /\ dir' = [dir EXCEPT ![job[p]].backup[t] = canon[t]]
        /\ man' = [man EXCEPT ![p].listed = t,
                              ![p].existed = IF canon[t] # NoFile THEN @ \cup {t} ELSE @]
    /\ pos' = [pos EXCEPT ![p] = @ + 1]
    /\ UNCHANGED <<lock, canon, pc, job, todo, undo, result, built, prior>>

BackupDone(p) ==
    /\ pc[p] = "backup" /\ pos[p] > NumTargets
    /\ Goto(p, "manifest")
    /\ UNCHANGED <<lock, dir, canon, job, man, pos, todo, undo, result, built, prior>>

(* The manifest is written; that of a build-check lists nothing.           *)
WriteManifest(p) ==
    /\ pc[p] = "manifest" /\ dir[job[p]].made
    /\ dir' = [dir EXCEPT ![job[p]].manifest = "whole", ![job[p]].entries = man[p]]
    /\ pos' = [pos EXCEPT ![p] = 1]
    /\ Goto(p, IF Mode(p) = "build-check" THEN "build" ELSE "write")
    /\ UNCHANGED <<lock, canon, job, man, todo, undo, result, built, prior>>

(* Overwrite the next target of the manifest with the candidate.           *)
WriteTarget(p) ==
    /\ pc[p] = "write" /\ pos[p] <= man[p].listed
    /\ canon' = [canon EXCEPT ![pos[p]] = p]
    /\ pos' = [pos EXCEPT ![p] = @ + 1]
    /\ UNCHANGED <<lock, dir, pc, job, man, todo, undo, result, built, prior>>

WriteDone(p) ==
    /\ pc[p] = "write" /\ pos[p] > man[p].listed
    /\ Goto(p, "build")
    /\ UNCHANGED <<lock, dir, canon, job, man, pos, todo, undo, result, built, prior>>

(* restore_on_success: the candidate is elaborated in a scratch directory  *)
(* of the staging directory, which is then deleted whatever the outcome.   *)
BuildStaged(p) ==
    /\ pc[p] = "build" /\ Mode(p) = "build-check"
    /\ \E r \in {"ok", "failed"} : result' = [result EXCEPT ![p] = r]
    /\ dir' = [dir EXCEPT ![job[p]].scratch = TRUE]
    /\ Goto(p, "remove")
    /\ UNCHANGED <<lock, canon, job, man, pos, todo, undo, built, prior>>

(* _run_official_module_build compiles what is on disk at the canonical    *)
(* path, the first target.                                                 *)
BuildOk(p) ==
    /\ pc[p] = "build" /\ Mode(p) = "review-apply"
    /\ canon[1] \notin {NoFile, Torn}
    /\ result' = [result EXCEPT ![p] = "ok"]
    /\ built' = built \cup {canon[1]}
    /\ Goto(p, "remove")
    /\ UNCHANGED <<lock, dir, canon, job, man, pos, todo, undo, prior>>

(* A failed build reads the manifest back and replays it.                  *)
BuildFails(p) ==
    /\ pc[p] = "build" /\ Mode(p) = "review-apply"
    /\ result' = [result EXCEPT ![p] = "failed"]
    /\ IF dir[job[p]].manifest = "whole"
       THEN /\ man' = [man EXCEPT ![p] = dir[job[p]].entries]
            /\ pos' = [pos EXCEPT ![p] = 1]
            /\ Goto(p, "restore")
       ELSE Goto(p, "raised") /\ UNCHANGED <<man, pos>>
    /\ UNCHANGED <<lock, dir, canon, job, todo, undo, built, prior>>

(* finally: the lock file is unlinked once staging was undone or deleted.  *)
Release(p) ==
    /\ pc[p] = "release"
    /\ lock' = NoLock
    /\ Goto(p, "returned")
    /\ UNCHANGED <<dir, canon, job, man, pos, todo, undo, result, built, prior>>

-----------------------------------------------------------------------------
(* The process ends: normally after a return or an exception, or because   *)
(* it is killed, or an OSError of a file operation leaves the function     *)
(* (a staging directory that is gone, say), at any step.                   *)
Exit(p) ==
    /\ Live(p)
    /\ Goto(p, "exited")
    /\ UNCHANGED <<lock, dir, canon, job, man, pos, todo, undo, result, built, prior>>

(* Killed in the middle of a write, which leaves the file torn.            *)
ExitWriting(p) ==
    /\ \/ /\ pc[p] = "backup" /\ pos[p] <= NumTargets /\ canon[pos[p]] # NoFile
          /\ dir[job[p]].made
          /\ dir' = [dir EXCEPT ![job[p]].backup[pos[p]] = Torn]
          /\ UNCHANGED canon
       \/ /\ pc[p] = "manifest" /\ dir[job[p]].made
          /\ dir' = [dir EXCEPT ![job[p]].manifest = "torn"]
          /\ UNCHANGED canon
       \/ /\ pc[p] = "write" /\ pos[p] <= man[p].listed
          /\ canon' = [canon EXCEPT ![pos[p]] = Torn]
          /\ UNCHANGED dir
       \/ /\ Restorable(p) /\ pos[p] \in man[p].existed
          /\ canon' = [canon EXCEPT ![pos[p]] = Torn]
          /\ UNCHANGED dir
    /\ Goto(p, "exited")
    /\ UNCHANGED <<lock, job, man, pos, todo, undo, result, built, prior>>

Acquire(p) == AcquireFree(p) \/ AcquireStale(p) \/ AcquireRefused(p)
Recover(p) == RecoverOpen(p) \/ RecoverUnreadable(p) \/ RecoverDone(p)
Restore(p) == RestoreTarget(p) \/ RestoreFails(p) \/ RestoreDone(p)
Remove(p) == RemoveEntry(p) \/ RemoveDone(p)
TakeLock(p) == LockOpen(p) \/ LockWrite(p) \/ RelockOpen(p) \/ RelockWrite(p)
Stage(p) == Prepare(p) \/ Mkdir(p) \/ MkdirExists(p) \/ Backup(p) \/ BackupDone(p)
            \/ WriteManifest(p) \/ WriteTarget(p) \/ WriteDone(p)
Build(p) == BuildStaged(p) \/ BuildOk(p) \/ BuildFails(p) \/ Release(p)

Next == \E p \in Procs :
    \/ Begin(p) \/ Acquire(p) \/ Recover(p) \/ Restore(p) \/ Remove(p)
    \/ TakeLock(p) \/ Stage(p) \/ Build(p) \/ Exit(p) \/ ExitWriting(p)

Spec == Init /\ [][Next]_vars

-----------------------------------------------------------------------------
Labels == {"unborn", "acquire", "recover", "restore", "remove", "lock", "locking",
           "prepare", "mkdir", "relock", "relocking", "backup", "manifest", "write",
           "build", "release", "returned", "raised", "exited"}

Manifests == [listed : 0..NumTargets, existed : SUBSET Targets]
DirStates == [made : BOOLEAN, manifest : {"none", "torn", "whole"},
              entries : Manifests, scratch : BOOLEAN, backup : [Targets -> Contents]]

(* Every variable has its type.                                            *)
TypeOK ==
    /\ lock \in Procs \cup {NoLock, Torn}
    /\ dir \in [Dirs -> DirStates]
    /\ canon \in [Targets -> Contents]
    /\ pc \in [Procs -> Labels]
    /\ job \in [Procs -> Dirs]
    /\ man \in [Procs -> Manifests]
    /\ pos \in [Procs -> 1..(NumTargets + 1)]
    /\ todo \in [Procs -> SUBSET Dirs]
    /\ undo \in [Procs -> Dirs]
    /\ result \in [Procs -> {"none", "ok", "failed"}]
    /\ built \subseteq Contents
    /\ prior \in [Procs -> [Targets -> Contents]]

(* What a target may hold once nothing is in progress: what it held at the *)
(* start, or a content that has passed an official module build.           *)
Good(t) == built \cup {Start0[t]}

(* An undo log that puts a good content back into target t.                *)
Undoes(d, t) ==
    /\ dir[d].manifest = "whole"
    /\ t <= dir[d].entries.listed
    /\ IF t \in dir[d].entries.existed
       THEN dir[d].backup[t] \in Good(t) \ {NoFile}
       ELSE Start0[t] = NoFile

(* Candidate or torn bytes that never passed a build are on an official    *)
(* path only while the lock file exists, which makes the next command look *)
(* for undo logs, and some undo log still has good bytes for that path:    *)
(* the order backup, manifest, write and restore, delete, unlock of        *)
(* _run_staged_official_build and of its recovery.                         *)
UnbuiltBytesAreCovered ==
    \A t \in Targets : canon[t] \in Good(t) \/ (lock # NoLock /\ \E d \in Dirs : Undoes(d, t))

Staging(p) ==
    \/ pc[p] \in {"prepare", "mkdir", "relock", "relocking", "backup", "manifest",
                 "write", "build", "release"}
    \/ (pc[p] \in {"restore", "remove"} /\ todo[p] = {})

(* At most one live process is past the lock, although the claim is a      *)
(* check followed by a plain write and a dead holder is replaced.          *)
OneStagesAtATime == \A p, q \in Procs : Staging(p) /\ Staging(q) => p = q

(* With no lock file there is no manifest left that a later recovery could *)
(* replay over newer bytes.                                                *)
NoOrphanUndoLog == lock = NoLock => \A d \in Dirs : dir[d].manifest = "none"

(* When the staged build returns, a successful review-apply has put its    *)
(* candidate in every target and any other call has left every target as   *)
(* it was when the call began to stage.                                    *)
AllOrNothing ==
    [][\A p \in Procs : pc[p] = "release" /\ pc'[p] = "returned" =>
        canon' = IF Mode(p) = "review-apply" /\ result[p] = "ok"
                 THEN [t \in Targets |-> p] ELSE prior[p]]_vars

(* The documented promise for failed applications, for commands that may   *)
(* overlap: once every command has returned and every one of them reported *)
(* a failed build, the targets hold the bytes they held before.            *)
FailedApplyRestores ==
    (\A p \in Procs : pc[p] = "returned" /\ result[p] = "failed") => canon = Start0
=============================================================================
