--------------------------- MODULE CampaignLedger ----------------------------
(***************************************************************************)
(* The campaign ledger in the workspace database: SQLiteLedgerManager of   *)
(* core/sqlite_ledger.py over the campaign transactions of state_store.py. *)
(*                                                                         *)
(* Every command has a manager of its own with a copy of the ledger and    *)
(* the revision it was read at.  A manager changes the stored row in three *)
(* ways: a plain transaction, which starts from the stored ledger whatever *)
(* its revision; a normalized transaction, which compares revisions and    *)
(* writes authority rows as well; and save, which compares revisions and   *)
(* stores the copy.  A ledger is modelled as the set of updates in it.     *)
(*                                                                         *)
(* Of SQLite: BEGIN IMMEDIATE admits one writer, what was not committed is *)
(* gone when the writer raises or dies.                                    *)
(***************************************************************************)
EXTENDS Naturals

CONSTANTS
    Managers,    \* one manager for each running command
    Updates,     \* update identities; each is asked for at most once
    Evidence,    \* updates that carry normalized authority rows
    Legacy,      \* the content of the legacy JSON ledger
    NoOne,       \* no writer
    None         \* no update, no revision

ASSUME ConstantsAssumption ==
    /\ Evidence \subseteq Updates
    /\ Legacy \notin Updates
    /\ NoOne \notin Managers
    /\ None \notin Updates \cup Nat

VARIABLES
    content,     \* the stored ledger; {} while the campaign has no row
    revision,    \* the stored revision; 0 while the campaign has no row
    rows,        \* the updates whose authority rows are stored
    writer,      \* the manager inside BEGIN IMMEDIATE
    staged,      \* the ledger the open transaction will store
    stagedRows,  \* the rows the open transaction will store
    pc,          \* where each manager is
    mem,         \* the ledger each manager has in memory
    rev,         \* the revision each manager has in memory
    oldMem,      \* what a failing transaction puts back into memory
    way,         \* how the manager writes its update
    upd,         \* the update each manager is writing
    fate         \* what became of each update

db == <<content, revision, rows>>
tx == <<writer, staged, stagedRows>>
vars == <<content, revision, rows, writer, staged, stagedRows,
          pc, mem, rev, oldMem, way, upd, fate>>

Init ==
    /\ content = {} /\ revision = 0 /\ rows = {}
    /\ writer = NoOne /\ staged = {} /\ stagedRows = {}
    /\ pc = [m \in Managers |-> "closed"]
    /\ mem = [m \in Managers |-> {}]
    /\ rev = [m \in Managers |-> None]
    /\ oldMem = [m \in Managers |-> {}]
    /\ way = [m \in Managers |-> "plain"]
    /\ upd = [m \in Managers |-> None]
    /\ fate = [u \in Updates |-> "new"]

Goto(m, l) == pc' = [pc EXCEPT ![m] = l]

-----------------------------------------------------------------------------
(* _load_ledger                                                            *)

AdoptNext(m) ==   \* mutant: a reader takes the revision the next writer will store
    /\ mem' = [mem EXCEPT ![m] = content]
    /\ rev' = [rev EXCEPT ![m] = revision + 1]

(* The stored payload and its revision go into memory together.            *)
Adopt(m) ==
    /\ mem' = [mem EXCEPT ![m] = content]
    /\ rev' = [rev EXCEPT ![m] = revision]

Open(m) ==
    /\ pc[m] = "closed" /\ revision > 0
    /\ Adopt(m)
    /\ Goto(m, "ready")
    /\ UNCHANGED <<db, tx, oldMem, way, upd, fate>>

(* No campaign row: the legacy JSON is read.                               *)
OpenLegacy(m) ==
    /\ pc[m] = "closed" /\ revision = 0
    /\ mem' = [mem EXCEPT ![m] = {Legacy}]
    /\ Goto(m, "import")
    /\ UNCHANGED <<db, tx, rev, oldMem, way, upd, fate>>

(* import_campaign_ledger: insert unless another process was first.        *)
Import(m) ==
    /\ pc[m] = "import" /\ writer = NoOne
    /\ IF revision = 0
       THEN content' = mem[m] /\ revision' = 1
       ELSE UNCHANGED <<content, revision>>
    /\ Goto(m, "reload")
    /\ UNCHANGED <<rows, tx, mem, rev, oldMem, way, upd, fate>>

ReloadRevision(m) ==   \* mutant: the old JSON is paired with the new revision
    /\ pc[m] = "reload"
    /\ rev' = [rev EXCEPT ![m] = revision]
    /\ Goto(m, "ready")
    /\ UNCHANGED <<db, tx, mem, oldMem, way, upd, fate>>

Reload(m) ==
    /\ pc[m] = "reload"
    /\ Adopt(m)
    /\ Goto(m, "ready")
    /\ UNCHANGED <<db, tx, oldMem, way, upd, fate>>

(* recover_from_disk.                                                      *)
Recover(m) ==
    /\ pc[m] = "ready"
    /\ Adopt(m)
    /\ UNCHANGED <<db, tx, pc, oldMem, way, upd, fate>>

-----------------------------------------------------------------------------
(* _run_transaction, mutate_with_normalized_state, save                    *)

(* A command asks for an update.  Before a save it is made in memory.      *)
Ask(m) ==
    /\ pc[m] = "ready"
    /\ \E u \in Updates, w \in {"plain", "normalized", "save"} :
        /\ fate[u] = "new"
        /\ u \in Evidence <=> w = "normalized"
        /\ upd' = [upd EXCEPT ![m] = u]
        /\ way' = [way EXCEPT ![m] = w]
        /\ fate' = [fate EXCEPT ![u] = "open"]
        /\ mem' = IF w = "save" THEN [mem EXCEPT ![m] = @ \cup {u}] ELSE mem
    /\ oldMem' = [oldMem EXCEPT ![m] = mem[m]]
    /\ Goto(m, "begin")
    /\ UNCHANGED <<db, tx, rev>>

AnyRevision(m) == TRUE   \* mutant: the revision is not compared
RevisionHolds(m) == way[m] = "plain" \/ rev[m] = revision

(* BEGIN IMMEDIATE, SELECT, and the comparison of the revision.            *)
Begin(m) ==
    /\ pc[m] = "begin" /\ writer = NoOne
    /\ RevisionHolds(m)
    /\ writer' = m
    /\ Goto(m, "mutate")
    /\ UNCHANGED <<db, staged, stagedRows, mem, rev, oldMem, way, upd, fate>>

MutatedMemory(m) == mem[m]   \* mutant: memory is not put back
RestoredMemory(m) == oldMem[m]

(* The exception handler of the manager: memory as it was.  save has none, *)
(* so its update stays in memory, neither stored nor refused for good.     *)
Raise(m) ==
    /\ Goto(m, "ready")
    /\ upd' = [upd EXCEPT ![m] = None]
    /\ IF way[m] = "save"
       THEN UNCHANGED <<mem, fate>>
       ELSE /\ mem' = [mem EXCEPT ![m] = RestoredMemory(m)]
            /\ fate' = [fate EXCEPT ![upd[m]] = "refused"]
    /\ UNCHANGED <<db, rev, oldMem, way>>

(* StateConcurrencyError, or no write lock within the busy timeout.        *)
BeginRaises(m) ==
    /\ pc[m] = "begin"
    /\ writer # NoOne \/ ~RevisionHolds(m)
    /\ Raise(m)
    /\ UNCHANGED tx

(* The mutator runs on the stored ledger; save stores what is in memory.   *)
Mutate(m) ==
    /\ pc[m] = "mutate"
    /\ staged' = IF way[m] = "save" THEN mem[m] ELSE content \cup {upd[m]}
    /\ mem' = [mem EXCEPT ![m] = staged']
    /\ Goto(m, IF way[m] = "normalized" THEN "normalize" ELSE "commit")
    /\ UNCHANGED <<db, writer, stagedRows, rev, oldMem, way, upd, fate>>

(* The normalized mutator writes its rows on the same connection.          *)
Normalize(m) ==
    /\ pc[m] = "normalize"
    /\ stagedRows' = {upd[m]}
    /\ Goto(m, "commit")
    /\ UNCHANGED <<db, writer, staged, mem, rev, oldMem, way, upd, fate>>

NoTx == writer' = NoOne /\ staged' = {} /\ stagedRows' = {}

(* A mutator raises: ROLLBACK, and memory as it was.                       *)
Rollback(m) ==
    /\ pc[m] \in {"mutate", "normalize", "commit"}
    /\ Raise(m)
    /\ NoTx

CommitLedgerOnly(m) ==   \* mutant: the rows are not in the transaction
    /\ pc[m] = "commit"
    /\ content' = staged /\ revision' = revision + 1
    /\ NoTx
    /\ Goto(m, "committed")
    /\ UNCHANGED <<rows, mem, rev, oldMem, way, upd, fate>>

Commit(m) ==
    /\ pc[m] = "commit"
    /\ content' = staged
    /\ rows' = rows \cup stagedRows
    /\ revision' = revision + 1
    /\ NoTx
    /\ rev' = [rev EXCEPT ![m] = revision + 1]
    /\ Goto(m, "committed")
    /\ UNCHANGED <<mem, oldMem, way, upd, fate>>

(* The call returns: the update is acknowledged.                           *)
Return(m) ==
    /\ pc[m] = "committed"
    /\ fate' = [fate EXCEPT ![upd[m]] = "acked"]
    /\ upd' = [upd EXCEPT ![m] = None]
    /\ Goto(m, "ready")
    /\ UNCHANGED <<db, tx, mem, rev, oldMem, way>>

(* The command ends or is killed, with whatever it had not committed.      *)
Exit(m) ==
    /\ pc[m] # "closed"
    /\ IF writer = m THEN NoTx ELSE UNCHANGED tx
    /\ Goto(m, "closed")
    /\ mem' = [mem EXCEPT ![m] = {}]
    /\ rev' = [rev EXCEPT ![m] = None]
    /\ oldMem' = [oldMem EXCEPT ![m] = {}]
    /\ upd' = [upd EXCEPT ![m] = None]
    /\ UNCHANGED <<db, way, fate>>

Load(m) == Open(m) \/ OpenLegacy(m) \/ Import(m) \/ Reload(m) \/ Recover(m)
Write(m) == Ask(m) \/ Begin(m) \/ BeginRaises(m) \/ Mutate(m) \/ Normalize(m)
            \/ Rollback(m) \/ Commit(m) \/ Return(m)

Next == \E m \in Managers : Load(m) \/ Write(m) \/ Exit(m)

Spec == Init /\ [][Next]_vars

-----------------------------------------------------------------------------
Ledgers == SUBSET (Updates \cup {Legacy})
Labels == {"closed", "import", "reload", "ready", "begin", "mutate", "normalize",
           "commit", "committed"}

(* Every variable has its type; no manager is ahead of the store.          *)
TypeOK ==
    /\ content \in Ledgers /\ revision \in Nat /\ rows \subseteq Updates
    /\ writer \in Managers \cup {NoOne}
    /\ staged \in Ledgers /\ stagedRows \subseteq Updates
    /\ pc \in [Managers -> Labels]
    /\ mem \in [Managers -> Ledgers]
    /\ rev \in [Managers -> (0..revision) \cup {None}]
    /\ oldMem \in [Managers -> Ledgers]
    /\ way \in [Managers -> {"plain", "normalized", "save"}]
    /\ upd \in [Managers -> Updates \cup {None}]
    /\ fate \in [Updates -> {"new", "open", "acked", "refused"}]

(* What a command was told about its update is true from then on: an       *)
(* acknowledged update is in the stored ledger, whatever other managers    *)
(* with older copies write later, and a refused one is not.                *)
FateIsTruthful ==
    \A u \in Updates : /\ fate[u] = "acked" => u \in content
                       /\ fate[u] = "refused" => u \notin content

(* The ledger and its authority rows never part: the rows stored are those *)
(* of exactly the updates in the ledger that carry rows.                   *)
RowsFollowLedger == rows = content \cap Evidence

HasLedger(m) == pc[m] \notin {"closed", "import", "reload"}

(* Equal revisions mean that the copy lacks nothing of the stored ledger,  *)
(* which is what lets save store the copy after comparing revisions only.  *)
MemoryAtRevision ==
    \A m \in Managers : HasLedger(m) /\ rev[m] = revision => content \subseteq mem[m]

Atomic == INSTANCE AtomicLedger WITH ledger <- content

(* All of it behaves as one ledger with atomic updates.                    *)
ImplementsAtomicLedger == Atomic!Spec
=============================================================================
