---------------------------- MODULE AtomicLedger -----------------------------
(***************************************************************************)
(* What the campaign ledger promises to the commands of phase 1 and 2: one *)
(* ledger and its normalized authority rows, to which updates are applied  *)
(* atomically.  An update that was acknowledged is in the ledger for good, *)
(* one that was refused is not and never will be, and whatever happens to  *)
(* the command that asked for it, the rows of an update that carries rows  *)
(* appear together with it.                                                *)
(***************************************************************************)
CONSTANTS
    Updates,     \* update identities; each is asked for at most once
    Evidence,    \* the updates that carry normalized authority rows
    Legacy       \* the content a legacy JSON ledger brings

VARIABLES
    ledger,      \* the updates in the ledger; {} before the import
    rows,        \* the updates whose rows are in the database
    fate         \* what became of each update

avars == <<ledger, rows, fate>>

Init ==
    /\ ledger = {} /\ rows = {}
    /\ fate = [u \in Updates |-> "new"]

(* The legacy ledger is imported once.                                     *)
Import ==
    /\ ledger = {}
    /\ ledger' = {Legacy}
    /\ UNCHANGED <<rows, fate>>

Ask(u) ==
    /\ ledger # {} /\ fate[u] = "new"
    /\ fate' = [fate EXCEPT ![u] = "open"]
    /\ UNCHANGED <<ledger, rows>>

(* Updates that were asked for take effect, all at once.  More than one at *)
(* a time: a save that failed leaves its update in the memory of the       *)
(* command, whose next save takes it along.                                *)
Apply(us) ==
    /\ ledger # {}
    /\ \A u \in us : fate[u] = "open"
    /\ ledger' = ledger \cup us
    /\ rows' = rows \cup (us \cap Evidence)
    /\ UNCHANGED fate

Acknowledge(u) ==
    /\ fate[u] = "open" /\ u \in ledger
    /\ fate' = [fate EXCEPT ![u] = "acked"]
    /\ UNCHANGED <<ledger, rows>>

Refuse(u) ==
    /\ fate[u] = "open" /\ u \notin ledger
    /\ fate' = [fate EXCEPT ![u] = "refused"]
    /\ UNCHANGED <<ledger, rows>>

Next ==
    \/ Import
    \/ \E us \in SUBSET Updates : Apply(us)
    \/ \E u \in Updates : Ask(u) \/ Acknowledge(u) \/ Refuse(u)

Spec == Init /\ [][Next]_avars
=============================================================================
