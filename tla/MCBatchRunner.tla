---------------------------- MODULE MCBatchRunner ----------------------------
(* Small instances of BatchRunner: a chain of three tasks, cut by Phase 1, *)
(* in the histories that tell the rules for a dependency apart.            *)
EXTENDS BatchRunner, TLC

Chain == 1 :> {} @@ 2 :> {1} @@ 3 :> {2}
Cut == 1 :> {} @@ 2 :> {} @@ 3 :> {2}

History(a, b, c) == 1 :> a @@ 2 :> b @@ 3 :> c
Histories ==
    {History("landed", "landed", "landed"), History("frozen", "landed", "new"),
     History("debt", "landed", "landed"), History("exhausted", "landed", "new"),
     History("triaged", "new", "landed"), History("legacy class", "landed", "landed"),
     History("landed", "triaged", "landed"), History("decided", "landed", "new"),
     History("imported", "landed", "new"), History("landed", "in review", "new")}

(* The histories in which every completed row has a verdict at the start.  *)
Reviewed == {k \in Histories : \A t \in {1, 2, 3} : k[t] # "imported"}
=============================================================================
