---------------------------- MODULE MCStateRebuild ----------------------------
(* Small instances of StateRebuild: one bundle as it was reviewed, moved,  *)
(* re-imported and rewritten, and histories with one kind of evidence each. *)
EXTENDS StateRebuild, TLC

Bundle(body, text, layout) == [body |-> body, text |-> text, layout |-> layout, support |-> 0]

Packed == Bundle(1, 1, "pack")
Moved == Bundle(1, 1, "mat")
Reimported == Bundle(1, 2, "mat")
Rewritten == Bundle(2, 1, "mat")
AllBundles == {Packed, Moved, Reimported, Rewritten}

At(n, content) == Subject("mat", n, content)
Start(commits, unif, evidence) ==
    [mat |-> [n \in 1..Len(commits) |-> [content |-> commits[n], dep |-> 0]],
     pin |-> Len(commits), unified |-> unif, files |-> evidence]

Passed(id, subject, legacy) == Result(id, subject, "pass", TRUE, legacy)
Verified(id) == [Passed(id, Reviewed(Packed), FALSE) EXCEPT !.verify = TRUE]
Recovered == Recovery(2, Verified(1), {Verified(1)})

Applied == {Verified(1), [kind |-> "phase2", id |-> 2, ev |-> 1, subject |-> Reviewed(Packed)]}
(* The same review answered again, with a failure.                         *)
Contested == Applied \cup {Result(3, Reviewed(Packed), "fail", TRUE, FALSE)}
Relocatable ==
    Applied \cup {[kind |-> "path", id |-> 3, review |-> Phase2Scope, ev |-> 1,
                   source |-> Reviewed(Packed), target |-> At(1, Moved)]}
Delta ==
    {Verified(1), Recovered,
     [kind |-> "build", id |-> 3, commit |-> 1],
     [kind |-> "delta", id |-> 4, recovery |-> Recovered, scope |-> Recovered,
      source |-> FromInput(Packed), target |-> At(1, Reimported), dep |-> 0]}
MatApplied ==
    {Passed(1, At(1, Moved), FALSE),
     [kind |-> "mat", id |-> 2, ev |-> 1, review |-> MatScope, subject |-> At(1, Moved),
      invalidated |-> FALSE],
     Passed(3, PullRequest(Packed), FALSE)}
Rebound ==
    {Verified(1), Recovered, [kind |-> "build", id |-> 4, commit |-> 1],
     [kind |-> "scope", id |-> 3, ev |-> 1, primary |-> Primary(Packed),
      rule |-> "legacy_primary_scope_rebind", subject |-> Subject("workspace", 0, Packed)]}
Sync ==
    {Passed(1, Reviewed(Packed), TRUE), [kind |-> "build", id |-> 2, commit |-> 1],
     Result(4, At(1, Reimported), "fail", TRUE, FALSE),
     [kind |-> "bridge", id |-> 3, type |-> "mat_sync_author_attested_selection",
      authority |-> [kind |-> "decision"], source |-> Reviewed(Packed),
      target |-> At(1, Reimported), dep |-> 0]}

Histories ==
    {Start(<<Moved>>, FALSE, Contested), Start(<<Moved>>, TRUE, Relocatable),
     Start(<<Moved>>, FALSE, Relocatable),
     Start(<<Reimported>>, FALSE, Delta), Start(<<Moved>>, FALSE, MatApplied),
     Start(<<Reimported>>, TRUE, Sync), Start(<<Reimported>>, FALSE, Sync),
     Start(<<Reimported>>, FALSE, Rebound)}
=============================================================================
