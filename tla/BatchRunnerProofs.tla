-------------------------- MODULE BatchRunnerProofs --------------------------
(***************************************************************************)
(* What a batch may call clean, and that it never waits for nobody, for    *)
(* any tasks, dependencies and histories, and any number of events.        *)
(***************************************************************************)
EXTENDS BatchRunner, WellFoundedInduction, TLAPS

Statuses ==
    {"DISCOVERED", "PACKED", "COMPLETED", "FAILED_LOCAL", "COMPLETED_WITH_PROOF_DEBT"}
Verdicts == {"pass", "fail", "blocked"}

Rows ==
    [status : Statuses, claim : {None} \cup Verdicts, deps : SUBSET Tasks,
     receipt : {None} \cup [origin : Bases, post : Bases],
     class : {"ok", "illegal"}, hist : {None} \cup Verdicts,
     reconciled : BOOLEAN, bound : BOOLEAN,
     stop : {None, "diagnoser_required", "early", "exhausted"},
     verify : {None, "failed", "review_existing_required", "codex_review_required"},
     triage : BOOLEAN]

Requests == [subject : 1..MaxVersions, basis : Bases, answer : {None} \cup Verdicts]

Tips == [file : 1..MaxVersions, up : SUBSET (Tasks \X (0..MaxVersions))]

(* What a reviewer can pass: a version of a task over its dependencies.    *)
Passable == Tasks \X (1..MaxVersions) \X SUBSET Tasks

(* What kind of value each variable holds, record by record.               *)
Shape ==
    /\ row \in [Tasks -> Rows]
    /\ \A t \in Tasks : row[t].deps \in {Planned[t], Replanned[t]}
    /\ canon \in [Tasks -> 0..MaxVersions]
    /\ request \in [Tasks -> {None} \cup Requests]
    /\ frozen \in [Tasks -> [active : BOOLEAN, tip : {None} \cup Tips, revoked : BOOLEAN]]
    /\ head \in [Tasks -> {None} \cup [receipt : {None} \cup Tips, fresh : BOOLEAN]]
    /\ \A t \in Tasks : head[t] # None => head[t].receipt = frozen[t].tip
    /\ accepted \in [Tasks -> {None} \cup Tips]
    /\ passed \subseteq Passable
    /\ decision \subseteq Chapters1to4
    /\ left \in 0..MaxActions
    /\ \A x \in queue : x.task \in Tasks /\ x.action \in Executable

(* A basis names the dependencies it was computed over.                    *)
Over(basis) == {u[1] : u \in basis.up}

(* An answer that passes is on record for the version and the dependencies *)
(* that were asked about.                                                  *)
RequestInv ==
    \A t \in Tasks : request[t] # None /\ request[t].answer = "pass" =>
        <<t, request[t].subject, Over(request[t].basis)>> \in passed

(* A receipt that the row is bound to says that what it was written for    *)
(* was passed, unless it is of the time before the classes.                *)
ReceiptInv ==
    \A t \in Tasks : row[t].receipt # None /\ row[t].bound /\ row[t].class = "ok" =>
        <<t, row[t].receipt.post.file, Over(row[t].receipt.post)>> \in passed

(* A result on file that passes, and is of the time of the classes, says   *)
(* that some version of the task was passed.                               *)
HistoryInv ==
    \A t \in Tasks : row[t].hist = "pass" /\ row[t].class = "ok" => \E p \in passed : p[1] = t

(* A frozen dependency is in force for what the owner accepted last.       *)
FrozenInv == \A t \in Tasks : frozen[t].active => accepted[t] = frozen[t].tip

IInv == Shape /\ RequestInv /\ ReceiptInv /\ HistoryInv /\ FrozenInv

(* Shape says everything that TypeOK says.                                 *)
LEMMA ShapeIsTyped == Shape => TypeOK
  <1>. SUFFICES ASSUME Shape PROVE TypeOK
    OBVIOUS
  <1>1. ASSUME NEW t \in Tasks
        PROVE  /\ row[t].status \in Statuses
               /\ row[t].claim \in {None, "pass", "fail", "blocked"}
               /\ row[t].deps \in {Planned[t], Replanned[t]}
               /\ row[t].stop \in {None, "diagnoser_required", "early", "exhausted"}
               /\ row[t].verify \in {None, "failed", "review_existing_required",
                                     "codex_review_required"}
               /\ row[t].receipt # None =>
                     {row[t].receipt.origin, row[t].receipt.post} \subseteq Bases
    <2>. row[t] \in Rows
      BY DEF Shape
    <2>. QED
      BY DEF Shape, Rows, Verdicts
  <1>2. ASSUME NEW t \in Tasks
        PROVE  /\ request[t] # None => request[t].basis \in Bases
                                       /\ request[t].subject \in 1..MaxVersions
               /\ frozen[t].tip # None => frozen[t].tip.file \in 1..MaxVersions
               /\ head[t] # None => head[t].receipt = frozen[t].tip
    BY DEF Shape, Requests, Tips
  <1>. QED
    BY <1>1, <1>2 DEF TypeOK, Shape, Statuses

-----------------------------------------------------------------------------
(* Numbers.                                                                *)

LEMMA Least ==
  ASSUME NEW S, S \subseteq Nat, S # {}
  PROVE  \E n \in S : \A m \in S : n <= m
  <1>1. PICK n \in S : \A m \in S : ~ (<<m, n>> \in OpToRel(<, Nat))
    BY NatLessThanWellFounded, WFMin
  <1>2. \A m \in S : ~ (m < n)
    BY <1>1 DEF OpToRel
  <1>. QED
    BY <1>2

(* The largest of a set of numbers that has a bound.                       *)
LEMMA Greatest ==
  ASSUME NEW bound \in Nat, NEW S, S \subseteq 0..bound, S # {}
  PROVE  Max(S) \in S /\ \A m \in S : m <= Max(S)
  <1>. DEFINE gaps == {bound - m : m \in S}
  <1>1. PICK g \in gaps : \A h \in gaps : g <= h
    <2>1. PICK m \in S : TRUE
      OBVIOUS
    <2>2. bound - m \in gaps
      OBVIOUS
    <2>3. \A n \in S : bound - n \in Nat
      OBVIOUS
    <2>4. gaps \subseteq Nat
      BY <2>3
    <2>. QED
      BY <2>2, <2>4, Least
  <1>2. PICK n \in S : g = bound - n
    OBVIOUS
  <1>3. \A m \in S : n >= m
    BY <1>1, <1>2
  <1>. QED
    BY <1>3 DEF Max

(* A basis computed from well-formed rows and files.                       *)
LEMMA BasisTyped ==
  ASSUME NEW rw \in [Tasks -> Rows], NEW cn \in [Tasks -> 0..MaxVersions], NEW t \in Tasks
  PROVE  BasisOf(rw, cn, t) \in Bases /\ Over(BasisOf(rw, cn, t)) = rw[t].deps
  <1>1. rw[t].deps \subseteq Tasks /\ \A d \in Tasks : rw[d].status \in Statuses
    BY DEF Rows
  <1>2. Over(BasisOf(rw, cn, t)) = rw[t].deps
    <2>. DEFINE up == {<<d, rw[d].status, cn[d]>> : d \in rw[t].deps}
    <2>1. BasisOf(rw, cn, t).up = up
      BY DEF BasisOf
    <2>2. \A d \in rw[t].deps : <<d, rw[d].status, cn[d]>>[1] = d
      OBVIOUS
    <2>3. {u[1] : u \in up} = rw[t].deps
      BY <2>2
    <2>. QED
      BY <2>1, <2>3 DEF Over
  <1>. QED
    BY <1>1, <1>2 DEF BasisOf, Bases, Statuses

LEMMA FresherTyped ==
  ASSUME Shape, NEW t \in Tasks
  PROVE  Fresher(t) \in Nat \ {0} /\ canon[t] < Fresher(t)
  <1>. DEFINE S == {canon[t]} \cup {p[2] : p \in {q \in passed : q[1] = t}}
                   \cup (IF request[t] = None THEN {} ELSE {request[t].subject})
  <1>1. MaxVersions \in Nat
    BY BatchAssumption
  <1>2. canon[t] \in 0..MaxVersions
    BY DEF Shape
  <1>3. \A p \in passed : p[2] \in 0..MaxVersions
    BY <1>1 DEF Shape, Passable
  <1>4. request[t] # None => request[t].subject \in 0..MaxVersions
    BY <1>1 DEF Shape, Requests
  <1>5. Max(S) \in 0..MaxVersions /\ canon[t] <= Max(S)
    <2>1. S \subseteq 0..MaxVersions /\ canon[t] \in S
      BY <1>2, <1>3, <1>4
    <2>. HIDE DEF S
    <2>. QED
      BY <1>1, <2>1, Greatest
  <1>. QED
    BY <1>5, <1>1, <1>2 DEF Fresher

-----------------------------------------------------------------------------
(* The start.                                                              *)

LEMMA StartTyped ==
  ASSUME NEW t \in Tasks, NEW kind \in Kinds
  PROVE  /\ StartRow(t, kind) \in Rows
         /\ StartRow(t, kind).deps = Planned[t]
         /\ StartRow(t, kind).claim = "pass" <=> kind \in {"landed", "legacy class"}
         /\ StartRow(t, kind).hist = "pass" => kind \in {"landed", "legacy class"}
         /\ StartRow(t, kind).class = "ok" <=> kind # "legacy class"
         /\ StartRow(t, kind).receipt = None
  <1>1. Planned[t] \subseteq Tasks
    BY BatchAssumption
  <1>2. NewRow(t) \in Rows
    BY <1>1 DEF NewRow, Rows, Statuses
  <1>3. None \notin {"pass", "fail", "blocked"}
    BY BatchAssumption
  <1>4. CASE kind = "new"
    BY <1>2, <1>3, <1>4 DEF StartRow, NewRow
  <1>5. CASE kind = "landed"
    BY <1>1, <1>5 DEF StartRow, NewRow, Rows, Statuses, Verdicts
  <1>6. CASE kind = "legacy class"
    BY <1>1, <1>6 DEF StartRow, NewRow, Rows, Statuses, Verdicts
  <1>7. CASE kind = "triaged"
    BY <1>1, <1>7 DEF StartRow, NewRow, Rows, Statuses, Verdicts
  <1>8. CASE kind = "debt"
    BY <1>1, <1>8 DEF StartRow, NewRow, Rows, Statuses, Verdicts
  <1>9. CASE kind = "exhausted"
    BY <1>1, <1>9 DEF StartRow, NewRow, Rows, Statuses, Verdicts
  <1>10. CASE kind \in {"frozen", "decided"}
    BY <1>1, <1>10 DEF StartRow, NewRow, Rows, Statuses, Verdicts
  <1>11. CASE kind = "in review"
    BY <1>1, <1>3, <1>11 DEF StartRow, NewRow, Rows, Statuses, Verdicts
  <1>12. CASE kind = "imported"
    BY <1>1, <1>3, <1>12 DEF StartRow, NewRow, Rows, Statuses, Verdicts
  <1>. QED
    BY <1>4, <1>5, <1>6, <1>7, <1>8, <1>9, <1>10, <1>11, <1>12 DEF Kinds

LEMMA Initially == Init => IInv
  <1>. SUFFICES ASSUME Init PROVE IInv
    OBVIOUS
  <1>1. PICK k \in Starts :
          LET rw == [t \in Tasks |-> StartRow(t, k[t])]
              Of(kinds) == {t \in Tasks : k[t] \in kinds}
              Froze(t) == [file |-> canon[t], up |-> {<<d, canon[d]>> : d \in Planned[t]}]
              Tip(t) == CASE k[t] = "frozen"  -> Froze(t)
                          [] k[t] = "decided" -> [Froze(t) EXCEPT !.file = 1]
                          [] OTHER            -> None
          IN  /\ canon = [t \in Tasks |-> CASE k[t] \in {"new", "in review", "triaged", "exhausted"} -> 0
                                           [] k[t] = "decided" -> 2
                                           [] OTHER            -> 1]
              /\ row = [t \in Tasks |->
                          IF rw[t].claim = "pass"
                          THEN [rw[t] EXCEPT !.bound = TRUE,
                                             !.receipt = [origin |-> BasisOf(rw, canon, t),
                                                          post |-> BasisOf(rw, canon, t)]]
                          ELSE rw[t]]
              /\ request = [t \in Tasks |->
                      IF k[t] = "in review"
                      THEN [subject |-> 1, basis |-> BasisOf(rw, canon, t), answer |-> None]
                      ELSE None]
              /\ passed = {<<t, 1, rw[t].deps>> : t \in Of({"landed"})}
              /\ decision = Of({"frozen", "decided"})
              /\ accepted = [t \in Tasks |-> IF k[t] = "frozen" THEN Tip(t) ELSE None]
              /\ frozen = [t \in Tasks |-> [active |-> k[t] = "frozen", tip |-> Tip(t),
                                            revoked |-> k[t] = "decided"]]
              /\ head = [t \in Tasks |-> IF Tip(t) = None THEN None
                                         ELSE [receipt |-> Tip(t), fresh |-> k[t] = "frozen"]]
    BY DEF Init
  <1>. DEFINE rw == [t \in Tasks |-> StartRow(t, k[t])]
              Froze(t) == [file |-> canon[t], up |-> {<<d, canon[d]>> : d \in Planned[t]}]
              Tip(t) == CASE k[t] = "frozen"  -> Froze(t)
                          [] k[t] = "decided" -> [Froze(t) EXCEPT !.file = 1]
                          [] OTHER            -> None
  <1>2. \A t \in Tasks : k[t] \in Kinds
    BY BatchAssumption
  <1>3. canon \in [Tasks -> 0..MaxVersions]
    <2>1. canon = [t \in Tasks |-> CASE k[t] \in {"new", "in review", "triaged", "exhausted"} -> 0
                                     [] k[t] = "decided" -> 2
                                     [] OTHER            -> 1]
      BY <1>1
    <2>2. {0, 1, 2} \subseteq 0..MaxVersions
      BY BatchAssumption
    <2>. QED
      BY <2>1, <2>2
  <1>4. row = [t \in Tasks |-> IF rw[t].claim = "pass"
                             THEN [rw[t] EXCEPT !.bound = TRUE,
                                                !.receipt = [origin |-> BasisOf(rw, canon, t),
                                                             post |-> BasisOf(rw, canon, t)]]
                             ELSE rw[t]]
    BY <1>1
  <1>5. rw \in [Tasks -> Rows]
    BY <1>2, StartTyped
  <1>. HIDE DEF rw
  <1>6. \A t \in Tasks : BasisOf(rw, canon, t) \in Bases /\ Over(BasisOf(rw, canon, t)) = rw[t].deps
    BY <1>3, <1>5, BasisTyped
  <1>7. ASSUME NEW t \in Tasks
        PROVE  /\ row[t] \in Rows
               /\ row[t].deps = Planned[t]
               /\ row[t].hist = "pass" => k[t] \in {"landed", "legacy class"}
               /\ row[t].receipt # None => k[t] \in {"landed", "legacy class"}
               /\ row[t].receipt # None => row[t].receipt.post = BasisOf(rw, canon, t)
               /\ row[t].class = "ok" <=> k[t] # "legacy class"
    <2>1. /\ rw[t].deps = Planned[t]
          /\ rw[t].claim = "pass" <=> k[t] \in {"landed", "legacy class"}
          /\ rw[t].hist = "pass" => k[t] \in {"landed", "legacy class"}
          /\ rw[t].class = "ok" <=> k[t] # "legacy class"
          /\ rw[t].receipt = None
      <3>. DEFINE s == StartRow(t, k[t])
      <3>1. rw[t] = s
        BY DEF rw
      <3>2. k[t] \in Kinds
        BY <1>2
      <3>3. /\ s.deps = Planned[t]
            /\ s.claim = "pass" <=> k[t] \in {"landed", "legacy class"}
            /\ s.hist = "pass" => k[t] \in {"landed", "legacy class"}
            /\ s.class = "ok" <=> k[t] # "legacy class"
            /\ s.receipt = None
        BY <3>2, StartTyped
      <3>. HIDE DEF s
      <3>. QED
        BY <3>1, <3>3
    <2>2. rw[t] \in Rows
      BY <1>5
    <2>3. CASE rw[t].claim = "pass"
      <3>1. row[t] = [rw[t] EXCEPT !.bound = TRUE,
                                   !.receipt = [origin |-> BasisOf(rw, canon, t),
                                                post |-> BasisOf(rw, canon, t)]]
        BY <1>4, <2>3
      <3>2. [origin |-> BasisOf(rw, canon, t), post |-> BasisOf(rw, canon, t)]
              \in [origin : Bases, post : Bases]
        BY <1>6
      <3>3. row[t] \in Rows
        BY <2>2, <3>1, <3>2 DEF Rows
      <3>4. /\ row[t].deps = rw[t].deps /\ row[t].hist = rw[t].hist
            /\ row[t].class = rw[t].class
            /\ row[t].receipt.post = BasisOf(rw, canon, t)
        BY <2>2, <3>1 DEF Rows
      <3>. QED
        BY <2>1, <2>3, <3>3, <3>4
    <2>4. CASE rw[t].claim # "pass"
      <3>1. row[t] = rw[t]
        BY <1>4, <2>4
      <3>2. row[t].receipt = None
        BY <2>1, <3>1
      <3>. QED
        BY <2>1, <2>2, <2>4, <3>1, <3>2
    <2>. QED
      BY <2>3, <2>4
  <1>8. ASSUME NEW t \in Tasks
        PROVE  /\ Tip(t) \in {None} \cup Tips
               /\ k[t] = "frozen" => accepted[t] = Tip(t)
    <2>1. MaxVersions \in Nat /\ MaxVersions >= 2 /\ Planned[t] \subseteq Tasks
      BY BatchAssumption
    <2>2. k[t] \in {"frozen", "decided"} => Froze(t) \in Tips
      <3>. SUFFICES ASSUME k[t] \in {"frozen", "decided"} PROVE Froze(t) \in Tips
        OBVIOUS
      <3>1. canon[t] \in 1..MaxVersions
        <4>1. canon = [u \in Tasks |-> CASE k[u] \in {"new", "in review", "triaged", "exhausted"} -> 0
                                         [] k[u] = "decided" -> 2
                                         [] OTHER            -> 1]
          BY <1>1
        <4>2. canon[t] \in {1, 2}
          BY <4>1
        <4>. QED
          BY <2>1, <4>2
      <3>2. {<<d, canon[d]>> : d \in Planned[t]} \subseteq Tasks \X (0..MaxVersions)
        BY <1>3, <2>1
      <3>. QED
        BY <3>1, <3>2 DEF Tips
    <2>3. k[t] = "decided" => [Froze(t) EXCEPT !.file = 1] \in Tips
      <3>1. ASSUME NEW x \in Tips PROVE [x EXCEPT !.file = 1] \in Tips
        BY <2>1 DEF Tips
      <3>. QED
        BY <2>2, <3>1
    <2>. QED
      BY <1>1, <2>2, <2>3
  <1>9. Shape
    <2>1. row \in [Tasks -> Rows]
      BY <1>4, <1>7
    <2>2. /\ frozen \in [Tasks -> [active : BOOLEAN, tip : {None} \cup Tips, revoked : BOOLEAN]]
          /\ head \in [Tasks -> {None} \cup [receipt : {None} \cup Tips, fresh : BOOLEAN]]
          /\ \A t \in Tasks : head[t] # None => head[t].receipt = frozen[t].tip
          /\ accepted \in [Tasks -> {None} \cup Tips]
      <3>1. /\ accepted = [t \in Tasks |-> IF k[t] = "frozen" THEN Tip(t) ELSE None]
            /\ frozen = [t \in Tasks |-> [active |-> k[t] = "frozen", tip |-> Tip(t),
                                          revoked |-> k[t] = "decided"]]
            /\ head = [t \in Tasks |-> IF Tip(t) = None THEN None
                                       ELSE [receipt |-> Tip(t), fresh |-> k[t] = "frozen"]]
        BY <1>1
      <3>. HIDE DEF Tip
      <3>. QED
        BY <3>1, <1>8
    <2>3. passed \subseteq Passable
      <3>1. 1 \in 1..MaxVersions
        BY BatchAssumption
      <3>2. \A t \in Tasks : rw[t].deps \subseteq Tasks
        BY <1>5 DEF Rows
      <3>3. passed = {<<t, 1, rw[t].deps>> : t \in {u \in Tasks : k[u] \in {"landed"}}}
        BY <1>1 DEF rw
      <3>. QED
        BY <3>1, <3>2, <3>3 DEF Passable
    <2>4. decision \subseteq Chapters1to4
      BY <1>1, BatchAssumption
    <2>5. request \in [Tasks -> {None} \cup Requests]
      <3>1. 1 \in 1..MaxVersions
        BY BatchAssumption
      <3>2. ASSUME NEW t \in Tasks
            PROVE  [subject |-> 1, basis |-> BasisOf(rw, canon, t), answer |-> None] \in Requests
        BY <1>6, <3>1 DEF Requests
      <3>3. request = [t \in Tasks |->
                IF k[t] = "in review"
                THEN [subject |-> 1, basis |-> BasisOf(rw, canon, t), answer |-> None]
                ELSE None]
        BY <1>1 DEF rw
      <3>. QED
        BY <3>2, <3>3
    <2>6. left \in 0..MaxActions /\ \A x \in queue : x.task \in Tasks /\ x.action \in Executable
      <3>1. left = 0 /\ queue = {}
        BY DEF Init
      <3>. QED
        BY <3>1, BatchAssumption
    <2>7. \A t \in Tasks : row[t].deps \in {Planned[t], Replanned[t]}
      BY <1>7
    <2>. QED
      BY <1>3, <2>1, <2>2, <2>3, <2>4, <2>5, <2>6, <2>7 DEF Shape
  <1>10. RequestInv
    <2>1. \A t \in Tasks : request[t] # None => request[t].answer = None
      BY <1>1
    <2>. QED
      BY <2>1, BatchAssumption DEF RequestInv
  <1>11. ReceiptInv
    <2>. SUFFICES ASSUME NEW t \in Tasks, row[t].receipt # None, row[t].class = "ok"
                  PROVE  <<t, row[t].receipt.post.file, Over(row[t].receipt.post)>> \in passed
      BY DEF ReceiptInv
    <2>1. k[t] = "landed"
      BY <1>7
    <2>2. BasisOf(rw, canon, t).file = 1
      BY <1>1, <2>1 DEF BasisOf
    <2>3. <<t, 1, rw[t].deps>> \in passed
      BY <1>1, <2>1 DEF rw
    <2>. QED
      BY <1>6, <1>7, <2>2, <2>3
  <1>12. HistoryInv
    <2>. SUFFICES ASSUME NEW t \in Tasks, row[t].hist = "pass", row[t].class = "ok"
                  PROVE  \E p \in passed : p[1] = t
      BY DEF HistoryInv
    <2>1. k[t] = "landed"
      BY <1>7
    <2>2. <<t, 1, rw[t].deps>> \in passed
      BY <1>1, <2>1 DEF rw
    <2>. QED
      BY <2>2
  <1>13. FrozenInv
    BY <1>1, <1>8 DEF FrozenInv
  <1>. QED
    BY <1>9, <1>10, <1>11, <1>12, <1>13 DEF IInv

-----------------------------------------------------------------------------
(* What a step may do to one task.                                         *)

(* A row r, a canonical file c and a request q that task t can have when   *)
(* what reviewers passed is P.                                             *)
Sound(t, r, q, P) ==
    /\ q # None /\ q.answer = "pass" => <<t, q.subject, Over(q.basis)>> \in P
    /\ r.receipt # None /\ r.bound /\ r.class = "ok" =>
          <<t, r.receipt.post.file, Over(r.receipt.post)>> \in P
    /\ r.hist = "pass" /\ r.class = "ok" => \E p \in P : p[1] = t

Fits(t, r, c, q) ==
    /\ r \in Rows /\ r.deps \in {Planned[t], Replanned[t]}
    /\ c \in 0..MaxVersions
    /\ q \in {None} \cup Requests

TaskStep(t) ==
    /\ passed \subseteq passed'
    /\ \E r, c, q :
        /\ Fits(t, r, c, q) /\ Sound(t, r, q, passed')
        /\ row' = [row EXCEPT ![t] = r]
        /\ canon' = [canon EXCEPT ![t] = c]
        /\ request' = [request EXCEPT ![t] = q]

LEMMA SoundNow ==
  ASSUME IInv, NEW t \in Tasks
  PROVE  Fits(t, row[t], canon[t], request[t]) /\ Sound(t, row[t], request[t], passed)
  <1>1. Fits(t, row[t], canon[t], request[t])
    BY DEF IInv, Shape, Fits
  <1>2. row[t] \in Rows
    BY DEF IInv, Shape
  <1>3. row[t].reconciled \in BOOLEAN
    BY <1>2 DEF Rows
  <1>. QED
    BY <1>1, <1>3 DEF IInv, RequestInv, ReceiptInv, HistoryInv, Sound

LEMMA SoundAfter ==
  ASSUME IInv, NEW t \in Tasks, TaskStep(t)
  PROVE  /\ row' \in [Tasks -> Rows] /\ canon' \in [Tasks -> 0..MaxVersions]
         /\ request' \in [Tasks -> {None} \cup Requests]
         /\ \A u \in Tasks : row'[u].deps \in {Planned[u], Replanned[u]}
         /\ RequestInv' /\ ReceiptInv' /\ HistoryInv'
  <1>1. PICK r, c, q :
          /\ Fits(t, r, c, q) /\ Sound(t, r, q, passed')
          /\ row' = [row EXCEPT ![t] = r]
          /\ canon' = [canon EXCEPT ![t] = c]
          /\ request' = [request EXCEPT ![t] = q]
    BY DEF TaskStep
  <1>2. /\ row \in [Tasks -> Rows] /\ canon \in [Tasks -> 0..MaxVersions]
        /\ request \in [Tasks -> {None} \cup Requests]
    BY DEF IInv, Shape
  <1>3. passed \subseteq passed'
    BY DEF TaskStep
  <1>4. ASSUME NEW u \in Tasks
        PROVE  Fits(u, row'[u], canon'[u], request'[u]) /\ Sound(u, row'[u], request'[u], passed')
    <2>1. CASE u = t
      BY <1>1, <1>2, <2>1
    <2>2. CASE u # t
      <3>1. row'[u] = row[u] /\ canon'[u] = canon[u] /\ request'[u] = request[u]
        BY <1>1, <1>2, <2>2
      <3>2. Fits(u, row[u], canon[u], request[u]) /\ Sound(u, row[u], request[u], passed)
        BY SoundNow
      <3>3. Sound(u, row[u], request[u], passed')
        BY <3>2, <1>3 DEF Sound
      <3>. QED
        BY <3>1, <3>2, <3>3
    <2>. QED
      BY <2>1, <2>2
  <1>5. /\ row' \in [Tasks -> Rows] /\ canon' \in [Tasks -> 0..MaxVersions]
        /\ request' \in [Tasks -> {None} \cup Requests]
    BY <1>1, <1>2 DEF Fits
  <1>6. \A u \in Tasks : row'[u].deps \in {Planned[u], Replanned[u]}
    BY <1>4 DEF Fits
  <1>7. RequestInv' /\ ReceiptInv' /\ HistoryInv'
    BY <1>4 DEF Sound, RequestInv, ReceiptInv, HistoryInv
  <1>. QED
    BY <1>5, <1>6, <1>7

LEMMA Unmoved ==
  ASSUME IInv, NEW t \in Tasks
  PROVE  /\ row = [row EXCEPT ![t] = row[t]]
         /\ canon = [canon EXCEPT ![t] = canon[t]]
         /\ request = [request EXCEPT ![t] = request[t]]
  BY DEF IInv, Shape

LEMMA Asking ==
  ASSUME IInv, NEW t \in Tasks, NEW subject \in 1..MaxVersions
  PROVE  Asked(subject, t) \in Requests /\ Asked(subject, t).answer # "pass"
  <1>1. Basis(t) \in Bases
    BY BasisTyped DEF IInv, Shape, Basis
  <1>. QED
    BY <1>1, BatchAssumption DEF Asked, Requests

LEMMA ReviewExistingStep ==
  ASSUME IInv, NEW t \in Tasks, ReviewExisting(t)
  PROVE  TaskStep(t)
  <1>1. Fits(t, row[t], canon[t], request[t]) /\ Sound(t, row[t], request[t], passed)
    BY SoundNow
  <1>2. canon' = canon /\ passed' = passed
    BY DEF ReviewExisting
  <1>3. CASE UNCHANGED <<row, request>>
    BY <1>1, <1>2, <1>3, Unmoved DEF TaskStep
  <1>4. CASE /\ Official(t)
             /\ request' = [request EXCEPT ![t] = Asked(canon[t], t)]
             /\ row' = [row EXCEPT ![t].verify = "review_existing_required"]
    <2>. DEFINE r == [row[t] EXCEPT !.verify = "review_existing_required"]
    <2>1. canon[t] \in 1..MaxVersions
      BY <1>1, <1>4, BatchAssumption DEF Fits, Official
    <2>2. Fits(t, r, canon[t], Asked(canon[t], t)) /\ Sound(t, r, Asked(canon[t], t), passed')
      BY <1>1, <1>2, <2>1, Asking DEF Fits, Sound, Rows
    <2>. QED
      BY <1>2, <1>4, <2>2, Unmoved DEF TaskStep
  <1>5. CASE /\ request' = [request EXCEPT ![t] = None]
             /\ row' = [row EXCEPT ![t].verify = "failed"]
    <2>. DEFINE r == [row[t] EXCEPT !.verify = "failed"]
    <2>1. Fits(t, r, canon[t], None) /\ Sound(t, r, None, passed')
      BY <1>1, <1>2 DEF Fits, Sound, Rows
    <2>. QED
      BY <1>2, <1>5, <2>1, Unmoved DEF TaskStep
  <1>. QED
    BY <1>3, <1>4, <1>5 DEF ReviewExisting

LEMMA LandedStep ==
  ASSUME IInv, NEW t \in Tasks, Answered(t), request[t].answer = "pass",
         request[t].basis = Basis(t), request' = [request EXCEPT ![t] = None],
         Landed(t), passed' = passed
  PROVE  TaskStep(t)
  <1>. DEFINE q  == request[t]
              cn == [canon EXCEPT ![t] = q.subject]
              rw == [row EXCEPT ![t].status = "COMPLETED"]
              post == BasisOf(rw, cn, t)
              r  == [rw[t] EXCEPT !.claim = "pass", !.class = "ok", !.hist = "pass",
                            !.reconciled = FALSE, !.verify = None, !.stop = None, !.bound = TRUE,
                            !.receipt = [origin |-> q.basis, post |-> post]]
  <1>1. Fits(t, row[t], canon[t], q) /\ Sound(t, row[t], q, passed)
    BY SoundNow
  <1>2. q \in Requests /\ q # None
    BY <1>1 DEF Fits, Answered
  <1>3. row \in [Tasks -> Rows] /\ canon \in [Tasks -> 0..MaxVersions]
    BY DEF IInv, Shape
  <1>4. rw \in [Tasks -> Rows] /\ rw[t] = [row[t] EXCEPT !.status = "COMPLETED"]
    BY <1>3 DEF Rows, Statuses
  <1>5. q.subject \in 0..MaxVersions /\ cn \in [Tasks -> 0..MaxVersions]
    BY <1>2, <1>3, BatchAssumption DEF Requests
  <1>6. rw[t].deps = row[t].deps
    BY <1>1, <1>4 DEF Fits, Rows
  <1>7. post \in Bases /\ Over(post) = row[t].deps /\ post.file = q.subject
    <2>1. post \in Bases /\ Over(post) = rw[t].deps
      <3>. HIDE DEF rw, cn
      <3>. QED
        BY <1>4, <1>5, BasisTyped
    <2>2. post.file = q.subject
      BY <1>3 DEF BasisOf
    <2>. QED
      BY <1>6, <2>1, <2>2
  <1>8. Over(q.basis) = row[t].deps
    BY <1>3, BasisTyped DEF Basis
  <1>9. row' = [row EXCEPT ![t] = r] /\ canon' = [canon EXCEPT ![t] = q.subject]
    BY DEF Landed
  <1>. HIDE DEF post
  <1>10. Fits(t, r, q.subject, None)
    <2>1. [origin |-> q.basis, post |-> post] \in [origin : Bases, post : Bases]
      BY <1>2, <1>7 DEF Requests
    <2>2. rw[t] \in Rows
      BY <1>1, <1>4 DEF Fits, Rows, Statuses
    <2>3. r \in Rows /\ r.deps = rw[t].deps
      <3>. HIDE DEF rw
      <3>. QED
        BY <2>1, <2>2 DEF Rows, Verdicts
    <2>. QED
      BY <1>1, <1>5, <1>6, <2>3 DEF Fits
  <1>11. Sound(t, r, None, passed')
    <2>1. rw[t] \in Rows
      BY <1>1, <1>4 DEF Fits, Rows, Statuses
    <2>2. r.receipt.post = post
      <3>. HIDE DEF rw
      <3>. QED
        BY <2>1 DEF Rows
    <2>3. <<t, q.subject, Over(q.basis)>> \in passed
      BY <1>1, <1>2 DEF Sound
    <2>4. \E p \in passed' : p[1] = t
      BY <2>3
    <2>. HIDE DEF r
    <2>. QED
      BY <1>7, <1>8, <2>2, <2>3, <2>4 DEF Sound
  <1>. QED
    BY <1>9, <1>10, <1>11 DEF TaskStep

LEMMA NotLandedStep ==
  ASSUME IInv, NEW t \in Tasks, NEW claim \in {"fail", "blocked"},
         request' = [request EXCEPT ![t] = None], NotLanded(t, claim), passed' = passed
  PROVE  TaskStep(t)
  <1>1. Fits(t, row[t], canon[t], request[t]) /\ Sound(t, row[t], request[t], passed)
    BY SoundNow
  <1>2. row[t] \in Rows
    BY <1>1 DEF Fits
  <1>. DEFINE official == request[t].subject = canon[t]
              base == [row[t] EXCEPT !.claim = claim, !.class = "ok", !.hist = claim,
                                     !.verify = "failed", !.bound = FALSE]
              r(needs) == [base EXCEPT !.triage = needs,
                              !.status = IF official \/ @ = "COMPLETED" THEN @ ELSE "PACKED"]
  <1>3. PICK needs \in (IF claim = "fail" THEN BOOLEAN ELSE {row[t].triage}) :
          row' = [row EXCEPT ![t] = r(needs)]
    BY DEF NotLanded
  <1>4. needs \in BOOLEAN
    BY <1>2, <1>3 DEF Rows
  <1>5. base \in Rows /\ base.deps = row[t].deps /\ base.bound = FALSE
        /\ base.hist # "pass"
    BY <1>2 DEF Rows, Verdicts
  <1>. HIDE DEF base
  <1>6. /\ r(needs) \in Rows /\ r(needs).deps = row[t].deps /\ r(needs).bound = FALSE
        /\ r(needs).hist # "pass"
    BY <1>4, <1>5 DEF Rows, Statuses
  <1>. HIDE DEF r
  <1>7. Fits(t, r(needs), canon[t], None) /\ Sound(t, r(needs), None, passed')
    BY <1>1, <1>6 DEF Fits, Sound, Verdicts
  <1>8. canon' = [canon EXCEPT ![t] = canon[t]]
    BY Unmoved DEF NotLanded
  <1>. QED
    BY <1>3, <1>7, <1>8 DEF TaskStep

LEMMA FinalBuildFailsStep ==
  ASSUME IInv, NEW t \in Tasks, Answered(t), request[t].answer = "pass",
         request' = [request EXCEPT ![t] = None], FinalBuildFails(t), passed' = passed
  PROVE  TaskStep(t)
  <1>1. Fits(t, row[t], canon[t], request[t]) /\ Sound(t, row[t], request[t], passed)
    BY SoundNow
  <1>2. row[t] \in Rows
    BY <1>1 DEF Fits
  <1>. DEFINE official == request[t].subject = canon[t]
              base == [row[t] EXCEPT !.claim = "pass", !.class = "ok", !.hist = "pass",
                                     !.verify = "failed", !.bound = FALSE]
              r == [base EXCEPT !.status = IF official \/ @ = "COMPLETED" THEN @ ELSE "PACKED"]
  <1>3. row' = [row EXCEPT ![t] = r] /\ canon' = [canon EXCEPT ![t] = canon[t]]
    <2>1. row' = [row EXCEPT ![t] = r]
      BY DEF FinalBuildFails
    <2>2. canon' = canon
      BY DEF FinalBuildFails
    <2>. QED
      BY <2>1, <2>2, Unmoved
  <1>4. /\ r \in Rows /\ r.deps = row[t].deps /\ r.bound = FALSE
    BY <1>2 DEF Rows, Statuses, Verdicts
  <1>5. \E p \in passed' : p[1] = t
    <2>1. <<t, request[t].subject, Over(request[t].basis)>> \in passed'
      BY <1>1 DEF Sound, Answered
    <2>. QED
      BY <2>1
  <1>. HIDE DEF r
  <1>6. Fits(t, r, canon[t], None) /\ Sound(t, r, None, passed')
    BY <1>1, <1>4, <1>5 DEF Fits, Sound
  <1>. QED
    BY <1>3, <1>6 DEF TaskStep

LEMMA ReviewAppliedStep ==
  ASSUME IInv, NEW t \in Tasks, Answered(t), ReviewApplied(t), passed' = passed
  PROVE  TaskStep(t)
  <1>1. CASE UNCHANGED <<row, canon, request>>
    BY <1>1, SoundNow, Unmoved DEF TaskStep
  <1>2. CASE /\ request[t].basis = Basis(t)
             /\ request' = [request EXCEPT ![t] = None]
             /\ request[t].answer = "pass"
             /\ Landed(t) \/ FinalBuildFails(t)
    BY <1>2, LandedStep, FinalBuildFailsStep
  <1>3. CASE /\ request' = [request EXCEPT ![t] = None]
             /\ request[t].answer # "pass"
             /\ NotLanded(t, request[t].answer)
    <2>1. request[t].answer \in {"fail", "blocked"}
      BY <1>3 DEF Answered, IInv, Shape, Requests, Verdicts
    <2>. QED
      BY <1>3, <2>1, NotLandedStep
  <1>. QED
    BY <1>1, <1>2, <1>3 DEF ReviewApplied

LEMMA HalfLandedStep ==
  ASSUME IInv, NEW t \in Tasks, Answered(t), request[t].answer = "pass",
         request' = request, HalfLanded(t), passed' = passed
  PROVE  TaskStep(t)
  <1>1. Fits(t, row[t], canon[t], request[t]) /\ Sound(t, row[t], request[t], passed)
    BY SoundNow
  <1>. DEFINE c == request[t].subject
              candidate == request[t].subject # canon[t]
              r(done) == [row[t] EXCEPT !.status = "COMPLETED",
                            !.hist = IF candidate /\ done # "registered" /\ @ = None
                                     THEN "pass" ELSE @,
                            !.verify = IF done = "summarised" THEN None ELSE @]
  <1>2. PICK done \in {"registered", "filed", "summarised"} :
          /\ canon' = [canon EXCEPT ![t] = c]
          /\ row' = [row EXCEPT ![t].status = "COMPLETED",
                       ![t].hist = IF candidate /\ done # "registered" /\ @ = None
                                   THEN "pass" ELSE @,
                       ![t].verify = IF done = "summarised" THEN None ELSE @]
    BY DEF HalfLanded
  <1>3. row' = [row EXCEPT ![t] = r(done)]
    BY <1>2 DEF IInv, Shape
  <1>4. c \in 0..MaxVersions
    BY <1>1, BatchAssumption DEF Fits, Answered, Requests
  <1>5. /\ r(done) \in Rows /\ r(done).deps = row[t].deps /\ r(done).bound = row[t].bound
        /\ r(done).receipt = row[t].receipt /\ r(done).class = row[t].class
    BY <1>1 DEF Fits, Rows, Statuses, Verdicts
  <1>6. \E p \in passed' : p[1] = t
    <2>1. <<t, request[t].subject, Over(request[t].basis)>> \in passed'
      BY <1>1 DEF Sound, Answered
    <2>. QED
      BY <2>1
  <1>. HIDE DEF r, c
  <1>7. Fits(t, r(done), c, request[t]) /\ Sound(t, r(done), request[t], passed')
    BY <1>1, <1>4, <1>5, <1>6 DEF Fits, Sound
  <1>8. request' = [request EXCEPT ![t] = request[t]]
    BY Unmoved
  <1>. QED
    BY <1>2, <1>3, <1>7, <1>8 DEF TaskStep

LEMMA UnrecordedStep ==
  ASSUME IInv, NEW t \in Tasks, NEW failing \in BOOLEAN,
         request' = request, Unrecorded(t, failing), passed' = passed
  PROVE  TaskStep(t)
  <1>1. Fits(t, row[t], canon[t], request[t]) /\ Sound(t, row[t], request[t], passed)
    BY SoundNow
  <1>. DEFINE official == request[t].subject = canon[t]
              r(needs, v) == [row[t] EXCEPT !.triage = needs, !.verify = v,
                                !.hist = IF failing /\ official /\ @ = None THEN "fail" ELSE @]
  <1>2. PICK needs \in (IF failing THEN BOOLEAN ELSE {row[t].triage}), v \in {row[t].verify, "failed"} :
          row' = [row EXCEPT ![t].triage = needs, ![t].verify = v,
                    ![t].hist = IF failing /\ official /\ @ = None THEN "fail" ELSE @]
    BY DEF Unrecorded
  <1>3. row' = [row EXCEPT ![t] = r(needs, v)]
    BY <1>2 DEF IInv, Shape
  <1>4. needs \in BOOLEAN
    BY <1>1, <1>2 DEF Fits, Rows
  <1>5. /\ r(needs, v) \in Rows /\ r(needs, v).deps = row[t].deps
        /\ r(needs, v).bound = row[t].bound /\ r(needs, v).receipt = row[t].receipt
        /\ r(needs, v).class = row[t].class
        /\ r(needs, v).hist = "pass" => row[t].hist = "pass"
    BY <1>1, <1>4 DEF Fits, Rows, Verdicts
  <1>. HIDE DEF r
  <1>6. Fits(t, r(needs, v), canon[t], request[t]) /\ Sound(t, r(needs, v), request[t], passed')
    BY <1>1, <1>5 DEF Fits, Sound
  <1>7. canon' = [canon EXCEPT ![t] = canon[t]] /\ request' = [request EXCEPT ![t] = request[t]]
    BY Unmoved DEF Unrecorded
  <1>. QED
    BY <1>3, <1>6, <1>7 DEF TaskStep

LEMMA ReviewApplyDiesStep ==
  ASSUME IInv, NEW t \in Tasks, Answered(t), ReviewApplyDies(t), passed' = passed
  PROVE  TaskStep(t)
  <1>1. request' = request
    BY DEF ReviewApplyDies
  <1>2. CASE PromotedOnly(t)
    <2>1. Fits(t, row[t], canon[t], request[t]) /\ Sound(t, row[t], request[t], passed)
      BY SoundNow
    <2>2. request[t].subject \in 0..MaxVersions
      BY <2>1, BatchAssumption DEF Fits, Answered, Requests
    <2>3. Fits(t, row[t], request[t].subject, request[t])
      BY <2>1, <2>2 DEF Fits
    <2>4. row' = [row EXCEPT ![t] = row[t]] /\ request' = [request EXCEPT ![t] = request[t]]
      BY <1>1, <1>2, Unmoved DEF PromotedOnly
    <2>. QED
      BY <1>2, <2>1, <2>3, <2>4 DEF PromotedOnly, TaskStep
  <1>3. CASE Unrecorded(t, request[t].answer = "fail")
    <2>1. CASE request[t].answer = "fail"
      <3>1. Unrecorded(t, TRUE)
        BY <1>3, <2>1 DEF Unrecorded
      <3>. QED
        BY <1>1, <3>1, UnrecordedStep
    <2>2. CASE request[t].answer # "fail"
      <3>1. Unrecorded(t, FALSE)
        BY <1>3, <2>2 DEF Unrecorded
      <3>. QED
        BY <1>1, <3>1, UnrecordedStep
    <2>. QED
      BY <2>1, <2>2
  <1>. QED
    BY <1>1, <1>2, <1>3, HalfLandedStep DEF ReviewApplyDies

LEMMA AutoLoopStep ==
  ASSUME IInv, NEW t \in Tasks, AutoLoop(t)
  PROVE  TaskStep(t)
  <1>1. Fits(t, row[t], canon[t], request[t]) /\ Sound(t, row[t], request[t], passed)
    BY SoundNow
  <1>2. CASE Answered(t) /\ ReviewApplied(t) /\ UNCHANGED passed
    BY <1>2, ReviewAppliedStep
  <1>3. CASE UNCHANGED <<canon, passed, row, request>>
    BY <1>1, <1>3, Unmoved DEF TaskStep
  <1>4. CASE /\ UNCHANGED <<canon, passed>> /\ Fresher(t) <= MaxVersions
             /\ request' = [request EXCEPT ![t] = Asked(Fresher(t), t)]
             /\ row' = [row EXCEPT ![t].verify = "codex_review_required"]
    <2>. DEFINE r == [row[t] EXCEPT !.verify = "codex_review_required"]
    <2>1. Fresher(t) \in 1..MaxVersions
      BY <1>4, FresherTyped, BatchAssumption DEF IInv
    <2>2. Fits(t, r, canon[t], Asked(Fresher(t), t)) /\ Sound(t, r, Asked(Fresher(t), t), passed')
      BY <1>1, <1>4, <2>1, Asking DEF Fits, Sound, Rows
    <2>. QED
      BY <1>4, <2>2, Unmoved DEF TaskStep
  <1>5. CASE /\ UNCHANGED <<canon, passed, request>>
             /\ \E s \in {None, "diagnoser_required", "early", "exhausted"} :
                   row' = [row EXCEPT ![t].verify = "failed", ![t].stop = s,
                             ![t].status = IF s \in {"early", "exhausted"} /\ @ # "COMPLETED"
                                           THEN "FAILED_LOCAL" ELSE @]
    <2>1. PICK s \in {None, "diagnoser_required", "early", "exhausted"} :
            row' = [row EXCEPT ![t].verify = "failed", ![t].stop = s,
                             ![t].status = IF s \in {"early", "exhausted"} /\ @ # "COMPLETED"
                                           THEN "FAILED_LOCAL" ELSE @]
      BY <1>5
    <2>. DEFINE r == [row[t] EXCEPT !.verify = "failed", !.stop = s,
                             !.status = IF s \in {"early", "exhausted"} /\ @ # "COMPLETED"
                                        THEN "FAILED_LOCAL" ELSE @]
    <2>2. /\ r \in Rows /\ r.deps = row[t].deps /\ r.bound = row[t].bound
          /\ r.hist = row[t].hist
          /\ r.receipt = row[t].receipt /\ r.class = row[t].class
      BY <1>1 DEF Fits, Rows, Statuses
    <2>3. row' = [row EXCEPT ![t] = r]
      BY <2>1 DEF IInv, Shape
    <2>. HIDE DEF r
    <2>4. Fits(t, r, canon[t], request[t]) /\ Sound(t, r, request[t], passed')
      BY <1>1, <1>5, <2>2 DEF Fits, Sound
    <2>5. /\ canon' = [canon EXCEPT ![t] = canon[t]]
          /\ request' = [request EXCEPT ![t] = request[t]]
      BY <1>5, Unmoved
    <2>. QED
      BY <1>5, <2>3, <2>4, <2>5 DEF TaskStep
  <1>. QED
    BY <1>2, <1>3, <1>4, <1>5 DEF AutoLoop

LEMMA ReviewStep ==
  ASSUME IInv, NEW t \in Tasks, Review(t)
  PROVE  TaskStep(t) /\ passed' \subseteq Passable
  <1>1. Fits(t, row[t], canon[t], request[t]) /\ Sound(t, row[t], request[t], passed)
    BY SoundNow
  <1>2. request[t] \in Requests
    BY <1>1 DEF Review, Pending, Fits
  <1>3. PICK a \in {"pass", "fail", "blocked"} :
          /\ request' = [request EXCEPT ![t].answer = a]
          /\ passed' = IF a = "pass"
                       THEN passed \cup {<<t, request[t].subject, Over(request[t].basis)>>}
                       ELSE passed
    BY DEF Review, Over
  <1>. DEFINE q == [request[t] EXCEPT !.answer = a]
  <1>4. q \in Requests /\ q.subject = request[t].subject /\ q.basis = request[t].basis /\ q.answer = a
    BY <1>2 DEF Requests, Verdicts
  <1>5. passed \subseteq passed' /\ a = "pass" => <<t, q.subject, Over(q.basis)>> \in passed'
    BY <1>3, <1>4
  <1>6. passed \subseteq passed'
    BY <1>3
  <1>7. request' = [request EXCEPT ![t] = q]
    BY <1>3 DEF IInv, Shape
  <1>. HIDE DEF q
  <1>8. Fits(t, row[t], canon[t], q) /\ Sound(t, row[t], q, passed')
    BY <1>1, <1>4, <1>5, <1>6 DEF Fits, Sound
  <1>9. row' = [row EXCEPT ![t] = row[t]] /\ canon' = [canon EXCEPT ![t] = canon[t]]
    BY Unmoved DEF Review
  <1>10. <<t, request[t].subject, Over(request[t].basis)>> \in Passable
    <2>1. \A u \in request[t].basis.up : u[1] \in Tasks
      BY <1>2 DEF Requests, Bases
    <2>. QED
      BY <1>2, <2>1 DEF Requests, Over, Passable
  <1>11. passed' \subseteq Passable
    BY <1>3, <1>10 DEF IInv, Shape
  <1>. QED
    BY <1>6, <1>7, <1>8, <1>9, <1>11 DEF TaskStep

LEMMA ReconcileStep ==
  ASSUME IInv, NEW t \in Tasks, Reconcile(t)
  PROVE  TaskStep(t)
  <1>. DEFINE r == [row[t] EXCEPT !.deps = Replanned[t], !.status = "DISCOVERED",
                                  !.claim = None, !.receipt = None, !.reconciled = TRUE]
  <1>1. Fits(t, row[t], canon[t], request[t]) /\ Sound(t, row[t], request[t], passed)
    BY SoundNow
  <1>2. /\ row' = [row EXCEPT ![t] = r] /\ request' = [request EXCEPT ![t] = None]
        /\ canon' = canon /\ passed' = passed
    BY DEF Reconcile
  <1>3. Replanned[t] \subseteq Tasks
    BY BatchAssumption
  <1>4. r \in Rows /\ r.deps = Replanned[t] /\ r.receipt = None
        /\ r.hist = row[t].hist /\ r.class = row[t].class
    BY <1>1, <1>3 DEF Fits, Rows, Statuses
  <1>. HIDE DEF r
  <1>5. Fits(t, r, canon[t], None) /\ Sound(t, r, None, passed')
    BY <1>1, <1>2, <1>4 DEF Fits, Sound
  <1>6. canon' = [canon EXCEPT ![t] = canon[t]]
    BY <1>2, Unmoved
  <1>. QED
    BY <1>2, <1>5, <1>6 DEF TaskStep

LEMMA EditOutputStep ==
  ASSUME IInv, NEW t \in Tasks, EditOutput(t)
  PROVE  TaskStep(t)
  <1>1. Fits(t, row[t], canon[t], request[t]) /\ Sound(t, row[t], request[t], passed)
    BY SoundNow
  <1>2. Fresher(t) \in 0..MaxVersions
    BY FresherTyped, BatchAssumption DEF IInv, EditOutput
  <1>3. Fits(t, row[t], Fresher(t), request[t])
    BY <1>1, <1>2 DEF Fits
  <1>4. /\ canon' = [canon EXCEPT ![t] = Fresher(t)]
        /\ row' = row /\ request' = request /\ passed' = passed
    BY DEF EditOutput
  <1>5. row' = [row EXCEPT ![t] = row[t]] /\ request' = [request EXCEPT ![t] = request[t]]
    BY <1>4, Unmoved
  <1>. QED
    BY <1>1, <1>3, <1>4, <1>5 DEF TaskStep

-----------------------------------------------------------------------------
(* The invariant, step by step.                                            *)

(* A step that moves one task, or none, and leaves the gate's rows alone.  *)
LEMMA TaskKept ==
  ASSUME IInv,
         UNCHANGED <<row, canon, request, passed>> \/ \E t \in Tasks : TaskStep(t),
         passed' \subseteq Passable, UNCHANGED <<frozen, accepted>>,
         UNCHANGED head \/ head' = [t \in Tasks |-> None],
         decision' \subseteq Chapters1to4, left' \in 0..MaxActions,
         \A x \in queue' : x.task \in Tasks /\ x.action \in Executable
  PROVE  IInv'
  <1>1. /\ row' \in [Tasks -> Rows] /\ canon' \in [Tasks -> 0..MaxVersions]
        /\ request' \in [Tasks -> {None} \cup Requests]
        /\ \A u \in Tasks : row'[u].deps \in {Planned[u], Replanned[u]}
        /\ RequestInv' /\ ReceiptInv' /\ HistoryInv'
    <2>1. CASE UNCHANGED <<row, canon, request, passed>>
      BY <2>1 DEF IInv, Shape, RequestInv, ReceiptInv, HistoryInv
    <2>. QED
      BY <2>1, SoundAfter
  <1>2. FrozenInv'
    BY DEF IInv, FrozenInv
  <1>3. head' \in [Tasks -> {None} \cup [receipt : {None} \cup Tips, fresh : BOOLEAN]]
        /\ \A t \in Tasks : head'[t] # None => head'[t].receipt = frozen'[t].tip
    BY DEF IInv, Shape
  <1>. QED
    BY <1>1, <1>2, <1>3 DEF IInv, Shape

(* The basis that the gate freezes.                                        *)
LEMMA FrozenBasisTyped ==
  ASSUME Shape, NEW t \in Tasks, Computable(t)
  PROVE  FrozenBasis(t) \in Tips
  <1>1. row[t] \in Rows /\ canon[t] \in 1..MaxVersions
    BY BatchAssumption DEF Shape, Computable, Official
  <1>2. row[t].deps \subseteq Tasks
    BY <1>1 DEF Rows
  <1>3. {<<d, canon[d]>> : d \in row[t].deps} \subseteq Tasks \X (0..MaxVersions)
    BY <1>2 DEF Shape
  <1>. QED
    BY <1>1, <1>3 DEF FrozenBasis, Tips

LEMMA GrantKeeps ==
  ASSUME IInv, NEW t \in Tasks, Grant(t)
  PROVE  IInv'
  <1>1. FrozenBasis(t) \in Tips
    BY FrozenBasisTyped DEF IInv, Grant
  <1>. DEFINE b == FrozenBasis(t)
              f == [active |-> TRUE, tip |-> b, revoked |-> FALSE]
              h == [receipt |-> b, fresh |-> TRUE]
  <1>2. /\ frozen' = [frozen EXCEPT ![t] = f] /\ head' = [head EXCEPT ![t] = h]
        /\ accepted' = [accepted EXCEPT ![t] = b]
        /\ UNCHANGED <<row, canon, request, decision, queue, left, passed>>
    BY DEF Grant, batch
  <1>. HIDE DEF b
  <1>3. Shape'
    BY <1>1, <1>2 DEF IInv, Shape, b
  <1>4. RequestInv' /\ ReceiptInv' /\ HistoryInv'
    BY <1>2 DEF IInv, RequestInv, ReceiptInv, HistoryInv
  <1>5. FrozenInv'
    BY <1>2 DEF IInv, Shape, FrozenInv
  <1>. QED
    BY <1>3, <1>4, <1>5 DEF IInv

LEMMA RevokeKeeps ==
  ASSUME IInv, NEW t \in Tasks, Revoke(t)
  PROVE  IInv'
  <1>1. /\ frozen' = [frozen EXCEPT ![t].active = FALSE, ![t].revoked = TRUE]
        /\ head' = [head EXCEPT ![t] = IF @ = None THEN None ELSE [@ EXCEPT !.fresh = FALSE]]
        /\ accepted' = [accepted EXCEPT ![t] = None]
        /\ UNCHANGED <<row, canon, request, decision, queue, left, passed>>
    BY DEF Revoke, batch
  <1>2. ASSUME NEW u \in Tasks
        PROVE  /\ frozen'[u] \in [active : BOOLEAN, tip : {None} \cup Tips, revoked : BOOLEAN]
               /\ frozen'[u].tip = frozen[u].tip
               /\ frozen'[u].active => u # t /\ frozen[u].active
    BY <1>1 DEF IInv, Shape
  <1>3. ASSUME NEW u \in Tasks
        PROVE  /\ head'[u] \in {None} \cup [receipt : {None} \cup Tips, fresh : BOOLEAN]
               /\ head'[u] # None => head[u] # None /\ head'[u].receipt = head[u].receipt
    BY <1>1 DEF IInv, Shape
  <1>4. Shape'
    <2>1. frozen' \in [Tasks -> [active : BOOLEAN, tip : {None} \cup Tips, revoked : BOOLEAN]]
      BY <1>1, <1>2 DEF IInv, Shape
    <2>2. head' \in [Tasks -> {None} \cup [receipt : {None} \cup Tips, fresh : BOOLEAN]]
      BY <1>1, <1>3 DEF IInv, Shape
    <2>3. \A u \in Tasks : head'[u] # None => head'[u].receipt = frozen'[u].tip
      BY <1>2, <1>3 DEF IInv, Shape
    <2>4. accepted' \in [Tasks -> {None} \cup Tips]
      BY <1>1 DEF IInv, Shape
    <2>. QED
      BY <1>1, <2>1, <2>2, <2>3, <2>4 DEF IInv, Shape
  <1>5. RequestInv' /\ ReceiptInv' /\ HistoryInv'
    BY <1>1 DEF IInv, RequestInv, ReceiptInv, HistoryInv
  <1>6. FrozenInv'
    BY <1>1, <1>2 DEF IInv, Shape, FrozenInv
  <1>. QED
    BY <1>4, <1>5, <1>6 DEF IInv

(* The batch-run takes up one action of its plan and moves its task.       *)
LEMMA ExecuteStep ==
  ASSUME IInv, Execute
  PROVE  \E x \in queue :
            /\ queue' = queue \ {x} /\ left' \in {left - 1, 0}
            /\ TaskStep(x.task) /\ passed' = passed
            /\ \/ ReviewExisting(x.task) \/ AutoLoop(x.task)
               \/ Answered(x.task) /\ ReviewApplyDies(x.task)
  <1>1. \A x \in queue : x.task \in Tasks
    BY DEF IInv, Shape
  <1>2. PICK x \in queue :
          \/ /\ Dequeue(x)
             /\ IF x.action = "review_existing" THEN ReviewExisting(x.task) ELSE AutoLoop(x.task)
          \/ /\ Answered(x.task)
             /\ ReviewApplyDies(x.task)
             /\ queue' = queue \ {x} /\ left' = 0
             /\ UNCHANGED passed
    BY DEF Execute
  <1>3. CASE /\ Dequeue(x)
             /\ IF x.action = "review_existing" THEN ReviewExisting(x.task) ELSE AutoLoop(x.task)
    <2>1. TaskStep(x.task)
      BY <1>1, <1>3, ReviewExistingStep, AutoLoopStep
    <2>2. passed' = passed
      BY <1>3 DEF ReviewExisting, AutoLoop
    <2>. QED
      BY <1>3, <2>1, <2>2 DEF Dequeue
  <1>4. CASE /\ Answered(x.task)
             /\ ReviewApplyDies(x.task)
             /\ queue' = queue \ {x} /\ left' = 0
             /\ UNCHANGED passed
    <2>1. TaskStep(x.task)
      BY <1>1, <1>4, ReviewApplyDiesStep
    <2>. QED
      BY <1>4, <2>1
  <1>. QED
    BY <1>2, <1>3, <1>4

LEMMA Inductive == IInv /\ [Next]_vars => IInv'
  <1>. SUFFICES ASSUME IInv, [Next]_vars PROVE IInv'
    OBVIOUS
  <1>. USE DEF gate, pack, batch
  <1>1. CASE UNCHANGED vars
    BY <1>1, TaskKept DEF vars, IInv, Shape
  <1>2. CASE Plan
    <2>1. \A x \in queue' : x.task \in Tasks /\ x.action \in Executable
      BY <1>2 DEF Plan
    <2>2. left' \in 0..MaxActions
      BY <1>2, BatchAssumption DEF Plan
    <2>. QED
      BY <1>2, <2>1, <2>2, TaskKept DEF Plan, IInv, Shape
  <1>3. CASE Execute
    <2>1. PICK x \in queue :
            /\ queue' = queue \ {x} /\ left' \in {left - 1, 0}
            /\ TaskStep(x.task) /\ passed' = passed
      BY <1>3, ExecuteStep
    <2>2. x.task \in Tasks
      BY DEF IInv, Shape
    <2>3. TaskStep(x.task)
      BY <2>1
    <2>4. passed' = passed
      BY <2>1
    <2>5. left' \in 0..MaxActions /\ queue' \subseteq queue
      BY <1>3, <2>1, BatchAssumption DEF Execute, IInv, Shape
    <2>6. UNCHANGED <<frozen, head, decision, accepted>>
      BY <1>3 DEF Execute
    <2>. QED
      BY <2>2, <2>3, <2>4, <2>5, <2>6, TaskKept DEF IInv, Shape
  <1>4. CASE Rebuild
    BY <1>4, TaskKept DEF Rebuild, IInv, Shape
  <1>5. ASSUME NEW t \in Tasks, Review(t) PROVE IInv'
    BY <1>5, ReviewStep, TaskKept DEF Review, IInv, Shape
  <1>6. ASSUME NEW t \in Tasks, Apply(t) PROVE IInv'
    BY <1>6, ReviewAppliedStep, ReviewApplyDiesStep, TaskKept DEF Apply, IInv, Shape
  <1>7. ASSUME NEW t \in Tasks, Diagnose(t) \/ Decide(t) \/ MathReview(t) \/ BuildEvidence(t)
        PROVE  IInv'
    BY <1>7, TaskKept DEF Diagnose, Decide, MathReview, BuildEvidence, IInv, Shape
  <1>8. ASSUME NEW t \in Tasks, Reconcile(t) PROVE IInv'
    BY <1>8, ReconcileStep, TaskKept DEF Reconcile, IInv, Shape
  <1>9. ASSUME NEW t \in Tasks, EditOutput(t) PROVE IInv'
    BY <1>9, EditOutputStep, TaskKept DEF EditOutput, IInv, Shape
  <1>10. ASSUME NEW t \in Tasks, OwnerDecides(t) PROVE IInv'
    <2>1. decision' \subseteq Chapters1to4
      BY <1>10 DEF OwnerDecides, IInv, Shape
    <2>. QED
      BY <1>10, <2>1, TaskKept DEF OwnerDecides, IInv, Shape
  <1>. QED
    BY <1>1, <1>2, <1>3, <1>4, <1>5, <1>6, <1>7, <1>8, <1>9, <1>10, GrantKeeps, RevokeKeeps
    DEF Next

(* In every reachable state the invariant holds, and with it the type      *)
(* invariant, for any tasks, dependencies and histories.                   *)
THEOREM Invariance == Spec => []IInv
  BY Initially, Inductive, PTL DEF Spec

(* The rows, files, requests, frozen heads and plan hold what the code     *)
(* lets them hold.                                                         *)
THEOREM TypeCorrect == Spec => []TypeOK
  <1>1. IInv => TypeOK
    BY ShapeIsTyped DEF IInv
  <1>. QED
    BY <1>1, Invariance, PTL

-----------------------------------------------------------------------------
(* What stands under a task.                                               *)

LEMMA UnderFacts ==
  ASSUME Shape, NEW t \in Tasks
  PROVE  /\ row[t].deps \subseteq Under[t] /\ Under[t] \subseteq Tasks
         /\ \A d \in Under[t] : d < t
         /\ \A d \in Under[t] : Under[d] \subseteq Under[t]
  <1>. DEFINE Closed(u, S) == row[u].deps \subseteq S /\ (\A e \in S : row[e].deps \subseteq S)
  <1>1. \A u \in Tasks : Under[u] = {d \in Tasks : \A S \in SUBSET Tasks : Closed(u, S) => d \in S}
    BY DEF Under
  <1>2. \A u \in Tasks : row[u].deps \subseteq {d \in Tasks : d < u}
    BY BatchAssumption DEF Shape
  <1>3. row[t].deps \subseteq Under[t] /\ Under[t] \subseteq Tasks
    BY <1>1, <1>2
  <1>4. \A d \in Under[t] : d < t
    <2>. DEFINE S == {e \in Tasks : e < t}
    <2>1. Closed(t, S)
      <3>1. ASSUME NEW e \in S, NEW d \in row[e].deps PROVE d \in S
        <4>1. d \in Tasks /\ d < e /\ e < t
          BY <1>2
        <4>2. d \in Nat /\ e \in Nat /\ t \in Nat
          BY <4>1, BatchAssumption
        <4>. QED
          BY <4>1, <4>2
      <3>. QED
        BY <1>2, <3>1
    <2>2. S \in SUBSET Tasks
      OBVIOUS
    <2>3. \A d \in S : d < t
      OBVIOUS
    <2>. HIDE DEF S, Closed
    <2>4. Under[t] \subseteq S
      BY <1>1, <2>1, <2>2
    <2>. QED
      BY <2>3, <2>4
  <1>5. ASSUME NEW d \in Under[t] PROVE Under[d] \subseteq Under[t]
    <2>. SUFFICES ASSUME NEW e \in Under[d], NEW S \in SUBSET Tasks, Closed(t, S)
                  PROVE  e \in S
      BY <1>1, <1>3
    <2>1. d \in S
      BY <1>1
    <2>2. Closed(d, S)
      BY <2>1
    <2>. QED
      BY <1>1, <1>3, <2>2
  <1>. QED
    BY <1>3, <1>4, <1>5

(* A completed task whose status projects to a pass has its verdict on     *)
(* accepted ground, and without one was passed at some time.               *)
LEMMA PassIsBacked ==
  ASSUME IInv, NEW t \in Tasks, Declared(t) = "COMPLETED", TaskStatus(t) = "pass"
  PROVE  IF HasVerdict(t) THEN Grounded(t) ELSE \E p \in passed : p[1] = t
  <1>1. row[t] \in Rows
    BY DEF IInv, Shape
  <1>2. None \notin {"pass", "fail", "blocked", "stale", "unclassified"}
    BY BatchAssumption
  <1>3. CASE FrozenPass(t)
    <2>1. accepted[t] = FrozenBasis(t)
      BY <1>3 DEF FrozenPass, IInv, FrozenInv
    <2>. QED
      BY <1>3, <2>1 DEF HasVerdict, Grounded
  <1>4. CASE ~FrozenPass(t) /\ row[t].claim # None
    <2>1. Authority(t) \in {None, "stale", "unclassified", "pass", "fail", "blocked"}
      BY DEF Authority, Answered, IInv, Shape, Requests, Verdicts
    <2>2. row[t].claim # "pass" => Authority(t) = None
      BY DEF Authority
    <2>3. row[t].claim = "pass" => Authority(t) # None
      BY <1>2 DEF Authority, Answered
    <2>4. Authority(t) = "pass"
      <3>1. Authority(t) # "stale"
        BY <1>2, <1>4 DEF TaskStatus, Phase2Status
      <3>2. Authority(t) \notin {"unclassified", "fail", "blocked"}
        BY <1>2, <1>4 DEF TaskStatus, Phase2Status
      <3>3. Authority(t) # None
        BY <1>2, <1>4, <2>3 DEF TaskStatus, Phase2Status
      <3>. QED
        BY <2>1, <3>1, <3>2, <3>3
    <2>5. /\ row[t].receipt # None /\ ~Answered(t) /\ row[t].class # "illegal"
          /\ Fresh(t)
      BY <1>2, <2>4 DEF Authority
    <2>6. row[t].bound /\ row[t].receipt.post = Basis(t) /\ row[t].class = "ok"
      BY <1>1, <2>5 DEF Fresh, Rows
    <2>7. Basis(t).file = canon[t] /\ Over(Basis(t)) = row[t].deps
      BY BasisTyped DEF Basis, BasisOf, IInv, Shape
    <2>8. Grounded(t)
      BY <2>5, <2>6, <2>7 DEF IInv, ReceiptInv, Grounded
    <2>. QED
      BY <1>4, <2>8 DEF HasVerdict
  <1>5. CASE ~FrozenPass(t) /\ row[t].claim = None
    <2>1. Authority(t) = None
      BY <1>2, <1>5 DEF Authority
    <2>2. Phase2Status(t) \notin {"pass", "fail", "blocked"}
      BY <1>2, <1>5, <2>1 DEF Phase2Status
    <2>3. CASE Answered(t)
      <3>1. request[t].answer = "pass"
        BY <1>5, <2>1, <2>2, <2>3 DEF TaskStatus
      <3>2. <<t, request[t].subject, Over(request[t].basis)>> \in passed
        BY <2>3, <3>1 DEF IInv, RequestInv, Answered
      <3>. QED
        BY <1>5, <3>2 DEF HasVerdict
    <2>4. CASE ~Answered(t)
      <3>1. row[t].hist = "pass" /\ row[t].class # "illegal"
        BY <1>2, <1>5, <2>1, <2>2, <2>4 DEF TaskStatus
      <3>2. row[t].class = "ok"
        BY <1>1, <3>1 DEF Rows
      <3>. QED
        BY <1>5, <3>1, <3>2 DEF IInv, HistoryInv, HasVerdict
    <2>. QED
      BY <2>3, <2>4
  <1>. QED
    BY <1>3, <1>4, <1>5

(* With a verdict, a completed pass is consumable and blocks nobody.       *)
LEMMA VerdictIsOpen ==
  ASSUME IInv, NEW t \in Tasks, Declared(t) = "COMPLETED", TaskStatus(t) = "pass", HasVerdict(t)
  PROVE  Consumable(t) /\ t \notin Blocking
  <1>1. None \notin {"pass", "fail", "blocked", "stale", "unclassified"}
    BY BatchAssumption
  <1>2. CASE FrozenPass(t)
    BY <1>2 DEF Consumable, Blocking, Phase2Status, Unclassified
  <1>3. CASE ~FrozenPass(t)
    <2>1. row[t].claim # None
      BY <1>3 DEF HasVerdict
    <2>2. Authority(t) \in {None, "stale", "unclassified", "pass", "fail", "blocked"}
      BY DEF Authority, Answered, IInv, Shape, Requests, Verdicts
    <2>3. row[t].claim # "pass" => Authority(t) = None
      BY DEF Authority
    <2>4. row[t].claim = "pass" => Authority(t) # None
      BY <1>1 DEF Authority, Answered
    <2>5. Authority(t) = "pass"
      BY <1>1, <1>3, <2>1, <2>2, <2>3, <2>4 DEF TaskStatus, Phase2Status
    <2>. QED
      BY <1>1, <1>3, <2>5 DEF Consumable, Blocking, Phase2Status, Unclassified
  <1>. QED
    BY <1>2, <1>3

(* A task that is clean is completed with a pass, and so is everything     *)
(* under it, where nothing blocks.                                         *)
LEMMA CleanFacts ==
  ASSUME IInv, NEW t \in Tasks, Clean(t)
  PROVE  /\ ~Gated(t) /\ Declared(t) = "COMPLETED" /\ TaskStatus(t) = "pass"
         /\ \A d \in Under[t] : /\ Declared(d) = "COMPLETED" /\ TaskStatus(d) = "pass"
                               /\ d \notin Blocking
  <1>1. ~Gated(t) /\ Declared(t) = "COMPLETED" /\ TaskStatus(t) = "pass"
    BY DEF Clean, RowStatus
  <1>2. Under[t] \subseteq Tasks
    BY UnderFacts DEF IInv
  <1>. QED
    BY <1>1, <1>2 DEF Gated, Blocking, ProofDebt

(* What the batch reports clean is backed all the way down: of the task    *)
(* and of everything under it, where review-apply or the owner has given a *)
(* verdict the file and the dependencies of now were passed by a reviewer, *)
(* or accepted by the owner and not revoked since, and where the batch     *)
(* goes by a result nobody finished applying some version was passed.      *)
THEOREM CleanStandsOnAcceptedVerdicts == Spec => []CleanIsBacked
  <1>1. ASSUME IInv PROVE CleanIsBacked
    <2>. SUFFICES ASSUME NEW t \in Tasks, Clean(t), NEW d \in {t} \cup Under[t]
                  PROVE  IF HasVerdict(d) THEN Grounded(d) ELSE \E p \in passed : p[1] = d
      BY DEF CleanIsBacked
    <2>1. d \in Tasks
      BY <1>1, UnderFacts DEF IInv
    <2>2. Declared(d) = "COMPLETED" /\ TaskStatus(d) = "pass"
      BY <1>1, CleanFacts
    <2>. QED
      BY <1>1, <2>1, <2>2, PassIsBacked
  <1>. QED
    BY <1>1, Invariance, PTL

(* Below a task that the plan skips there is one that somebody can act on, *)
(* one whose own review called it blocked, or one that is clean by a       *)
(* half-applied pass: the least of those that keep it waiting has nothing  *)
(* to wait for under it.                                                   *)
THEOREM SkippedWaitsForSomeone == Spec => []WaitsForSomeone
  <1>1. ASSUME IInv PROVE WaitsForSomeone
    <2>. SUFFICES ASSUME NEW t \in Tasks, ActionFor(t) = "skip_blocked"
                  PROVE  \E d \in Under[t] :
                            \/ ActionFor(d) \notin {"none", "skip_blocked"}
                            \/ Clean(d) /\ ~HasVerdict(d) /\ (d \in Blocking \/ NeedsDiagnosis(d))
      BY DEF WaitsForSomeone
    <2>. DEFINE Wants(d) == NeedsDiagnosis(d) \/ d \in HardFailed \cup Blocking \cup ProofDebt
                W == {d \in Under[t] : Wants(d)}
    <2>1. Under[t] \subseteq Tasks /\ \A d \in Under[t] : Under[d] \subseteq Under[t]
      BY <1>1, UnderFacts DEF IInv
    <2>2. W # {}
      <3>1. (\E d \in Under[t] : NeedsDiagnosis(d)) \/ Gated(t)
        BY DEF ActionFor, ReviewOrRestore
      <3>. QED
        BY <3>1 DEF Gated
    <2>3. PICK d \in W : \A e \in W : d <= e
      <3>. W \subseteq Nat
        BY <2>1, BatchAssumption
      <3>. QED
        BY <2>2, Least
    <2>4. d \in Tasks
      BY <2>1
    <2>5. \A e \in Under[d] : e \notin W
      <3>1. \A e \in Under[d] : e < d /\ e \in Tasks
        BY <1>1, <2>4, UnderFacts DEF IInv
      <3>2. \A e \in Tasks : e \in Nat
        BY BatchAssumption
      <3>. QED
        BY <2>3, <2>4, <3>1, <3>2
    <2>6. ~Gated(d) /\ ~\E e \in Under[d] : NeedsDiagnosis(e)
      BY <2>1, <2>5 DEF Gated
    <2>7. CASE Clean(d)
      <3>1. Declared(d) = "COMPLETED" /\ TaskStatus(d) = "pass"
        BY <1>1, <2>4, <2>7, CleanFacts
      <3>2. d \in Blocking \/ NeedsDiagnosis(d)
        BY <2>3, <2>4, <3>1 DEF HardFailed, ProofDebt
      <3>3. ~HasVerdict(d)
        BY <1>1, <2>4, <3>1, <3>2, VerdictIsOpen DEF NeedsDiagnosis
      <3>. QED
        BY <2>3, <2>7, <3>2, <3>3
    <2>8. CASE ~Clean(d)
      <3>1. ActionFor(d) # "none"
        BY <2>8 DEF ActionFor, ReviewOrRestore
      <3>2. ActionFor(d) # "skip_blocked"
        BY <2>6 DEF ActionFor, ReviewOrRestore
      <3>. QED
        BY <2>3, <3>1, <3>2
    <2>. QED
      BY <2>7, <2>8
  <1>. QED
    BY <1>1, Invariance, PTL

-----------------------------------------------------------------------------
(* Why a plan stays good while nothing else happens.                       *)

(* Contents only get newer: a request is for bytes no older than those it  *)
(* was asked over, and a tip in force names no version yet to come.        *)
Recent(q) == q # None => q.basis.file <= q.subject

Past(tip) == \A u \in tip.up : u[1] \in Tasks /\ u[2] \in 0..canon[u[1]]

AgeInv ==
    \A t \in Tasks : Recent(request[t]) /\ (frozen[t].active => Past(frozen[t].tip))

AgeStep(t) ==
    \E c, q :
        /\ canon' = [canon EXCEPT ![t] = c] /\ canon[t] <= c
        /\ request' = [request EXCEPT ![t] = q] /\ Recent(q)

LEMMA AgeNow ==
  ASSUME IInv, AgeInv, NEW t \in Tasks
  PROVE  /\ canon = [canon EXCEPT ![t] = canon[t]] /\ canon[t] <= canon[t]
         /\ request = [request EXCEPT ![t] = request[t]] /\ Recent(request[t])
         /\ canon[t] \in 0..MaxVersions
  <1>1. canon[t] \in 0..MaxVersions
    BY DEF IInv, Shape
  <1>2. canon[t] <= canon[t]
    BY <1>1, BatchAssumption
  <1>. QED
    BY <1>1, <1>2, Unmoved DEF AgeInv

LEMMA AskedIsRecent ==
  ASSUME IInv, NEW t \in Tasks, NEW subject, canon[t] <= subject
  PROVE  Recent(Asked(subject, t))
  BY DEF Recent, Asked, Basis, BasisOf

LEMMA NoneIsRecent == Recent(None)
  BY DEF Recent

LEMMA ReviewAppliedAges ==
  ASSUME IInv, AgeInv, NEW t \in Tasks, Answered(t), ReviewApplied(t)
  PROVE  AgeStep(t)
  <1>1. CASE UNCHANGED <<row, canon, request>>
    BY <1>1, AgeNow DEF AgeStep
  <1>2. CASE /\ request[t].basis = Basis(t)
             /\ request' = [request EXCEPT ![t] = None]
             /\ Landed(t)
    <2>1. canon[t] <= request[t].subject
      BY <1>2, AgeNow DEF Recent, Answered, Basis, BasisOf
    <2>2. canon' = [canon EXCEPT ![t] = request[t].subject]
      BY <1>2 DEF Landed
    <2>. QED
      BY <1>2, <2>1, <2>2, NoneIsRecent DEF AgeStep
  <1>3. CASE /\ request' = [request EXCEPT ![t] = None]
             /\ canon' = canon
    BY <1>3, AgeNow, NoneIsRecent DEF AgeStep
  <1>. QED
    BY <1>1, <1>2, <1>3 DEF ReviewApplied, NotLanded, FinalBuildFails

LEMMA ReviewApplyDiesAges ==
  ASSUME IInv, AgeInv, NEW t \in Tasks, Answered(t), ReviewApplyDies(t)
  PROVE  AgeStep(t)
  <1>1. request' = [request EXCEPT ![t] = request[t]] /\ Recent(request[t])
    BY AgeNow DEF ReviewApplyDies
  <1>2. canon[t] <= request[t].subject
    BY AgeNow DEF ReviewApplyDies, Recent, Answered, Basis, BasisOf
  <1>3. CASE canon' = [canon EXCEPT ![t] = request[t].subject]
    BY <1>1, <1>2, <1>3 DEF AgeStep
  <1>4. CASE canon' = canon
    BY <1>1, <1>4, AgeNow DEF AgeStep
  <1>. QED
    BY <1>3, <1>4 DEF ReviewApplyDies, HalfLanded, PromotedOnly, Unrecorded

LEMMA ReviewExistingAges ==
  ASSUME IInv, AgeInv, NEW t \in Tasks, ReviewExisting(t)
  PROVE  AgeStep(t)
  <1>1. canon' = canon
    BY DEF ReviewExisting
  <1>2. CASE request' = request
    BY <1>1, <1>2, AgeNow DEF AgeStep
  <1>3. CASE request' = [request EXCEPT ![t] = Asked(canon[t], t)]
    BY <1>1, <1>3, AgeNow, AskedIsRecent DEF AgeStep
  <1>4. CASE request' = [request EXCEPT ![t] = None]
    BY <1>1, <1>4, AgeNow, NoneIsRecent DEF AgeStep
  <1>. QED
    BY <1>2, <1>3, <1>4 DEF ReviewExisting

LEMMA AutoLoopAges ==
  ASSUME IInv, AgeInv, NEW t \in Tasks, AutoLoop(t)
  PROVE  AgeStep(t)
  <1>1. CASE Answered(t) /\ ReviewApplied(t)
    BY <1>1, ReviewAppliedAges
  <1>2. CASE UNCHANGED <<canon, request>>
    BY <1>2, AgeNow DEF AgeStep
  <1>3. CASE canon' = canon /\ request' = [request EXCEPT ![t] = Asked(Fresher(t), t)]
    <2>1. canon[t] <= Fresher(t)
      BY AgeNow, FresherTyped, BatchAssumption DEF IInv
    <2>. QED
      BY <1>3, <2>1, AgeNow, AskedIsRecent DEF AgeStep
  <1>. QED
    BY <1>1, <1>2, <1>3 DEF AutoLoop

LEMMA ReviewAges ==
  ASSUME IInv, AgeInv, NEW t \in Tasks, Review(t)
  PROVE  AgeStep(t)
  <1>1. request[t] \in Requests /\ request[t] # None
    BY DEF IInv, Shape, Review, Pending
  <1>2. PICK a \in {"pass", "fail", "blocked"} : request' = [request EXCEPT ![t].answer = a]
    BY DEF Review
  <1>. DEFINE q == [request[t] EXCEPT !.answer = a]
  <1>3. q.subject = request[t].subject /\ q.basis = request[t].basis
    BY <1>1 DEF Requests
  <1>4. request' = [request EXCEPT ![t] = q]
    BY <1>2 DEF IInv, Shape
  <1>5. Recent(q)
    BY <1>1, <1>3, AgeNow DEF Recent
  <1>6. canon' = canon
    BY DEF Review
  <1>. QED
    BY <1>4, <1>5, <1>6, AgeNow DEF AgeStep


(* Contents that only get newer keep the tips behind them.                 *)
LEMMA TipsKept ==
  ASSUME IInv, IInv', AgeInv, frozen' = frozen,
         \A u \in Tasks : canon[u] <= canon'[u] /\ Recent(request'[u])
  PROVE  AgeInv'
  <1>1. ASSUME NEW t \in Tasks, frozen[t].active, NEW u \in frozen[t].tip.up
        PROVE  u[1] \in Tasks /\ u[2] \in 0..canon'[u[1]]
    <2>1. u[1] \in Tasks /\ u[2] \in 0..canon[u[1]] /\ canon[u[1]] <= canon'[u[1]]
      BY <1>1 DEF AgeInv, Past
    <2>2. canon[u[1]] \in 0..MaxVersions /\ canon'[u[1]] \in 0..MaxVersions
      BY <2>1 DEF IInv, Shape
    <2>. QED
      BY <2>1, <2>2, BatchAssumption
  <1>. QED
    BY <1>1 DEF AgeInv, Recent, Past

LEMMA TaskAges ==
  ASSUME IInv, AgeInv, NEW t \in Tasks, AgeStep(t)
  PROVE  \A u \in Tasks : canon[u] <= canon'[u] /\ Recent(request'[u])
  <1>1. PICK c, q :
          /\ canon' = [canon EXCEPT ![t] = c] /\ canon[t] <= c
          /\ request' = [request EXCEPT ![t] = q] /\ Recent(q)
    BY DEF AgeStep
  <1>2. ASSUME NEW u \in Tasks PROVE canon[u] <= canon'[u] /\ Recent(request'[u])
    <2>1. CASE u = t
      BY <1>1, <2>1 DEF IInv, Shape
    <2>2. CASE u # t
      <3>1. canon'[u] = canon[u] /\ request'[u] = request[u]
        BY <1>1, <2>2 DEF IInv, Shape
      <3>. QED
        BY <3>1, AgeNow
    <2>. QED
      BY <2>1, <2>2
  <1>. QED
    BY <1>2

LEMMA FilesAge ==
  ASSUME IInv, AgeInv, [Next]_vars
  PROVE  \A u \in Tasks : canon[u] <= canon'[u] /\ Recent(request'[u])
  <1>1. CASE UNCHANGED <<canon, request>>
    BY <1>1, AgeNow
  <1>2. ASSUME NEW t \in Tasks, AgeStep(t)
        PROVE  \A u \in Tasks : canon[u] <= canon'[u] /\ Recent(request'[u])
    BY <1>2, TaskAges
  <1>3. CASE Execute
    <2>1. PICK x \in queue :
            \/ ReviewExisting(x.task) \/ AutoLoop(x.task)
            \/ Answered(x.task) /\ ReviewApplyDies(x.task)
      BY <1>3, ExecuteStep
    <2>2. x.task \in Tasks
      BY DEF IInv, Shape
    <2>. QED
      BY <1>2, <2>1, <2>2, ReviewExistingAges, AutoLoopAges, ReviewApplyDiesAges
  <1>4. ASSUME NEW t \in Tasks, Review(t) \/ Apply(t)
        PROVE  \A u \in Tasks : canon[u] <= canon'[u] /\ Recent(request'[u])
    BY <1>2, <1>4, ReviewAges, ReviewAppliedAges, ReviewApplyDiesAges DEF Apply
  <1>5. ASSUME NEW t \in Tasks, Reconcile(t)
        PROVE  \A u \in Tasks : canon[u] <= canon'[u] /\ Recent(request'[u])
    <2>1. canon' = canon /\ request' = [request EXCEPT ![t] = None]
      BY <1>5 DEF Reconcile
    <2>2. AgeStep(t)
      BY <1>5, <2>1, AgeNow, NoneIsRecent DEF AgeStep
    <2>. QED
      BY <1>2, <1>5, <2>2
  <1>6. ASSUME NEW t \in Tasks, EditOutput(t)
        PROVE  \A u \in Tasks : canon[u] <= canon'[u] /\ Recent(request'[u])
    <2>1. canon' = [canon EXCEPT ![t] = Fresher(t)] /\ request' = request
      BY <1>6 DEF EditOutput
    <2>2. canon[t] <= Fresher(t)
      BY <1>6, AgeNow, FresherTyped, BatchAssumption DEF IInv
    <2>3. AgeStep(t)
      BY <1>6, <2>1, <2>2, AgeNow DEF AgeStep
    <2>. QED
      BY <1>2, <1>6, <2>3
  <1>. QED
    BY <1>1, <1>3, <1>4, <1>5, <1>6
    DEF Next, vars, Plan, Rebuild, Diagnose, Decide, MathReview, BuildEvidence,
        OwnerDecides, Grant, Revoke

LEMMA AgeInitially == Init => AgeInv
  <1>. SUFFICES ASSUME Init PROVE AgeInv
    OBVIOUS
  <1>1. IInv
    BY Initially
  <1>2. ASSUME NEW t \in Tasks PROVE Recent(request[t])
    <2>1. PICK k \in Starts :
            /\ canon = [u \in Tasks |-> CASE k[u] \in {"new", "in review", "triaged", "exhausted"} -> 0
                                           [] k[u] = "decided" -> 2
                                           [] OTHER            -> 1]
            /\ request = [u \in Tasks |->
                  IF k[u] = "in review"
                  THEN [subject |-> 1,
                        basis |-> BasisOf([v \in Tasks |-> StartRow(v, k[v])], canon, u),
                        answer |-> None]
                  ELSE None]
      BY DEF Init
    <2>2. CASE k[t] = "in review"
      <3>1. canon[t] = 0 /\ request[t].subject = 1
        BY <2>1, <2>2
      <3>2. request[t].basis.file = canon[t]
        BY <2>1, <2>2 DEF BasisOf
      <3>. QED
        BY <3>1, <3>2 DEF Recent
    <2>3. CASE k[t] # "in review"
      BY <2>1, <2>3, NoneIsRecent
    <2>. QED
      BY <2>2, <2>3
  <1>3. ASSUME NEW t \in Tasks, frozen[t].active
        PROVE  frozen[t].tip.up = {<<d, canon[d]>> : d \in Planned[t]}
    <2>1. PICK k \in Starts :
            LET Froze(u) == [file |-> canon[u], up |-> {<<d, canon[d]>> : d \in Planned[u]}]
                Tip(u) == CASE k[u] = "frozen"  -> Froze(u)
                            [] k[u] = "decided" -> [Froze(u) EXCEPT !.file = 1]
                            [] OTHER            -> None
            IN  frozen = [u \in Tasks |-> [active |-> k[u] = "frozen", tip |-> Tip(u),
                                           revoked |-> k[u] = "decided"]]
      BY DEF Init
    <2>. DEFINE Froze == [file |-> canon[t], up |-> {<<d, canon[d]>> : d \in Planned[t]}]
    <2>2. k[t] = "frozen" /\ frozen[t].tip = Froze
      BY <1>3, <2>1
    <2>. QED
      BY <2>2
  <1>4. ASSUME NEW t \in Tasks, frozen[t].active, NEW u \in frozen[t].tip.up
        PROVE  u[1] \in Tasks /\ u[2] \in 0..canon[u[1]]
    <2>1. PICK d \in Planned[t] : u = <<d, canon[d]>>
      BY <1>3, <1>4
    <2>2. d \in Tasks
      BY <1>4, BatchAssumption
    <2>3. canon[d] \in 0..MaxVersions
      BY <1>1, <2>2 DEF IInv, Shape
    <2>. QED
      BY <2>1, <2>3, BatchAssumption
  <1>. QED
    BY <1>2, <1>4 DEF AgeInv, Past

LEMMA AgeInductive == IInv /\ AgeInv /\ [Next]_vars => AgeInv'
  <1>. SUFFICES ASSUME IInv, AgeInv, [Next]_vars PROVE AgeInv'
    OBVIOUS
  <1>1. IInv'
    BY Inductive
  <1>2. \A u \in Tasks : canon[u] <= canon'[u] /\ Recent(request'[u])
    BY FilesAge
  <1>3. CASE frozen' = frozen
    BY <1>1, <1>2, <1>3, TipsKept
  <1>4. ASSUME NEW t \in Tasks, Grant(t) PROVE AgeInv'
    <2>. DEFINE b == FrozenBasis(t)
    <2>1. frozen' = [frozen EXCEPT ![t] = [active |-> TRUE, tip |-> b, revoked |-> FALSE]]
          /\ canon' = canon
      BY <1>4 DEF Grant
    <2>2. ASSUME NEW u \in b.up PROVE u[1] \in Tasks /\ u[2] \in 0..canon'[u[1]]
      <3>1. PICK d \in row[t].deps : u = <<d, canon[d]>>
        BY DEF FrozenBasis
      <3>2. d \in Tasks
        BY <1>4 DEF IInv, Shape, Rows
      <3>3. canon[d] \in 0..MaxVersions
        BY <3>2 DEF IInv, Shape
      <3>. QED
        BY <2>1, <3>1, <3>2, <3>3, BatchAssumption
    <2>. HIDE DEF b
    <2>3. ASSUME NEW v \in Tasks, NEW u \in frozen'[v].tip.up, frozen'[v].active
          PROVE  u[1] \in Tasks /\ u[2] \in 0..canon'[u[1]]
      <3>1. CASE v = t
        BY <2>1, <2>2, <2>3, <3>1 DEF IInv, Shape
      <3>2. CASE v # t
        <4>1. frozen'[v] = frozen[v]
          BY <2>1, <3>2 DEF IInv, Shape
        <4>. QED
          BY <2>1, <2>3, <4>1 DEF AgeInv, Past
      <3>. QED
        BY <3>1, <3>2
    <2>. QED
      BY <1>2, <2>3 DEF AgeInv, Recent, Past
  <1>5. ASSUME NEW t \in Tasks, Revoke(t) PROVE AgeInv'
    <2>1. frozen' = [frozen EXCEPT ![t].active = FALSE, ![t].revoked = TRUE] /\ canon' = canon
      BY <1>5 DEF Revoke
    <2>2. \A v \in Tasks : frozen'[v].active => frozen'[v].tip = frozen[v].tip /\ frozen[v].active
      BY <2>1 DEF IInv, Shape
    <2>. QED
      BY <1>2, <2>1, <2>2 DEF AgeInv, Recent, Past
  <1>. QED
    BY <1>3, <1>4, <1>5
    DEF Next, vars, Plan, Execute, Rebuild, Review, Apply, Diagnose, Decide, MathReview,
        Reconcile, EditOutput, BuildEvidence, OwnerDecides, gate

(* What the batch reads of a task depends on the task and on the files and *)
(* statuses of its dependencies.                                           *)
LEMMA SameTask ==
  ASSUME NEW t \in Tasks, UNCHANGED gate,
         row'[t] = row[t], canon'[t] = canon[t], request'[t] = request[t],
         \A d \in row[t].deps : row'[d] = row[d] /\ canon'[d] = canon[d]
  PROVE  /\ Declared(t)' = Declared(t) /\ Phase2Status(t)' = Phase2Status(t)
         /\ TaskStatus(t)' = TaskStatus(t)
         /\ Unclassified(t)' <=> Unclassified(t)
  <1>1. FrozenBasis(t)' = FrozenBasis(t) /\ Basis(t)' = Basis(t)
    BY DEF FrozenBasis, Basis, BasisOf
  <1>2. Computable(t)' <=> Computable(t)
    BY DEF Computable, Official
  <1>3. FrozenPass(t)' <=> FrozenPass(t)
    BY <1>1, <1>2 DEF FrozenPass, gate
  <1>4. (Answered(t)' <=> Answered(t)) /\ (Fresh(t)' <=> Fresh(t))
    BY <1>1 DEF Answered, Fresh
  <1>5. Authority(t)' = Authority(t)
    BY <1>4 DEF Authority
  <1>6. Phase2Status(t)' = Phase2Status(t)
    BY <1>3, <1>5 DEF Phase2Status
  <1>7. TaskStatus(t)' = TaskStatus(t)
    BY <1>4, <1>5, <1>6 DEF TaskStatus
  <1>. QED
    BY <1>3, <1>5, <1>6, <1>7 DEF Declared, Unclassified

LEMMA SameUnder ==
  ASSUME \A u \in Tasks : row'[u].deps = row[u].deps
  PROVE  Under' = Under
  <1>1. ASSUME NEW t \in Tasks, NEW S \in SUBSET Tasks
        PROVE  (row'[t].deps \subseteq S /\ \A e \in S : row'[e].deps \subseteq S)
               <=> (row[t].deps \subseteq S /\ \A e \in S : row[e].deps \subseteq S)
    OBVIOUS
  <1>2. \A t \in Tasks :
          {d \in Tasks : \A S \in SUBSET Tasks :
              row'[t].deps \subseteq S /\ (\A e \in S : row'[e].deps \subseteq S) => d \in S}
          = {d \in Tasks : \A S \in SUBSET Tasks :
              row[t].deps \subseteq S /\ (\A e \in S : row[e].deps \subseteq S) => d \in S}
    BY <1>1
  <1>. QED
    BY <1>2 DEF Under

(* A clean task that blocks nobody stays so while nothing changes at it    *)
(* and under it.                                                           *)
LEMMA CleanIsLocal ==
  ASSUME IInv, NEW t \in Tasks, Clean(t), t \notin Blocking, UNCHANGED gate,
         \A u \in Tasks : row'[u].deps = row[u].deps,
         \A d \in {t} \cup Under[t] :
             row'[d] = row[d] /\ canon'[d] = canon[d] /\ request'[d] = request[d]
  PROVE  Clean(t)' /\ t \notin Blocking'
  <1>1. Under' = Under
    BY SameUnder
  <1>2. Under[t] \subseteq Tasks /\ \A d \in {t} \cup Under[t] : row[d].deps \subseteq Under[t]
    <2>1. Under[t] \subseteq Tasks /\ row[t].deps \subseteq Under[t]
          /\ \A d \in Under[t] : Under[d] \subseteq Under[t]
      BY UnderFacts DEF IInv
    <2>2. \A d \in Under[t] : row[d].deps \subseteq Under[d]
      BY <2>1, UnderFacts DEF IInv
    <2>. QED
      BY <2>1, <2>2
  <1>3. ASSUME NEW d \in {t} \cup Under[t]
        PROVE  /\ Declared(d)' = "COMPLETED" /\ TaskStatus(d)' = "pass"
               /\ Phase2Status(d)' # "needs_fresh_review" /\ ~Unclassified(d)'
    <2>1. d \in Tasks
      BY <1>2
    <2>2. Declared(d) = "COMPLETED" /\ TaskStatus(d) = "pass"
      BY CleanFacts
    <2>3. Phase2Status(d) # "needs_fresh_review" /\ ~Unclassified(d)
      <3>1. d \notin Blocking
        BY CleanFacts
      <3>. QED
        BY <2>1, <2>2, <3>1 DEF Blocking
    <2>4. \A e \in row[d].deps : row'[e] = row[e] /\ canon'[e] = canon[e]
      BY <1>2
    <2>5. /\ Declared(d)' = Declared(d) /\ Phase2Status(d)' = Phase2Status(d)
          /\ TaskStatus(d)' = TaskStatus(d)
          /\ Unclassified(d)' <=> Unclassified(d)
      BY <2>1, <2>4, SameTask
    <2>. QED
      BY <2>2, <2>3, <2>5
  <1>4. ~Gated(t)'
    BY <1>1, <1>3 DEF Gated, HardFailed, Blocking, ProofDebt
  <1>. QED
    BY <1>3, <1>4 DEF Clean, RowStatus, Blocking

(* A row of accepted proof debt stays one when files get newer.            *)
LEMMA DebtIsLocal ==
  ASSUME IInv, IInv', AgeInv, NEW t \in Tasks, Declared(t) = "COMPLETED_WITH_PROOF_DEBT",
         UNCHANGED gate, row'[t] = row[t], canon'[t] = canon[t],
         \A d \in Tasks : canon[d] <= canon'[d]
  PROVE  Declared(t)' = "COMPLETED_WITH_PROOF_DEBT"
  <1>1. ~FrozenPass(t) /\ row[t].status = "COMPLETED_WITH_PROOF_DEBT"
    BY DEF Declared
  <1>2. ~FrozenPass(t)'
    <2>. SUFFICES ASSUME FrozenPass(t)' PROVE FALSE
      OBVIOUS
    <2>1. /\ frozen[t].active /\ ~frozen[t].revoked /\ t \in decision
          /\ Computable(t)' /\ frozen[t].tip = FrozenBasis(t)'
          /\ <<t, FrozenBasis(t)'>> \in built
          /\ head[t] = [receipt |-> FrozenBasis(t)', fresh |-> TRUE]
      BY DEF FrozenPass, gate
    <2>2. ASSUME NEW d \in row[t].deps PROVE canon'[d] = canon[d]
      <3>1. <<d, canon'[d]>> \in frozen[t].tip.up
        BY <2>1 DEF FrozenBasis
      <3>2. d \in Tasks /\ canon'[d] \in 0..canon[d]
        BY <2>1, <3>1 DEF AgeInv, Past
      <3>3. canon[d] \in 0..MaxVersions /\ canon[d] <= canon'[d]
        BY <3>2 DEF IInv, Shape
      <3>. QED
        BY <3>2, <3>3, BatchAssumption
    <2>3. FrozenBasis(t)' = FrozenBasis(t)
      BY <2>2 DEF FrozenBasis
    <2>4. Computable(t)
      BY <2>1, <2>2 DEF Computable, Official
    <2>. QED
      BY <1>1, <2>1, <2>3, <2>4 DEF FrozenPass
  <1>. QED
    BY <1>1, <1>2 DEF Declared

(* An action of the plan that is not for a row of proof debt starts over   *)
(* clean dependencies, and no other action of the plan is for a task under *)
(* them.                                                                   *)
Ready(x) ==
    \/ Declared(x.task) = "COMPLETED_WITH_PROOF_DEBT"
    \/ \A d \in row[x.task].deps :
          Clean(d) /\ d \notin Blocking /\ \A y \in queue : y.task \notin {d} \cup Under[d]

PlanInv ==
    /\ \A x, y \in queue : x.task = y.task => x = y
    /\ ~disturbed => \A x \in queue : Ready(x)

(* What the plan takes up has nothing under it that the plan takes up.     *)
LEMMA PlannedIsReady ==
  ASSUME IInv, NEW t \in Tasks, ActionFor(t) \in Executable,
         Declared(t) # "COMPLETED_WITH_PROOF_DEBT"
  PROVE  \A d \in row[t].deps :
            Clean(d) /\ d \notin Blocking /\ \A e \in {d} \cup Under[d] : ActionFor(e) = "none"
  <1>1. ~Gated(t)
    BY DEF ActionFor, Executable
  <1>2. row[t].deps \subseteq Under[t] /\ Under[t] \subseteq Tasks
        /\ \A e \in Under[t] : Under[e] \subseteq Under[t]
    BY UnderFacts DEF IInv
  <1>3. ASSUME NEW e \in Under[t] PROVE Clean(e) /\ e \notin Blocking
    <2>1. Declared(e) = "COMPLETED" /\ TaskStatus(e) = "pass"
      BY <1>1, <1>2 DEF Gated, Blocking, ProofDebt
    <2>2. ~Gated(e)
      BY <1>1, <1>2 DEF Gated
    <2>. QED
      BY <1>1, <2>1, <2>2 DEF Clean, RowStatus, Gated
  <1>4. \A e \in Under[t] : ActionFor(e) = "none"
    BY <1>3 DEF ActionFor
  <1>. QED
    BY <1>2, <1>3, <1>4

(* A step at task a keeps the readiness of the actions for other tasks.    *)
LEMMA ReadyKept ==
  ASSUME IInv, IInv', AgeInv, NEW x \in queue, Ready(x), queue' \subseteq queue, UNCHANGED gate,
         \A u \in Tasks : row'[u].deps = row[u].deps /\ canon[u] <= canon'[u],
         NEW M, M \subseteq {y.task : y \in queue}, x.task \notin M,
         \A u \in Tasks \ M :
             row'[u] = row[u] /\ canon'[u] = canon[u] /\ request'[u] = request[u]
  PROVE  Ready(x)'
  <1>1. x.task \in Tasks /\ row[x.task].deps \subseteq Tasks
    BY DEF IInv, Shape, Rows
  <1>2. CASE Declared(x.task) = "COMPLETED_WITH_PROOF_DEBT"
    <2>1. Declared(x.task)' = "COMPLETED_WITH_PROOF_DEBT"
      BY <1>1, <1>2, DebtIsLocal
    <2>. QED
      BY <2>1 DEF Ready
  <1>3. ASSUME NEW d \in row[x.task].deps,
               Clean(d) /\ d \notin Blocking /\ \A y \in queue : y.task \notin {d} \cup Under[d]
        PROVE  Clean(d)' /\ d \notin Blocking' /\ \A y \in queue' : y.task \notin {d} \cup Under'[d]
    <2>1. d \in Tasks /\ Under[d] \subseteq Tasks
      BY <1>1, UnderFacts DEF IInv
    <2>2. \A e \in {d} \cup Under[d] :
             row'[e] = row[e] /\ canon'[e] = canon[e] /\ request'[e] = request[e]
      BY <1>3, <2>1
    <2>3. Clean(d)' /\ d \notin Blocking'
      BY <1>3, <2>1, <2>2, CleanIsLocal
    <2>4. Under' = Under
      BY SameUnder
    <2>. QED
      BY <1>3, <2>3, <2>4
  <1>4. row'[x.task].deps = row[x.task].deps
    BY <1>1
  <1>. QED
    BY <1>2, <1>3, <1>4 DEF Ready

(* An action of the batch does not touch dependencies.                     *)
LEMMA DepsKept ==
  ASSUME IInv, NEW t \in Tasks,
         ReviewExisting(t) \/ AutoLoop(t) \/ ReviewApplyDies(t)
  PROVE  \A u \in Tasks : row'[u].deps = row[u].deps
  <1>1. row \in [Tasks -> Rows]
    BY DEF IInv, Shape
  <1>2. CASE ReviewExisting(t)
    BY <1>1, <1>2 DEF ReviewExisting, Rows
  <1>3. CASE Landed(t)
    <2>. DEFINE cn == [canon EXCEPT ![t] = request[t].subject]
                rw == [row EXCEPT ![t].status = "COMPLETED"]
                receipt == [origin |-> request[t].basis, post |-> BasisOf(rw, cn, t)]
                r == [rw[t] EXCEPT !.claim = "pass", !.class = "ok", !.hist = "pass",
                            !.reconciled = FALSE, !.verify = None, !.stop = None, !.bound = TRUE,
                            !.receipt = receipt]
    <2>1. row' = [row EXCEPT ![t] = r]
      BY <1>3 DEF Landed
    <2>2. rw[t] \in Rows /\ rw[t].deps = row[t].deps
      BY <1>1 DEF Rows, Statuses
    <2>. HIDE DEF rw, receipt
    <2>3. r.deps = rw[t].deps
      BY <2>2 DEF Rows
    <2>. HIDE DEF r
    <2>. QED
      BY <1>1, <2>1, <2>2, <2>3
  <1>4. ASSUME NEW claim, NotLanded(t, claim)
        PROVE  \A u \in Tasks : row'[u].deps = row[u].deps
    BY <1>1, <1>4 DEF NotLanded, Rows
  <1>5. CASE FinalBuildFails(t)
    BY <1>1, <1>5 DEF FinalBuildFails, Rows
  <1>6. CASE ReviewApplied(t)
    BY <1>3, <1>4, <1>5, <1>6 DEF ReviewApplied
  <1>7. CASE ~ReviewApplied(t) /\ AutoLoop(t)
    BY <1>1, <1>7 DEF AutoLoop, Rows
  <1>8. CASE HalfLanded(t)
    BY <1>1, <1>8 DEF HalfLanded, Rows
  <1>9. ASSUME NEW failing, Unrecorded(t, failing)
        PROVE  \A u \in Tasks : row'[u].deps = row[u].deps
    BY <1>1, <1>9 DEF Unrecorded, Rows
  <1>10. CASE ReviewApplyDies(t)
    BY <1>8, <1>9, <1>10 DEF ReviewApplyDies, PromotedOnly
  <1>. QED
    BY <1>2, <1>6, <1>7, <1>10

LEMMA PlanInductive == IInv /\ AgeInv /\ PlanInv /\ [Next]_vars => PlanInv'
  <1>. SUFFICES ASSUME IInv, AgeInv, PlanInv, [Next]_vars PROVE PlanInv'
    OBVIOUS
  <1>1. IInv' /\ \A u \in Tasks : canon[u] <= canon'[u]
    BY Inductive, FilesAge
  <1>2. CASE UNCHANGED vars
    <2>1. ASSUME NEW x \in queue, Ready(x) PROVE Ready(x)'
      <3>1. queue' \subseteq queue /\ UNCHANGED <<row, canon, request, gate>>
        BY <1>2 DEF vars, batch
      <3>. DEFINE nobody == {}
      <3>2. \A u \in Tasks \ nobody :
              row'[u] = row[u] /\ canon'[u] = canon[u] /\ request'[u] = request[u]
        BY <3>1
      <3>3. \A u \in Tasks : row'[u].deps = row[u].deps /\ canon[u] <= canon'[u]
        BY <1>1, <3>1
      <3>4. nobody \subseteq {y.task : y \in queue} /\ x.task \notin nobody
        OBVIOUS
      <3>. HIDE DEF nobody
      <3>. QED
        BY <1>1, <2>1, <3>1, <3>2, <3>3, <3>4, ReadyKept
    <2>2. queue' = queue /\ disturbed' = disturbed
      BY <1>2 DEF vars, batch
    <2>. QED
      BY <2>1, <2>2 DEF PlanInv
  <1>3. CASE Plan
    <2>1. /\ queue' = {[task |-> t, action |-> ActionFor(t)] :
                          t \in {u \in Tasks : ActionFor(u) \in Executable}}
          /\ UNCHANGED <<row, canon, request, gate>>
      BY <1>3 DEF Plan
    <2>2. \A x \in queue' : x.task \in Tasks /\ ActionFor(x.task) \in Executable
      BY <2>1
    <2>3. \A x, y \in queue' : x.task = y.task => x = y
      BY <2>1
    <2>4. ASSUME NEW x \in queue' PROVE Ready(x)'
      <3>. DEFINE t == x.task
      <3>1. t \in Tasks /\ row[t].deps \subseteq Tasks
        BY <2>2 DEF IInv, Shape, Rows
      <3>2. CASE Declared(t) = "COMPLETED_WITH_PROOF_DEBT"
        <4>1. Declared(t)' = Declared(t)
          BY <2>1, <3>1, SameTask
        <4>. QED
          BY <3>2, <4>1 DEF Ready
      <3>3. ASSUME NEW d \in row[t].deps, Declared(t) # "COMPLETED_WITH_PROOF_DEBT"
            PROVE  Clean(d)' /\ d \notin Blocking' /\ \A y \in queue' : y.task \notin {d} \cup Under'[d]
        <4>1. Clean(d) /\ d \notin Blocking /\ \A e \in {d} \cup Under[d] : ActionFor(e) = "none"
          BY <2>2, <3>1, <3>3, PlannedIsReady
        <4>2. Clean(d)' /\ d \notin Blocking'
          BY <2>1, <3>1, <4>1, CleanIsLocal
        <4>3. Under' = Under
          BY <2>1, SameUnder
        <4>. QED
          BY <2>2, <4>1, <4>2, <4>3 DEF Executable
      <3>. QED
        BY <2>1, <3>2, <3>3 DEF Ready
    <2>. QED
      BY <2>3, <2>4 DEF PlanInv
  <1>4. CASE Execute
    <2>1. PICK x \in queue :
            /\ queue' = queue \ {x}
            /\ TaskStep(x.task)
            /\ \/ ReviewExisting(x.task) \/ AutoLoop(x.task)
               \/ Answered(x.task) /\ ReviewApplyDies(x.task)
      BY <1>4, ExecuteStep
    <2>2. x.task \in Tasks
      BY DEF IInv, Shape
    <2>3. TaskStep(x.task)
      BY <2>1
    <2>4. \A u \in Tasks \ {x.task} :
             row'[u] = row[u] /\ canon'[u] = canon[u] /\ request'[u] = request[u]
      BY <2>3 DEF TaskStep, IInv, Shape
    <2>5. \A u \in Tasks : row'[u].deps = row[u].deps
      BY <2>1, <2>2, DepsKept
    <2>6. queue' = queue \ {x} /\ disturbed' = disturbed /\ UNCHANGED gate
      BY <1>4, <2>1 DEF Execute
    <2>7. ASSUME NEW y \in queue', Ready(y) PROVE Ready(y)'
      <3>1. y \in queue /\ y.task # x.task
        BY <2>6 DEF PlanInv
      <3>2. {x.task} \subseteq {z.task : z \in queue}
        OBVIOUS
      <3>. QED
        BY <1>1, <2>4, <2>5, <2>6, <2>7, <3>1, <3>2, ReadyKept
    <2>. QED
      BY <2>6, <2>7 DEF PlanInv
  <1>5. CASE disturbed' /\ queue' = queue
    BY <1>5 DEF PlanInv
  <1>. QED
    BY <1>2, <1>3, <1>4, <1>5
    DEF Next, Rebuild, Review, Apply, Diagnose, Decide, MathReview, Reconcile, EditOutput,
        BuildEvidence, OwnerDecides, Grant, Revoke, Disturb, batch

(* While nothing else happens the batch never starts on a task over a      *)
(* dependency that is not clean, to the last action of its plan.           *)
THEOREM PlansStayReady == Spec => DispatchIsReady
  <1>1. Init => AgeInv /\ PlanInv
    BY AgeInitially DEF Init, PlanInv
  <1>2. IInv /\ AgeInv /\ PlanInv /\ [Next]_vars => AgeInv' /\ PlanInv'
    BY AgeInductive, PlanInductive
  <1>3. IInv /\ PlanInv =>
          (left' < left /\ ~disturbed =>
              \A x \in queue \ queue' :
                  Declared(x.task) # "COMPLETED_WITH_PROOF_DEBT" =>
                      \A d \in row[x.task].deps : Clean(d))
    BY DEF PlanInv, Ready
  <1>. QED
    BY <1>1, <1>2, <1>3, Initially, Inductive, PTL DEF Spec, DispatchIsReady
=============================================================================
