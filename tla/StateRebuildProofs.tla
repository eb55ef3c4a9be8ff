-------------------------- MODULE StateRebuildProofs --------------------------
(***************************************************************************)
(* What the state database may say after any commands, kills and rebuilds, *)
(* for any bundles and histories: authority stays with declarations that   *)
(* somebody accepted, no command takes it from a review, and a rebuild     *)
(* loses none that has a receipt.                                          *)
(*                                                                         *)
(* The rebuild imports a set of files by folds, in an order that the       *)
(* recursion picks; the proofs hold for every order. A fold over a finite  *)
(* set is shown to exist, and to be steps from the empty set to the whole  *)
(* one, by the least size at which it would not; what one step keeps, the  *)
(* fold keeps. The rest is an inductive invariant: every table agrees with *)
(* the files, and the files are only added to.                             *)
(***************************************************************************)
EXTENDS StateRebuild, FiniteSetTheorems, WellFoundedInduction, TLAPS

-----------------------------------------------------------------------------
(* Folds over a finite set. A recursive definition over subsets is an      *)
(* existing function because a smallest subset without one would have one  *)
(* less element away from a subset that has it.                            *)

Last(s) == CHOOSE x \in s : TRUE

(* A set of numbers that is not empty has a least one.                     *)
LEMMA Least ==
  ASSUME NEW S, S \subseteq Nat, S # {}
  PROVE  \E n \in S : \A m \in S : n <= m
  <1>1. PICK n \in S : \A m \in S : ~ (<<m, n>> \in OpToRel(<, Nat))
    BY NatLessThanWellFounded, WFMin
  <1>2. \A m \in S : ~ (m < n)
    BY <1>1 DEF OpToRel
  <1>. QED
    BY <1>2

(* A set without one of its elements is smaller.                           *)
LEMMA Smaller ==
  ASSUME NEW S, IsFiniteSet(S), NEW s \in SUBSET S, NEW x \in s
  PROVE  /\ Cardinality(s) \in Nat /\ Cardinality(s \ {x}) \in Nat
         /\ Cardinality(s \ {x}) < Cardinality(s)
  <1>1. IsFiniteSet(s) /\ IsFiniteSet(s \ {x})
    BY FS_Subset
  <1>2. Cardinality(s \ {x}) = Cardinality(s) - 1
    BY <1>1, FS_RemoveElement
  <1>. QED
    BY <1>1, <1>2, FS_CardinalityType

(* What holds of a subset when it holds of that subset without any one of  *)
(* its elements holds of the whole finite set.                             *)
LEMMA SubsetInduction ==
  ASSUME NEW S, IsFiniteSet(S), NEW good,
         \A s \in SUBSET S : (\A x \in s : s \ {x} \in good) => s \in good
  PROVE  S \in good
  <1>. DEFINE bad == {s \in SUBSET S : s \notin good}
              sizes == {Cardinality(s) : s \in bad}
  <1>. SUFFICES ASSUME S \notin good PROVE FALSE
    OBVIOUS
  <1>1. sizes \subseteq Nat /\ sizes # {}
    BY FS_Subset, FS_CardinalityType
  <1>2. PICK n \in sizes : \A m \in sizes : n <= m
    BY <1>1, Least
  <1>3. PICK s \in bad : n = Cardinality(s)
    OBVIOUS
  <1>4. PICK x \in s : s \ {x} \notin good
    BY <1>3
  <1>5. Cardinality(s \ {x}) \in sizes /\ s \in SUBSET S
    BY <1>3, <1>4
  <1>6. /\ Cardinality(s) \in Nat /\ Cardinality(s \ {x}) \in Nat
        /\ Cardinality(s \ {x}) < Cardinality(s)
    BY <1>4, <1>5, Smaller
  <1>7. Cardinality(s) <= Cardinality(s \ {x})
    BY <1>2, <1>3, <1>5
  <1>. QED
    BY <1>6, <1>7

(* One step of each of the folds an import is made of.                     *)
Step(op, acc, x) ==
    CASE op = "review" -> RecordReview(acc, x)
      [] op = "edge" -> RecordTransformation(acc, x)
      [] op = "binding" -> RecordBinding(acc, x)
      [] OTHER -> ReplayBatch(acc, x)

(* v is made of d by the steps of the elements of S, in some order.        *)
Folded(op, d, S, v) ==
    \E it : /\ v = it[S] /\ it[{}] = d
            /\ \A s \in SUBSET S : s # {} => \E x \in s : it[s] = Step(op, it[s \ {x}], x)

(* The recursion the folds of the community modules are defined by, which  *)
(* takes away the element that CHOOSE picks.                               *)
Recursion(op, d, S, g) ==
    [s \in SUBSET S |-> IF s = {} THEN d ELSE Step(op, g[s \ {Last(s)}], Last(s))]

(* The recursion has a solution, so the CHOOSE of a fold denotes one.      *)
LEMMA FoldExists ==
  ASSUME NEW op, NEW d, NEW S, IsFiniteSet(S)
  PROVE  \E g : g = Recursion(op, d, S, g)
  <1>. DEFINE Upto(n) == {s \in SUBSET S : Cardinality(s) <= n}
              Body(g, s) == IF s = {} THEN d ELSE Step(op, g[s \ {Last(s)}], Last(s))
              stuck == {n \in Nat : ~\E g : g = [s \in Upto(n) |-> Body(g, s)]}
  <1>1. \A s \in SUBSET S : s # {} => Last(s) \in s
    BY DEF Last
  <1>2. stuck = {}
    <2>. SUFFICES ASSUME stuck # {} PROVE FALSE
      OBVIOUS
    <2>1. PICK n \in stuck : \A m \in stuck : n <= m
      BY Least
    <2>2. CASE n = 0
      <3>1. \A s \in Upto(0) : s = {}
        BY FS_Subset, FS_EmptySet, FS_CardinalityType
      <3>. DEFINE g == [s \in Upto(0) |-> d]
      <3>2. g = [s \in Upto(0) |-> Body(g, s)]
        BY <3>1
      <3>. QED
        BY <2>1, <2>2, <3>2
    <2>3. CASE n # 0
      <3>1. n \in Nat /\ n - 1 \in Nat /\ n - 1 \notin stuck
        <4>1. n \in Nat
          BY <2>1
        <4>. HIDE DEF stuck
        <4>. QED
          BY <2>1, <2>3, <4>1
      <3>2. PICK g : g = [s \in Upto(n - 1) |-> Body(g, s)]
        BY <3>1
      <3>. DEFINE h == [s \in Upto(n) |-> Body(g, s)]
      <3>3. \A s \in Upto(n - 1) : s \in Upto(n) /\ h[s] = g[s]
        <4>1. \A s \in SUBSET S : Cardinality(s) \in Nat
          BY FS_Subset, FS_CardinalityType
        <4>2. \A s \in Upto(n - 1) : s \in Upto(n)
          BY <3>1, <4>1
        <4>3. \A s \in Upto(n) : h[s] = Body(g, s)
          OBVIOUS
        <4>4. \A s \in Upto(n - 1) : g[s] = Body(g, s)
          BY <3>2
        <4>. HIDE DEF h, Body, Upto
        <4>. QED
          BY <4>2, <4>3, <4>4
      <3>4. \A s \in Upto(n) : s # {} => s \ {Last(s)} \in Upto(n - 1)
        BY <1>1, <2>1, <3>1, Smaller
      <3>5. \A s \in Upto(n) : Body(h, s) = Body(g, s)
        <4>. HIDE DEF h
        <4>. QED BY <3>3, <3>4
      <3>6. h = [s \in Upto(n) |-> Body(h, s)]
        BY <3>5
      <3>. QED
        BY <2>1, <3>6
    <2>. QED
      BY <2>2, <2>3
  <1>3. \E g : g = [s \in SUBSET S |-> Body(g, s)]
    <2>1. Cardinality(S) \in Nat /\ \A s \in SUBSET S : Cardinality(s) <= Cardinality(S)
      BY FS_Subset, FS_CardinalityType
    <2>2. SUBSET S = Upto(Cardinality(S))
      BY <2>1
    <2>3. \E g : g = [s \in Upto(Cardinality(S)) |-> Body(g, s)]
      BY <1>2, <2>1
    <2>. HIDE DEF Upto, Body
    <2>. QED
      BY <2>2, <2>3
  <1>. QED
    BY <1>3 DEF Recursion

(* Any solution of the recursion is made by steps.                         *)
LEMMA FoldedBy ==
  ASSUME NEW op, NEW d, NEW S, NEW g, g = Recursion(op, d, S, g)
  PROVE  Folded(op, d, S, g[S])
  <1>1. g[{}] = d
    BY DEF Recursion
  <1>2. \A s \in SUBSET S : s # {} => Last(s) \in s /\ g[s] = Step(op, g[s \ {Last(s)}], Last(s))
    BY DEF Last, Recursion
  <1>. QED
    BY <1>1, <1>2 DEF Folded

(* import_review_file and its siblings: a loop of record_review over rows. *)
LEMMA ReviewsFolded ==
  ASSUME NEW d, NEW S, IsFiniteSet(S)
  PROVE  Folded("review", d, S, RecordReviews(d, S))
  <1>. DEFINE F(g) == [s \in SUBSET S |-> IF s = {} THEN d ELSE RecordReview(g[s \ {Last(s)}], Last(s))]
              iter == CHOOSE g : g = F(g)
  <1>1. \A g : F(g) = Recursion("review", d, S, g)
    BY DEF Step, Recursion
  <1>2. RecordReviews(d, S) = iter[S]
    BY DEF RecordReviews, FoldSet, MapThenFoldSet, Last
  <1>3. \E g : g = Recursion("review", d, S, g)
    BY FoldExists
  <1>. HIDE DEF F
  <1>4. iter = Recursion("review", d, S, iter)
    BY <1>1, <1>3
  <1>. HIDE DEF iter
  <1>. QED
    BY <1>2, <1>4, FoldedBy

(* The loops of record_transformation over rows.                           *)
LEMMA EdgesFolded ==
  ASSUME NEW d, NEW S, IsFiniteSet(S)
  PROVE  Folded("edge", d, S, RecordTransformations(d, S))
  <1>. DEFINE F(g) == [s \in SUBSET S |-> IF s = {} THEN d ELSE RecordTransformation(g[s \ {Last(s)}], Last(s))]
              iter == CHOOSE g : g = F(g)
  <1>1. \A g : F(g) = Recursion("edge", d, S, g)
    BY DEF Step, Recursion
  <1>2. RecordTransformations(d, S) = iter[S]
    BY DEF RecordTransformations, FoldSet, MapThenFoldSet, Last
  <1>3. \E g : g = Recursion("edge", d, S, g)
    BY FoldExists
  <1>. HIDE DEF F
  <1>4. iter = Recursion("edge", d, S, iter)
    BY <1>1, <1>3
  <1>. HIDE DEF iter
  <1>. QED
    BY <1>2, <1>4, FoldedBy

(* The loop of record_evidence_bridge_binding over rows.                   *)
LEMMA BindingsFolded ==
  ASSUME NEW d, NEW S, IsFiniteSet(S)
  PROVE  Folded("binding", d, S, RecordBindings(d, S))
  <1>. DEFINE F(g) == [s \in SUBSET S |-> IF s = {} THEN d ELSE RecordBinding(g[s \ {Last(s)}], Last(s))]
              iter == CHOOSE g : g = F(g)
  <1>1. \A g : F(g) = Recursion("binding", d, S, g)
    BY DEF Step, Recursion
  <1>2. RecordBindings(d, S) = iter[S]
    BY DEF RecordBindings, FoldSet, MapThenFoldSet, Last
  <1>3. \E g : g = Recursion("binding", d, S, g)
    BY FoldExists
  <1>. HIDE DEF F
  <1>4. iter = Recursion("binding", d, S, iter)
    BY <1>1, <1>3
  <1>. HIDE DEF iter
  <1>. QED
    BY <1>2, <1>4, FoldedBy

(* The loop of replays over migration receipts.                            *)
LEMMA BatchesFolded ==
  ASSUME NEW d, NEW F, IsFiniteSet(F)
  PROVE  Folded("batch", d, Of("batch", F), ImportBatches(d, F))
  <1>. DEFINE S == Of("batch", F)
              B(g) == [s \in SUBSET S |-> IF s = {} THEN d ELSE ReplayBatch(g[s \ {Last(s)}], Last(s))]
              iter == CHOOSE g : g = B(g)
  <1>1. \A g : B(g) = Recursion("batch", d, S, g)
    BY DEF Step, Recursion
  <1>2. ImportBatches(d, F) = iter[S]
    BY DEF ImportBatches, FoldSet, MapThenFoldSet, Last
  <1>3. \E g : g = Recursion("batch", d, S, g)
    <2>1. IsFiniteSet(S)
      BY FS_Subset DEF Of
    <2>. QED
      BY <2>1, FoldExists
  <1>. HIDE DEF B
  <1>4. iter = Recursion("batch", d, S, iter)
    BY <1>1, <1>3
  <1>. HIDE DEF iter
  <1>. QED
    BY <1>2, <1>4, FoldedBy


-----------------------------------------------------------------------------
(* Upserts of reviews, one and many.                                       *)

(* A review row, and a database, by their columns and tables.              *)
IsRow(r) ==
    r = [ev |-> r.ev, subject |-> r.subject, verdict |-> r.verdict, scope |-> r.scope,
         id |-> r.id, eligible |-> r.eligible, modern |-> r.modern]

IsDb(d) ==
    d = [reviews |-> d.reviews, edges |-> d.edges, bindings |-> d.bindings, heads |-> d.heads]

(* R is what upserts make of the rows U: a row under each identity that    *)
(* was written, with the verdict, scope and eligibility of one of its      *)
(* writers and the metadata of one, never the weaker.                      *)
Upserted(U, R) ==
    /\ \A q \in R : \E p \in U :
          /\ SameReview(p, q)
          /\ q.verdict = p.verdict /\ q.scope = p.scope /\ q.eligible = p.eligible
    /\ \A q \in R : IsRow(q) /\ \E p \in U : SameReview(p, q) /\ q.modern = p.modern
    /\ \A p \in U : \E q \in R :
          /\ SameReview(p, q)
          /\ p.eligible => q.eligible
          /\ q.modern = None => p.modern = None

(* The row an upsert leaves where q was.                                   *)
Merged(q, r) ==
    [(IF r.eligible /\ ~q.eligible THEN r ELSE q)
     EXCEPT !.id = q.id, !.modern = IF r.modern = None THEN q.modern ELSE r.modern]

(* An upsert leaves the weaker of two writers nothing of its own: the row  *)
(* is eligible when either writer was, and keeps its scope and verdict     *)
(* when the row it meets was eligible.                                     *)
LEMMA MergedIs ==
  ASSUME NEW q, NEW r, IsRow(q), IsRow(r), SameReview(q, r), r.eligible \in BOOLEAN, q.eligible \in BOOLEAN
  PROVE  LET m == Merged(q, r)
         IN  /\ IsRow(m) /\ SameReview(m, q)
             /\ m.eligible <=> q.eligible \/ r.eligible
             /\ m.modern = IF r.modern = None THEN q.modern ELSE r.modern
             /\ \E p \in {q, r} :
                   m.verdict = p.verdict /\ m.scope = p.scope /\ m.eligible = p.eligible
             /\ q.eligible => m.verdict = q.verdict /\ m.scope = q.scope
  <1>. DEFINE modern == IF r.modern = None THEN q.modern ELSE r.modern
              Row(p) == [ev |-> p.ev, subject |-> p.subject, verdict |-> p.verdict, scope |-> p.scope,
                         id |-> q.id, eligible |-> p.eligible, modern |-> modern]
  <1>1. CASE r.eligible /\ ~q.eligible
    <2>1. Merged(q, r) = [r EXCEPT !.id = q.id, !.modern = modern]
      BY <1>1 DEF Merged
    <2>2. Merged(q, r) = Row(r)
      BY <2>1 DEF IsRow
    <2>. DEFINE m == Merged(q, r)
    <2>3. /\ m.ev = r.ev /\ m.subject = r.subject /\ m.verdict = r.verdict /\ m.scope = r.scope
          /\ m.eligible = r.eligible /\ m.modern = modern /\ IsRow(m)
      BY <2>2 DEF IsRow
    <2>. HIDE DEF m
    <2>. QED
      BY <1>1, <2>3 DEF SameReview, m
  <1>2. CASE ~(r.eligible /\ ~q.eligible)
    <2>1. Merged(q, r) = [q EXCEPT !.id = q.id, !.modern = modern]
      BY <1>2 DEF Merged
    <2>2. Merged(q, r) = Row(q)
      BY <2>1 DEF IsRow
    <2>. QED
      BY <1>2, <2>2 DEF IsRow, SameReview
  <1>. QED
    BY <1>1, <1>2

(* record_review: the row that was there and the one that is written are   *)
(* merged, every other row stays, and no eligible row loses anything but   *)
(* its metadata to a writer that has some.                                 *)
LEMMA OneUpsert ==
  ASSUME NEW d, NEW r, IsDb(d), IsRow(r), r.eligible \in BOOLEAN,
         \A q \in d.reviews : IsRow(q) /\ q.eligible \in BOOLEAN
  PROVE  LET n == RecordReview(d, r)
         IN  /\ IsDb(n) /\ n.edges = d.edges /\ n.bindings = d.bindings /\ n.heads = d.heads
             /\ Upserted(d.reviews \cup {r}, n.reviews)
             /\ (\A p, q \in d.reviews : SameReview(p, q) => p = q) =>
                   \A p, q \in n.reviews : SameReview(p, q) => p = q
             /\ \A p \in d.reviews : Eligible(p) => \E q \in n.reviews :
                   /\ SameReview(q, p) /\ Eligible(q) /\ q.scope = p.scope
                   /\ \/ q.modern = p.modern
                      \/ SameReview(r, p) /\ r.modern # None /\ q.modern = r.modern
  <1>. DEFINE old == {q \in d.reviews : SameReview(q, r)}
              new == IF old = {} THEN {r} ELSE {Merged(q, r) : q \in old}
              n == RecordReview(d, r)
  <1>1. n = [d EXCEPT !.reviews = (@ \ old) \cup new]
    BY DEF RecordReview, Merged
  <1>2. /\ IsDb(n) /\ n.edges = d.edges /\ n.bindings = d.bindings /\ n.heads = d.heads
        /\ n.reviews = (d.reviews \ old) \cup new
    BY <1>1 DEF IsDb
  <1>3. \A q \in old : /\ SameReview(Merged(q, r), q) /\ SameReview(Merged(q, r), r) 
                       /\ IsRow(Merged(q, r))
    BY MergedIs DEF SameReview
  <1>. HIDE DEF n
  <1>4. ASSUME NEW q \in n.reviews PROVE
          /\ IsRow(q)
          /\ \E p \in d.reviews \cup {r} : SameReview(p, q) /\ q.verdict = p.verdict /\ q.scope = p.scope
                                           /\ q.eligible = p.eligible
          /\ \E p \in d.reviews \cup {r} : SameReview(p, q) /\ q.modern = p.modern
    <2>1. CASE q \in d.reviews \/ q = r
      BY <2>1 DEF SameReview
    <2>2. CASE ~(q \in d.reviews \/ q = r)
      <3>1. PICK o \in old : q = Merged(o, r)
        BY <1>2, <1>4, <2>2
      <3>2. IsRow(o) /\ o.eligible \in BOOLEAN /\ SameReview(o, r)
        OBVIOUS
      <3>3. /\ IsRow(q) /\ SameReview(q, o)
            /\ q.modern = (IF r.modern = None THEN o.modern ELSE r.modern)
            /\ \E p \in {o, r} : q.verdict = p.verdict /\ q.scope = p.scope /\ q.eligible = p.eligible
        BY <3>1, <3>2, MergedIs
      <3>. QED
        BY <3>2, <3>3 DEF SameReview
    <2>. QED
      BY <2>1, <2>2
  <1>5. ASSUME NEW p \in d.reviews \cup {r} PROVE
          \E q \in n.reviews : SameReview(p, q) /\ (p.eligible => q.eligible)
                               /\ (q.modern = None => p.modern = None)
    <2>1. CASE p \in n.reviews
      BY <2>1 DEF SameReview
    <2>2. CASE p \notin n.reviews
      <3>1. old # {}
        BY <1>2, <2>2
      <3>2. PICK o \in old : p = o \/ p = r
        BY <1>2, <2>2, <3>1
      <3>3. IsRow(o) /\ o.eligible \in BOOLEAN /\ SameReview(o, r)
        OBVIOUS
      <3>4. /\ SameReview(Merged(o, r), o) /\ (Merged(o, r).eligible <=> o.eligible \/ r.eligible)
            /\ Merged(o, r).modern = (IF r.modern = None THEN o.modern ELSE r.modern)
        BY <3>3, MergedIs
      <3>5. Merged(o, r) \in n.reviews
        BY <1>2, <3>1
      <3>. QED
        BY <3>2, <3>3, <3>4, <3>5 DEF SameReview
    <2>. QED
      BY <2>1, <2>2
  <1>6. Upserted(d.reviews \cup {r}, n.reviews)
    BY <1>4, <1>5 DEF Upserted
  <1>7. ASSUME \A p, q \in d.reviews : SameReview(p, q) => p = q
        PROVE  \A p, q \in n.reviews : SameReview(p, q) => p = q
    <2>1. CASE old = {}
      BY <1>2, <1>7, <2>1 DEF SameReview
    <2>2. CASE old # {}
      <3>1. PICK o \in old : old = {o}
        BY <1>7, <2>2 DEF SameReview
      <3>2. n.reviews = (d.reviews \ {o}) \cup {Merged(o, r)}
        BY <1>2, <3>1
      <3>3. SameReview(Merged(o, r), o)
        BY <1>3
      <3>. QED
        BY <1>7, <3>1, <3>2, <3>3 DEF SameReview
    <2>. QED
      BY <2>1, <2>2
  <1>8. ASSUME NEW p \in d.reviews, Eligible(p)
        PROVE  \E q \in n.reviews :
                   /\ SameReview(q, p) /\ Eligible(q) /\ q.scope = p.scope
                   /\ \/ q.modern = p.modern
                      \/ SameReview(r, p) /\ r.modern # None /\ q.modern = r.modern
    <2>1. CASE p \notin old
      BY <1>2, <1>8, <2>1 DEF SameReview
    <2>2. CASE p \in old
      <3>1. IsRow(p) /\ p.eligible \in BOOLEAN /\ SameReview(p, r)
        BY <2>2
      <3>2. /\ SameReview(Merged(p, r), p) /\ (Merged(p, r).eligible <=> p.eligible \/ r.eligible)
            /\ Merged(p, r).modern = (IF r.modern = None THEN p.modern ELSE r.modern)
            /\ p.eligible => Merged(p, r).verdict = p.verdict /\ Merged(p, r).scope = p.scope
        BY <3>1, MergedIs
      <3>3. Merged(p, r) \in n.reviews
        BY <1>2, <2>2
      <3>4. Eligible(Merged(p, r)) /\ Merged(p, r).scope = p.scope
        BY <1>8, <3>2 DEF Eligible
      <3>. QED
        BY <3>1, <3>2, <3>3, <3>4 DEF SameReview
    <2>. QED
      BY <2>1, <2>2
  <1>. QED
    BY <1>2, <1>6, <1>7, <1>8 DEF n

(* An upsert of one more row on the upserts of others is an upsert of them *)
(* all.                                                                    *)
LEMMA UpsertedAgain ==
  ASSUME NEW U, NEW R, NEW x, NEW T, Upserted(U, R), Upserted(R \cup {x}, T)
  PROVE  Upserted(U \cup {x}, T)
  <1>. USE DEF SameReview
  <1>1. ASSUME NEW q \in T
        PROVE  /\ IsRow(q)
               /\ \E p \in U \cup {x} : SameReview(p, q) /\ q.modern = p.modern
               /\ \E p \in U \cup {x} : SameReview(p, q) /\ q.verdict = p.verdict /\ q.scope = p.scope
                                        /\ q.eligible = p.eligible
    <2>1. PICK p \in R \cup {x} : SameReview(p, q) /\ q.verdict = p.verdict /\ q.scope = p.scope
                                  /\ q.eligible = p.eligible
      BY DEF Upserted
    <2>2. PICK o \in R \cup {x} : SameReview(o, q) /\ q.modern = o.modern
      BY DEF Upserted
    <2>3. IsRow(q)
      BY DEF Upserted
    <2>4. p \in R => \E a \in U : SameReview(a, p) /\ p.verdict = a.verdict /\ p.scope = a.scope
                                  /\ p.eligible = a.eligible
      BY DEF Upserted
    <2>5. o \in R => \E a \in U : SameReview(a, o) /\ o.modern = a.modern
      BY DEF Upserted
    <2>6. \E a \in U \cup {x} : SameReview(a, q) /\ q.verdict = a.verdict /\ q.scope = a.scope
                                  /\ q.eligible = a.eligible
      BY <2>1, <2>4
    <2>7. \E a \in U \cup {x} : SameReview(a, q) /\ q.modern = a.modern
      BY <2>2, <2>5
    <2>. QED
      BY <2>3, <2>6, <2>7
  <1>2. ASSUME NEW p \in U \cup {x}
        PROVE  \E q \in T : SameReview(p, q) /\ (p.eligible => q.eligible)
                            /\ (q.modern = None => p.modern = None)
    <2>1. PICK o \in R \cup {x} : SameReview(p, o) /\ (p.eligible => o.eligible)
                            /\ (o.modern = None => p.modern = None)
      BY DEF Upserted
    <2>2. PICK q \in T : SameReview(o, q) /\ (o.eligible => q.eligible)
                            /\ (q.modern = None => o.modern = None)
      BY DEF Upserted
    <2>. QED
      BY <2>1, <2>2
  <1>. QED
    BY <1>1, <1>2 DEF Upserted

(* The rows that can be upserted, and all a set of upserts leaves of the   *)
(* database.                                                               *)
IsReview(r) == IsRow(r) /\ r.eligible \in BOOLEAN

SoundUpsert(d, U, n) ==
    /\ IsDb(n) /\ n.edges = d.edges /\ n.bindings = d.bindings /\ n.heads = d.heads
    /\ Upserted(U, n.reviews)
    /\ (\A p, q \in d.reviews : SameReview(p, q) => p = q) =>
          \A p, q \in n.reviews : SameReview(p, q) => p = q

(* A loop of record_review over a set of rows, in any order.               *)
LEMMA Upserts ==
  ASSUME NEW d, NEW S, IsFiniteSet(S), IsDb(d), \A r \in d.reviews \cup S : IsReview(r)
  PROVE  SoundUpsert(d, d.reviews \cup S, RecordReviews(d, S))
  <1>1. PICK it : /\ RecordReviews(d, S) = it[S] /\ it[{}] = d
                  /\ \A s \in SUBSET S : s # {} =>
                        \E x \in s : it[s] = Step("review", it[s \ {x}], x)
    <2>1. Folded("review", d, S, RecordReviews(d, S))
      BY ReviewsFolded
    <2>. QED
      BY <2>1 DEF Folded
  <1>. DEFINE good == {s \in SUBSET S : SoundUpsert(d, d.reviews \cup s, it[s])}
  <1>2. {} \in good
    <2>1. Upserted(d.reviews, d.reviews)
      BY DEF Upserted, IsReview, SameReview
    <2>2. d.reviews \cup {} = d.reviews
      OBVIOUS
    <2>. QED
      BY <1>1, <2>1, <2>2 DEF SoundUpsert
  <1>3. ASSUME NEW s \in SUBSET S, s # {}, \A x \in s : s \ {x} \in good PROVE s \in good
    <2>1. PICK x \in s : it[s] = Step("review", it[s \ {x}], x)
      BY <1>1, <1>3
    <2>. DEFINE b == it[s \ {x}]
                n == RecordReview(b, x)
    <2>2. it[s] = n
      BY <2>1 DEF Step
    <2>3. SoundUpsert(d, d.reviews \cup (s \ {x}), b)
      BY <1>3
    <2>. HIDE DEF b
    <2>4. IsReview(x)
      OBVIOUS
    <2>5. \A r \in b.reviews : IsReview(r)
      BY <2>3 DEF SoundUpsert, Upserted, IsReview
    <2>6. IsDb(b)
      BY <2>3 DEF SoundUpsert
    <2>7. /\ IsDb(n) /\ n.edges = b.edges /\ n.bindings = b.bindings /\ n.heads = b.heads
          /\ Upserted(b.reviews \cup {x}, n.reviews)
          /\ (\A p, q \in b.reviews : SameReview(p, q) => p = q) =>
                \A p, q \in n.reviews : SameReview(p, q) => p = q
      BY <2>4, <2>5, <2>6, OneUpsert DEF IsReview
    <2>. HIDE DEF n
    <2>8. Upserted(d.reviews \cup s, n.reviews)
      <3>1. Upserted((d.reviews \cup (s \ {x})) \cup {x}, n.reviews)
        BY <2>3, <2>7, UpsertedAgain DEF SoundUpsert
      <3>2. (d.reviews \cup (s \ {x})) \cup {x} = d.reviews \cup s
        OBVIOUS
      <3>. QED
        BY <3>1, <3>2
    <2>. QED
      BY <2>2, <2>3, <2>7, <2>8 DEF SoundUpsert
  <1>4. S \in good
    <2>. HIDE DEF good
    <2>1. \A s \in SUBSET S : (\A x \in s : s \ {x} \in good) => s \in good
      BY <1>2, <1>3
    <2>. QED
      BY <2>1, SubsetInduction
  <1>. QED
    BY <1>1, <1>4

-----------------------------------------------------------------------------
(* Transformations and bindings, one and many.                             *)

(* A binding says that two bundles whose bodies agree, with a body         *)
(* somebody vouched for, have the same authority.                          *)
BindingSound(b, F) ==
    b.source.content.body = b.target.content.body /\ b.target.content.body \in Vouched(F)

(* A row under each identity of an edge and of a binding.                  *)
Apart(d) ==
    /\ \A e, x \in d.edges : SameEdge(e, x) => e = x
    /\ \A b, x \in d.bindings :
          b.target = x.target /\ Capability[b.type] = Capability[x.type] => b = x

(* Nothing but edges and bindings was written.                             *)
SameReviews(d, n) == IsDb(n) /\ n.reviews = d.reviews /\ n.heads = d.heads

(* An edge whose bodies agree and, unless a bridge, that ends at the MAT.  *)
LandedEdge(e) == EdgeSound(e) /\ (e.kind # BridgeKind => e.target.content.layout = "mat")

(* What an import has of edges and bindings: every transformation ends at  *)
(* a bundle in the MAT layout.                                             *)
Landed(d, F) ==
    /\ IsFiniteSet(d.edges)
    /\ \A e \in d.edges : LandedEdge(e)
    /\ \A b \in d.bindings : BindingSound(b, F)
    /\ Apart(d)

(* record_transformation replaces the edge with the same identity.         *)
LEMMA OneEdge ==
  ASSUME NEW d, NEW e, IsDb(d)
  PROVE  LET n == RecordTransformation(d, e)
         IN  /\ SameReviews(d, n) /\ n.bindings = d.bindings
             /\ n.edges = {x \in d.edges : ~SameEdge(e, x)} \cup {e}
             /\ Apart(d) => Apart(n)
  <1>. DEFINE n == RecordTransformation(d, e)
  <1>1. /\ SameReviews(d, n) /\ n.bindings = d.bindings
        /\ n.edges = {x \in d.edges : ~SameEdge(e, x)} \cup {e}
    BY DEF RecordTransformation, IsDb, SameReviews
  <1>. HIDE DEF n
  <1>2. Apart(d) => Apart(n)
    BY <1>1 DEF Apart, SameEdge
  <1>. QED
    BY <1>1, <1>2 DEF n

(* record_evidence_bridge_binding writes a binding and the bridge edge it  *)
(* stands for.                                                             *)
LEMMA OneBinding ==
  ASSUME NEW d, NEW b, IsDb(d)
  PROVE  LET n == RecordBinding(d, b)
         IN  /\ SameReviews(d, n)
             /\ n.edges \subseteq d.edges \cup {BridgeEdge(b)} /\ n.bindings \subseteq d.bindings \cup {b}
             /\ Apart(d) => Apart(n)
  <1>. DEFINE n == RecordBinding(d, b)
              grown == [d EXCEPT !.edges = @ \cup {BridgeEdge(b)}, !.bindings = @ \cup {b}]
  <1>1. CASE Collides(d, b)
    <2>1. n = d
      BY <1>1 DEF RecordBinding
    <2>. QED
      BY <2>1 DEF SameReviews
  <1>2. CASE ~Collides(d, b)
    <2>1. n = grown
      BY <1>2 DEF RecordBinding
    <2>2. /\ IsDb(grown) /\ grown.reviews = d.reviews /\ grown.heads = d.heads
          /\ grown.edges = d.edges \cup {BridgeEdge(b)} /\ grown.bindings = d.bindings \cup {b}
      <3>. DEFINE edges == d.edges \cup {BridgeEdge(b)}
                  bindings == d.bindings \cup {b}
      <3>. HIDE DEF edges, bindings
      <3>1. grown = [d EXCEPT !.edges = edges, !.bindings = bindings]
        BY DEF edges, bindings
      <3>2. grown = [reviews |-> d.reviews, edges |-> edges, bindings |-> bindings, heads |-> d.heads]
        <4>. HIDE DEF grown
        <4>. QED
          BY <3>1 DEF IsDb
      <3>. HIDE DEF grown
      <3>3. IsDb(grown) /\ grown.reviews = d.reviews /\ grown.heads = d.heads
        BY <3>2 DEF IsDb
      <3>. QED
        BY <3>2, <3>3 DEF edges, bindings
    <2>. HIDE DEF n, grown
    <2>3. Apart(d) => Apart(n)
      <3>1. \A e \in d.edges : SameEdge(BridgeEdge(b), e) => e = BridgeEdge(b)
        BY <1>2 DEF Collides
      <3>2. \A e \in d.edges : SameEdge(e, BridgeEdge(b)) => e = BridgeEdge(b)
        BY <3>1 DEF SameEdge
      <3>3. \A x \in d.bindings : x.target = b.target /\ Capability[x.type] = Capability[b.type] => x = b
        BY <1>2 DEF Collides
      <3>. HIDE DEF BridgeEdge
      <3>. QED
        BY <2>1, <2>2, <3>1, <3>2, <3>3 DEF Apart
    <2>. QED
      BY <2>1, <2>2, <2>3 DEF SameReviews, n
  <1>. QED
    BY <1>1, <1>2 

(* Each of the three writers of an import keeps what an import has.        *)
LEMMA EdgeLands ==
  ASSUME NEW d, NEW e, NEW F, IsDb(d), Landed(d, F), LandedEdge(e)
  PROVE  LET n == RecordTransformation(d, e) IN SameReviews(d, n) /\ Landed(n, F)
  <1>. DEFINE n == RecordTransformation(d, e)
  <1>1. /\ SameReviews(d, n) /\ n.bindings = d.bindings /\ (Apart(d) => Apart(n))
        /\ n.edges \subseteq d.edges \cup {e}
    BY OneEdge
  <1>. HIDE DEF n
  <1>2. IsFiniteSet(n.edges)
    BY <1>1, FS_AddElement, FS_Subset DEF Landed
  <1>. QED
    BY <1>1, <1>2 DEF Landed, n

(* A sound binding and its bridge edge land.                               *)
LEMMA BindingLands ==
  ASSUME NEW d, NEW b, NEW F, IsDb(d), Landed(d, F), BindingSound(b, F)
  PROVE  LET n == RecordBinding(d, b) IN SameReviews(d, n) /\ Landed(n, F)
  <1>. DEFINE n == RecordBinding(d, b)
  <1>1. /\ SameReviews(d, n) /\ (Apart(d) => Apart(n))
        /\ n.edges \subseteq d.edges \cup {BridgeEdge(b)} /\ n.bindings \subseteq d.bindings \cup {b}
    BY OneBinding
  <1>. HIDE DEF n
  <1>2. IsFiniteSet(n.edges)
    BY <1>1, FS_AddElement, FS_Subset DEF Landed
  <1>3. LandedEdge(BridgeEdge(b))
    BY DEF LandedEdge, EdgeSound, BridgeEdge, Edge, BindingSound
  <1>4. \A e \in n.edges : LandedEdge(e)
    BY <1>1, <1>3 DEF Landed
  <1>. QED
    BY <1>1, <1>2, <1>4 DEF Landed, n

(* So does the replay of a relocated batch, whatever of it applies.        *)
LEMMA BatchLands ==
  ASSUME NEW d, NEW g, NEW F, IsDb(d), Landed(d, F), BatchSound(g, F)
  PROVE  LET n == ReplayBatch(d, g) IN SameReviews(d, n) /\ Landed(n, F)
  <1>. DEFINE n == ReplayBatch(d, g)
              moved == Edge(g.source, g.new, "repository_relocation", g.id)
              bound == Binding(g.source, g.new, g.record.type, g.id)
              edge == g.record.edge
              once == RecordTransformation(d, edge)
  <1>1. SameReviews(d, d)
    BY DEF SameReviews
  <1>2. CASE n = d
    BY <1>1, <1>2
  <1>3. CASE g.route = "direct_review" /\ n = RecordTransformation(d, moved)
    <2>1. LandedEdge(moved)
      BY <1>3 DEF BatchSound, LandedEdge, EdgeSound, Edge
    <2>. HIDE DEF moved
    <2>. QED
      BY <1>3, <2>1, EdgeLands
  <1>4. CASE g.route = "validated_transformation" /\ n = RecordTransformation(once, moved)
    <2>1. LandedEdge(moved) /\ LandedEdge(edge)
      BY <1>4 DEF BatchSound, LandedEdge, EdgeSound, Edge
    <2>. HIDE DEF moved, edge
    <2>2. SameReviews(d, once) /\ Landed(once, F)
      BY <2>1, EdgeLands
    <2>. HIDE DEF once
    <2>3. SameReviews(once, n) /\ Landed(n, F)
      BY <1>4, <2>1, <2>2, EdgeLands DEF SameReviews
    <2>. QED
      BY <2>2, <2>3 DEF SameReviews
  <1>5. CASE g.route \notin {"direct_review", "validated_transformation"} /\ n = RecordBinding(d, bound)
    <2>1. BindingSound(bound, F)
      BY <1>5 DEF BatchSound, BindingSound, Binding
    <2>. HIDE DEF bound
    <2>. QED
      BY <1>5, <2>1, BindingLands
  <1>. QED
    BY <1>2, <1>3, <1>4, <1>5 DEF ReplayBatch

(* What each step of a fold keeps, the fold keeps: for the edges, the      *)
(* bindings and the batches.                                               *)
LEMMA Lands ==
  ASSUME NEW op, NEW d, NEW S, NEW F, NEW n, IsFiniteSet(S), IsDb(d), Landed(d, F), Folded(op, d, S, n),
         \/ op = "edge" /\ \A e \in S : LandedEdge(e)
         \/ op = "binding" /\ \A b \in S : BindingSound(b, F)
         \/ op = "batch" /\ \A g \in S : BatchSound(g, F)
  PROVE  SameReviews(d, n) /\ Landed(n, F)
  <1>1. PICK it : /\ n = it[S] /\ it[{}] = d
                  /\ \A s \in SUBSET S : s # {} => \E x \in s : it[s] = Step(op, it[s \ {x}], x)
    BY DEF Folded
  <1>. DEFINE good == {s \in SUBSET S : SameReviews(d, it[s]) /\ Landed(it[s], F)}
  <1>2. {} \in good
    BY <1>1 DEF SameReviews
  <1>3. ASSUME NEW s \in SUBSET S, s # {}, \A x \in s : s \ {x} \in good PROVE s \in good
    <2>1. PICK x \in s : it[s] = Step(op, it[s \ {x}], x)
      BY <1>1, <1>3
    <2>. DEFINE b == it[s \ {x}]
    <2>2. SameReviews(d, b) /\ Landed(b, F) /\ it[s] = Step(op, b, x)
      BY <1>3, <2>1
    <2>. HIDE DEF b
    <2>3. IsDb(b)
      BY <2>2 DEF SameReviews
    <2>4. SameReviews(b, it[s]) /\ Landed(it[s], F)
      <3>1. CASE op = "edge" /\ LandedEdge(x)
        <4>1. it[s] = RecordTransformation(b, x)
          BY <2>2, <3>1 DEF Step
        <4>. QED
          BY <2>2, <2>3, <3>1, <4>1, EdgeLands
      <3>2. CASE op = "binding" /\ BindingSound(x, F)
        <4>1. it[s] = RecordBinding(b, x)
          BY <2>2, <3>2 DEF Step
        <4>. QED
          BY <2>2, <2>3, <3>2, <4>1, BindingLands
      <3>3. CASE op = "batch" /\ BatchSound(x, F)
        <4>1. it[s] = ReplayBatch(b, x)
          BY <2>2, <3>3 DEF Step
        <4>. QED
          BY <2>2, <2>3, <3>3, <4>1, BatchLands
      <3>. QED
        BY <3>1, <3>2, <3>3
    <2>. QED
      BY <2>2, <2>4 DEF SameReviews
  <1>4. S \in good
    <2>. HIDE DEF good
    <2>1. \A s \in SUBSET S : (\A x \in s : s \ {x} \in good) => s \in good
      BY <1>2, <1>3
    <2>. QED
      BY <2>1, SubsetInduction
  <1>. QED
    BY <1>1, <1>4

-----------------------------------------------------------------------------
(* Rows that agree with the evidence on disk.                              *)

Ids(F) == {f.id : f \in F}

(* A row is of evidence on disk; one that is eligible is a pass of         *)
(* declarations that somebody vouched for, and says of the prompt what its *)
(* result file says; under a pull-request receipt there is its row only.   *)
RowSound(r, F) ==
    /\ IsReview(r)
    /\ r.eligible => r.verdict = "pass" /\ r.subject.content.body \in Vouched(F)
    /\ r.subject.content \in Contents
    /\ r.ev \in Ids(F)
    /\ \A f \in Of("result", F) : r.ev = f.id /\ r.subject = f.subject => r.modern \in {None, f.modern}
    /\ \A g \in Of("pr", F) : r.ev = g.id =>
          r.subject = g.subject /\ r.scope = PrScope /\ r.eligible

(* Every row agrees with the files F, and an identity has one row.         *)
RowsSound(d, F) ==
    /\ IsDb(d)
    /\ \A r \in d.reviews : RowSound(r, F)
    /\ \A r, q \in d.reviews : SameReview(r, q) => r = q

(* Sound rows upserted into sound rows leave sound rows.                    *)
LEMMA UpsertSound ==
  ASSUME NEW d, NEW F, NEW U, NEW n, RowsSound(d, F), \A r \in U : RowSound(r, F),
         SoundUpsert(d, U, n)
  PROVE  RowsSound(n, F)
  <1>1. ASSUME NEW q \in n.reviews PROVE RowSound(q, F)
    <2>1. PICK p \in U : SameReview(p, q) /\ q.verdict = p.verdict /\ q.scope = p.scope /\ q.eligible = p.eligible
      BY DEF SoundUpsert, Upserted
    <2>2. PICK o \in U : SameReview(o, q) /\ q.modern = o.modern
      BY DEF SoundUpsert, Upserted
    <2>3. IsReview(q)
      BY <2>1 DEF SoundUpsert, Upserted, IsReview, RowSound
    <2>4. RowSound(p, F) /\ RowSound(o, F)
      OBVIOUS
    <2>5. /\ q.eligible => q.verdict = "pass" /\ q.subject.content.body \in Vouched(F)
          /\ q.subject.content \in Contents /\ q.ev \in Ids(F)
      BY <2>1, <2>4 DEF RowSound, SameReview
    <2>6. \A f \in Of("result", F) : q.ev = f.id /\ q.subject = f.subject => q.modern \in {None, f.modern}
      BY <2>2, <2>4 DEF RowSound, SameReview
    <2>7. \A g \in Of("pr", F) : q.ev = g.id => q.subject = g.subject /\ q.scope = PrScope /\ q.eligible
      BY <2>1, <2>4 DEF RowSound, SameReview
    <2>. QED
      BY <2>3, <2>5, <2>6, <2>7 DEF RowSound
  <1>. QED
    BY <1>1 DEF RowsSound, SoundUpsert

(* A loop of record_review over rows that agree with the files leaves rows *)
(* that agree with them.                                                   *)
LEMMA ReviewStage ==
  ASSUME NEW d, NEW F, NEW S, IsFiniteSet(S), RowsSound(d, F), \A r \in S : RowSound(r, F)
  PROVE  LET n == RecordReviews(d, S)
         IN  /\ RowsSound(n, F) /\ Upserted(d.reviews \cup S, n.reviews)
             /\ n.edges = d.edges /\ n.bindings = d.bindings /\ n.heads = d.heads
  <1>. DEFINE n == RecordReviews(d, S)
              U == d.reviews \cup S
  <1>1. \A r \in U : RowSound(r, F)
    BY DEF RowsSound
  <1>2. SoundUpsert(d, U, n)
    BY <1>1, Upserts DEF RowsSound, RowSound
  <1>. HIDE DEF n, U
  <1>3. RowsSound(n, F)
    BY <1>1, <1>2, UpsertSound
  <1>. QED
    BY <1>2, <1>3 DEF SoundUpsert, n, U

(* A file is found under its identity.                                     *)
LEMMA FilesUnique ==
  ASSUME NEW F, Evidence(F), NEW f \in F, NEW g \in F, f.id = g.id
  PROVE  f = g
  BY DEF Evidence

(* What is known of a result file on disk.                                 *)
LEMMA ResultFile ==
  ASSUME NEW F, Evidence(F), NEW f \in Of("result", F)
  PROVE  /\ f \in F /\ f \in Results /\ f.modern \in BOOLEAN
         /\ f.subject.content \in Contents
         /\ IsPass(f) => f.subject.content.body \in Vouched(F)
  BY DEF Evidence, FileSound, Of, Results, ReviewSubjects, Layout, Vouched

(* A passing result under an identity is the result file of that identity. *)
LEMMA PassFile ==
  ASSUME NEW F, Evidence(F), NEW ev, NEW f \in Passes(ev, F)
  PROVE  f \in Of("result", F) /\ f.id = ev /\ IsPass(f)
  BY DEF Passes, IsPass, Of

(* The row an import writes for a result agrees with the files.            *)
LEMMA RowOfResult ==
  ASSUME NEW F, Evidence(F), NEW f \in Of("result", F), NEW s, NEW scope, NEW verdict,
         NEW eligible \in BOOLEAN, NEW modern, s.content \in Contents,
         eligible => verdict = "pass" /\ s.content.body \in Vouched(F),
         s = f.subject => modern \in {None, f.modern}
  PROVE  RowSound(Review(f.id, s, verdict, scope, eligible, modern), F)
  <1>. DEFINE r == Review(f.id, s, verdict, scope, eligible, modern)
  <1>1. /\ IsReview(r) /\ r.ev = f.id /\ r.subject = s /\ r.verdict = verdict /\ r.eligible = eligible
        /\ r.modern = modern
    BY DEF Review, IsReview, IsRow
  <1>2. f \in F /\ f.kind = "result"
    BY DEF Of
  <1>3. \A g \in Of("result", F) : g.id = f.id => g = f
    BY <1>2, FilesUnique DEF Of
  <1>4. \A g \in Of("pr", F) : g.id # f.id
    BY <1>2, FilesUnique DEF Of
  <1>. HIDE DEF r
  <1>5. r.ev \in Ids(F)
    BY <1>1, <1>2 DEF Ids
  <1>6. \A g \in Of("result", F) : r.ev = g.id /\ r.subject = g.subject => r.modern \in {None, g.modern}
    BY <1>1, <1>3
  <1>. QED
    BY <1>1, <1>4, <1>5, <1>6 DEF RowSound, r

(* So does the row for a pull-request receipt,                             *)
LEMMA RowOfPr ==
  ASSUME NEW F, Evidence(F), NEW g \in Of("pr", F)
  PROVE  RowSound(Review(g.id, g.subject, "pass", PrScope, TRUE, None), F)
  <1>. DEFINE r == Review(g.id, g.subject, "pass", PrScope, TRUE, None)
  <1>1. /\ IsReview(r) /\ r.ev = g.id /\ r.subject = g.subject /\ r.verdict = "pass" /\ r.eligible
        /\ r.modern = None /\ r.scope = PrScope
    BY DEF Review, IsReview, IsRow
  <1>2. g \in F /\ g.kind = "pr"
    BY DEF Of
  <1>3. PICK f \in Passes(g.ev, F) : f.subject = g.subject
    BY <1>2 DEF Evidence, FileSound
  <1>4. g.subject.content \in Contents /\ g.subject.content.body \in Vouched(F)
    BY <1>3, PassFile, ResultFile
  <1>5. \A x \in Of("pr", F) : x.id = g.id => x = g
    BY <1>2, FilesUnique DEF Of
  <1>. HIDE DEF r
  <1>6. r.ev \in Ids(F)
    BY <1>1, <1>2 DEF Ids
  <1>. QED
    BY <1>1, <1>4, <1>5, <1>6 DEF RowSound, r

(* and the row for a scope binding.                                        *)
LEMMA RowOfScope ==
  ASSUME NEW F, Evidence(F), NEW g \in Of("scope", F)
  PROVE  RowSound(Review(g.id, g.subject, "pass", "workspace_bundle_rebind", TRUE, TRUE), F)
  <1>. DEFINE r == Review(g.id, g.subject, "pass", "workspace_bundle_rebind", TRUE, TRUE)
  <1>1. /\ IsReview(r) /\ r.ev = g.id /\ r.subject = g.subject /\ r.verdict = "pass" /\ r.eligible
    BY DEF Review, IsReview, IsRow
  <1>2. g \in F /\ g.kind = "scope"
    BY DEF Of
  <1>3. g.subject.content \in Contents /\ g.subject.content.body \in Vouched(F)
    BY <1>2 DEF Evidence, FileSound, Layout
  <1>4. \A x \in Of("pr", F) \cup Of("result", F) : x.id # g.id
    BY <1>2, FilesUnique DEF Of
  <1>. HIDE DEF r
  <1>5. r.ev \in Ids(F)
    BY <1>1, <1>2 DEF Ids
  <1>. QED
    BY <1>1, <1>3, <1>4, <1>5 DEF RowSound, r

(* The rows of finitely many files are finitely many.                      *)
LEMMA ImageFinite ==
  ASSUME NEW S, IsFiniteSet(S), NEW row
  PROVE  IsFiniteSet({row[g] : g \in S})
  <1>. DEFINE T == {row[g] : g \in S}
              h == [g \in S |-> row[g]]
  <1>1. h \in Surjection(S, T)
    BY DEF Surjection
  <1>. QED
    BY <1>1, FS_Surjection

(* What an import's upserts have kept of the rows U.                       *)
Kept(U, n) ==
    \A p \in U : \E q \in n.reviews :
        /\ SameReview(p, q)
        /\ p.eligible => q.eligible
        /\ q.modern = None => p.modern = None

(* Nothing but reviews was written.                                        *)
Rest(d, n) == n.edges = d.edges /\ n.bindings = d.bindings /\ n.heads = d.heads

(* A stage of an import that writes a row for each file of a set.          *)
LEMMA StageOf ==
  ASSUME NEW d, NEW F, Evidence(F), RowsSound(d, F), NEW G \in SUBSET F, NEW row,
         \A g \in G : RowSound(row[g], F)
  PROVE  LET n == RecordReviews(d, {row[g] : g \in G})
         IN  /\ RowsSound(n, F) /\ Rest(d, n) /\ Kept(d.reviews, n)
             /\ Kept({row[g] : g \in G}, n)
  <1>. DEFINE S == {row[g] : g \in G}
  <1>1. IsFiniteSet(G)
    BY FS_Subset DEF Evidence
  <1>2. IsFiniteSet(S)
    BY <1>1, ImageFinite
  <1>3. \A r \in S : RowSound(r, F)
    OBVIOUS
  <1>. HIDE DEF S
  <1>4. /\ RowsSound(RecordReviews(d, S), F) /\ Rest(d, RecordReviews(d, S))
        /\ Upserted(d.reviews \cup S, RecordReviews(d, S).reviews)
    BY <1>2, <1>3, ReviewStage DEF Rest
  <1>. QED
    BY <1>4 DEF Upserted, Kept, S

(* An authority row under the prompts of today for each of these receipts. *)
Shown(d, G) ==
    \A g \in G : \E q \in d.reviews :
        q.ev = g.ev /\ q.subject = g.subject /\ q.eligible /\ q.modern = TRUE

(* A row for each of these pull-request receipts; the receipts that a      *)
(* rebuild owes a row.                                                     *)
Adopted(d, G) == \A g \in G : \E q \in d.reviews : q.ev = g.id /\ q.subject = g.subject

Receipts(F) == Of("phase2", F) \cup {x \in Of("mat", F) : ~x.invalidated}

(* The result a receipt names passed, under the prompts of today.          *)
LEMMA ReceiptFile ==
  ASSUME NEW F, Evidence(F), NEW g \in Of("phase2", F) \cup Of("mat", F)
  PROVE  \E f \in Of("result", F) :
            f.id = g.ev /\ f.subject = g.subject /\ IsPass(f) /\ f.modern = TRUE
  <1>1. g \in F /\ g.kind \in {"phase2", "mat"} /\ FileSound(g, F)
    BY DEF Of, Evidence
  <1>2. PICK f \in Passes(g.ev, F) : f.subject = g.subject
    BY <1>1 DEF FileSound
  <1>3. PICK h \in Passes(g.ev, F) : h.modern
    BY <1>1 DEF FileSound
  <1>4. f = h
    BY FilesUnique DEF Passes
  <1>5. f \in Of("result", F) /\ f.id = g.ev /\ IsPass(f)
    BY PassFile
  <1>6. f.modern = TRUE
    BY <1>3, <1>4, <1>5, ResultFile
  <1>. QED
    BY <1>2, <1>5, <1>6

(* So a row for that result with metadata has the metadata of the prompts  *)
(* of today.                                                               *)
LEMMA ReceiptRow ==
  ASSUME NEW F, Evidence(F), NEW g \in Of("phase2", F) \cup Of("mat", F),
         NEW q, RowSound(q, F), q.ev = g.ev, q.subject = g.subject, q.modern # None
  PROVE  q.modern = TRUE
  <1>1. PICK f \in Of("result", F) : f.id = g.ev /\ f.subject = g.subject /\ f.modern = TRUE
    BY ReceiptFile
  <1>. QED
    BY <1>1 DEF RowSound

(* Later upserts take no authority from the row of a receipt,              *)
LEMMA StillShown ==
  ASSUME NEW d, NEW n, NEW F, Evidence(F), RowsSound(n, F), Kept(d.reviews, n),
         NEW G \in SUBSET (Of("phase2", F) \cup Of("mat", F)), Shown(d, G)
  PROVE  Shown(n, G)
  <1>. SUFFICES ASSUME NEW g \in G
                PROVE  \E q \in n.reviews : q.ev = g.ev /\ q.subject = g.subject /\ q.eligible
                                            /\ q.modern = TRUE
    BY DEF Shown
  <1>1. PICK p \in d.reviews : p.ev = g.ev /\ p.subject = g.subject /\ p.eligible /\ p.modern = TRUE
    BY DEF Shown
  <1>2. PICK q \in n.reviews : SameReview(p, q) /\ q.eligible /\ (q.modern = None => p.modern = None)
    BY <1>1 DEF Kept
  <1>3. q.ev = g.ev /\ q.subject = g.subject /\ q.modern # None /\ RowSound(q, F)
    BY <1>1, <1>2, ContentsAssumption DEF RowsSound, SameReview
  <1>4. q.modern = TRUE
    BY <1>3, ReceiptRow
  <1>. QED
    BY <1>2, <1>3, <1>4

(* nor the row from a pull-request receipt.                                *)
LEMMA StillAdopted ==
  ASSUME NEW d, NEW n, Kept(d.reviews, n), NEW G, Adopted(d, G)
  PROVE  Adopted(n, G)
  <1>. SUFFICES ASSUME NEW g \in G
                PROVE  \E q \in n.reviews : q.ev = g.id /\ q.subject = g.subject
    BY DEF Adopted
  <1>1. PICK p \in d.reviews : p.ev = g.id /\ p.subject = g.subject
    BY DEF Adopted
  <1>2. PICK q \in n.reviews : SameReview(p, q)
    BY <1>1 DEF Kept
  <1>. QED
    BY <1>1, <1>2 DEF SameReview

(* The imports of reviews, one by one.                                     *)
LEMMA PrStage ==
  ASSUME NEW d, NEW F, Evidence(F), RowsSound(d, F)
  PROVE  LET n == ImportPr(d, F)
         IN  RowsSound(n, F) /\ Rest(d, n) /\ Kept(d.reviews, n) /\ Adopted(n, Of("pr", F))
  <1>. DEFINE G == Of("pr", F)
              row == [g \in G |-> Review(g.id, g.subject, "pass", PrScope, TRUE, None)]
              n == RecordReviews(d, {row[g] : g \in G})
  <1>1. {row[g] : g \in G} = {Review(g.id, g.subject, "pass", PrScope, TRUE, None) : g \in G}
    OBVIOUS
  <1>2. ImportPr(d, F) = n
    BY <1>1 DEF ImportPr
  <1>3. \A g \in G : RowSound(row[g], F)
    BY RowOfPr
  <1>4. G \in SUBSET F
    BY DEF Of
  <1>5. \A g \in G : row[g].ev = g.id /\ row[g].subject = g.subject
    BY DEF Review
  <1>. HIDE DEF row, G
  <1>6. RowsSound(n, F) /\ Rest(d, n) /\ Kept(d.reviews, n) /\ Kept({row[g] : g \in G}, n)
    BY <1>3, <1>4, StageOf
  <1>. HIDE DEF n
  <1>7. Adopted(n, G)
    BY <1>5, <1>6 DEF Adopted, Kept, SameReview
  <1>. QED
    BY <1>2, <1>6, <1>7 DEF G

(* import_mat_review_apply_receipt and import_phase2_review_apply_receipt: *)
(* the rows of the receipts have authority once they are written.          *)
LEMMA ReceiptStage ==
  ASSUME NEW d, NEW F, Evidence(F), RowsSound(d, F), NEW scope,
         NEW G \in SUBSET (Of("phase2", F) \cup Of("mat", F))
  PROVE  LET n == RecordReviews(d, {Review(g.ev, g.subject, "pass", scope, TRUE, TRUE) : g \in G})
         IN  RowsSound(n, F) /\ Rest(d, n) /\ Kept(d.reviews, n) /\ Shown(n, G)
  <1>. DEFINE row == [g \in G |-> Review(g.ev, g.subject, "pass", scope, TRUE, TRUE)]
              n == RecordReviews(d, {row[g] : g \in G})
  <1>1. {row[g] : g \in G} = {Review(g.ev, g.subject, "pass", scope, TRUE, TRUE) : g \in G}
    OBVIOUS
  <1>2. G \in SUBSET F
    BY DEF Of
  <1>3. ASSUME NEW g \in G PROVE RowSound(row[g], F)
    <2>1. PICK f \in Of("result", F) :
             f.id = g.ev /\ f.subject = g.subject /\ IsPass(f) /\ f.modern = TRUE
      BY ReceiptFile
    <2>2. RowSound(Review(f.id, f.subject, "pass", scope, TRUE, TRUE), F)
      BY <2>1, ResultFile, RowOfResult
    <2>. QED
      BY <2>1, <2>2
  <1>4. \A g \in G : /\ row[g].ev = g.ev /\ row[g].subject = g.subject /\ row[g].eligible
                     /\ row[g].modern = TRUE
    BY DEF Review
  <1>. HIDE DEF row
  <1>5. RowsSound(n, F) /\ Rest(d, n) /\ Kept(d.reviews, n) /\ Kept({row[g] : g \in G}, n)
    BY <1>2, <1>3, StageOf
  <1>. HIDE DEF n
  <1>6. Shown(n, G)
    <2>. SUFFICES ASSUME NEW g \in G
                  PROVE  \E q \in n.reviews : q.ev = g.ev /\ q.subject = g.subject /\ q.eligible
                                              /\ q.modern = TRUE
      BY DEF Shown
    <2>1. PICK q \in n.reviews : SameReview(row[g], q) /\ q.eligible /\ (q.modern = None => row[g].modern = None)
      BY <1>4, <1>5 DEF Kept
    <2>2. q.ev = g.ev /\ q.subject = g.subject /\ q.modern # None
      BY <1>4, <2>1, ContentsAssumption DEF SameReview
    <2>3. RowSound(q, F)
      BY <1>5 DEF RowsSound
    <2>4. q.modern = TRUE
      BY <2>2, <2>3, ReceiptRow
    <2>. QED
      BY <2>1, <2>2, <2>4
  <1>. QED
    BY <1>1, <1>5, <1>6 DEF n

(* The recoveries, the results and the scope bindings keep what is there.  *)
LEMMA RecoveryStage ==
  ASSUME NEW d, NEW F, Evidence(F), RowsSound(d, F)
  PROVE  LET n == ImportRecoveries(d, F) IN RowsSound(n, F) /\ Rest(d, n) /\ Kept(d.reviews, n)
  <1>. DEFINE G == {x \in Of("recovery", F) : ValidRecovery(x, F)}
              row == [g \in G |-> Review(g.ev, g.subject, "pass", RecoveryScope, TRUE, TRUE)]
  <1>1. {row[g] : g \in G} = {Review(g.ev, g.subject, "pass", RecoveryScope, TRUE, TRUE) : g \in G}
    OBVIOUS
  <1>2. G \in SUBSET F
    BY DEF Of
  <1>3. ASSUME NEW g \in G PROVE RowSound(row[g], F)
    <2>1. PICK f \in F : InPack(f) /\ IsPass(f) /\ g = Recovery(g.id, f, F)
      BY DEF ValidRecovery
    <2>2. f \in Of("result", F) /\ f.subject.repo = "formalization_engine"
      BY <2>1 DEF InPack, Of
    <2>3. g.ev = f.id /\ g.subject = FromInput(f.subject.content)
      BY <2>1 DEF Recovery
    <2>4. g.subject.content = f.subject.content /\ g.subject.repo = "input"
      BY <2>3 DEF FromInput, Subject
    <2>5. g.subject # f.subject
      BY <2>2, <2>4
    <2>6. f.subject.content \in Contents /\ f.subject.content.body \in Vouched(F)
      BY <2>1, <2>2, ResultFile
    <2>7. RowSound(Review(f.id, g.subject, "pass", RecoveryScope, TRUE, TRUE), F)
      BY <2>2, <2>4, <2>5, <2>6, RowOfResult
    <2>. QED
      BY <2>3, <2>7
  <1>4. ImportRecoveries(d, F) = RecordReviews(d, {row[g] : g \in G})
    BY <1>1 DEF ImportRecoveries
  <1>. HIDE DEF row, G
  <1>. QED
    BY <1>2, <1>3, <1>4, StageOf

(* An eligible row of a legacy result is of a passing one.                 *)
LEMMA ResultStage ==
  ASSUME NEW d, NEW F, Evidence(F), RowsSound(d, F)
  PROVE  LET n == ImportResults(d, F) IN RowsSound(n, F) /\ Rest(d, n) /\ Kept(d.reviews, n)
  <1>. DEFINE G == Of("result", F)
              subject(f) == IF InPack(f) THEN FromInput(f.subject.content) ELSE f.subject
              row == [f \in G |-> Review(f.id, subject(f), f.verdict, "semantic_review",
                                         f.legacy /\ IsPass(f), f.modern)]
  <1>1. {row[f] : f \in G} = {Review(f.id, subject(f), f.verdict, "semantic_review",
                                     f.legacy /\ IsPass(f), f.modern) : f \in G}
    OBVIOUS
  <1>2. G \in SUBSET F
    BY DEF Of
  <1>3. ASSUME NEW f \in G PROVE RowSound(row[f], F)
    <2>1. subject(f).content = f.subject.content
      BY DEF FromInput, Subject
    <2>2. f.subject.content \in Contents /\ (IsPass(f) => f.subject.content.body \in Vouched(F))
      BY ResultFile
    <2>3. IsPass(f) => f.verdict = "pass"
      BY DEF IsPass
    <2>. HIDE DEF subject
    <2>4. RowSound(Review(f.id, subject(f), f.verdict, "semantic_review", f.legacy /\ IsPass(f), f.modern), F)
      BY <2>1, <2>2, <2>3, RowOfResult
    <2>. QED
      BY <2>4
  <1>4. ImportResults(d, F) = RecordReviews(d, {row[f] : f \in G})
    BY <1>1 DEF ImportResults
  <1>. HIDE DEF row, G
  <1>. QED
    BY <1>2, <1>3, <1>4, StageOf

(* A scope binding writes its row only where a basis row is there.         *)
LEMMA ScopeStage ==
  ASSUME NEW d, NEW F, Evidence(F), RowsSound(d, F)
  PROVE  LET n == ImportScopes(d, F) IN RowsSound(n, F) /\ Rest(d, n) /\ Kept(d.reviews, n)
  <1>. DEFINE G == {x \in Of("scope", F) : EligibleBasis(d, x.ev, x.primary) # {}}
              row == [g \in G |-> Review(g.id, g.subject, "pass", "workspace_bundle_rebind", TRUE, TRUE)]
  <1>1. {row[g] : g \in G} =
            {Review(g.id, g.subject, "pass", "workspace_bundle_rebind", TRUE, TRUE) : g \in G}
    OBVIOUS
  <1>2. G \in SUBSET F
    BY DEF Of
  <1>3. \A g \in G : RowSound(row[g], F)
    BY RowOfScope
  <1>4. ImportScopes(d, F) = RecordReviews(d, {row[g] : g \in G})
    BY <1>1 DEF ImportScopes
  <1>. HIDE DEF row, G
  <1>. QED
    BY <1>2, <1>3, <1>4, StageOf

(* The types of the history, the pin and the unified working copy.         *)
WellTyped == mat \in Repositories /\ pin \in 1..Len(mat) /\ unified \in BOOLEAN

(* The pinned bundle is one of the history's, in the MAT layout.           *)
LEMMA PinnedBundle ==
  ASSUME WellTyped
  PROVE  /\ mat[pin].content \in Contents /\ mat[pin].content.layout = "mat"
         /\ MatSubject(pin).content = mat[pin].content /\ UnifiedSubject.content = mat[pin].content
  <1>1. mat[pin] \in [content : Layout("mat"), dep : {0, 1}]
    <2>. DEFINE C == [content : Layout("mat"), dep : {0, 1}]
    <2>1. mat \in Seq(C) /\ pin \in 1..Len(mat)
      BY DEF WellTyped, Repositories
    <2>. HIDE DEF C
    <2>2. mat[pin] \in C
      BY <2>1
    <2>. QED
      BY <2>2 DEF C
  <1>. QED
    BY <1>1 DEF Layout, MatSubject, UnifiedSubject, Subject

(* A resolved conflict writes its row at the pinned bundle.                *)
LEMMA ResolvedStage ==
  ASSUME NEW d, NEW F, Evidence(F), RowsSound(d, F), WellTyped
  PROVE  LET n == ImportResolved(d, F) IN RowsSound(n, F) /\ Rest(d, n) /\ Kept(d.reviews, n)
  <1>. DEFINE G == {x \in Of("resolved", F) : Forwards(x.target) /\ ConsumersCurrent(x, F)}
              row == [g \in G |-> Review(g.ev, MatSubject(pin), "pass", ResolvedScope, TRUE, TRUE)]
  <1>1. {row[g] : g \in G} = {Review(g.ev, MatSubject(pin), "pass", ResolvedScope, TRUE, TRUE) : g \in G}
    OBVIOUS
  <1>2. G \in SUBSET F
    BY DEF Of
  <1>3. ASSUME NEW g \in G PROVE RowSound(row[g], F)
    <2>1. g \in F /\ g.kind = "resolved" /\ Forwards(g.target) /\ FileSound(g, F)
      BY DEF Of, Evidence
    <2>2. PICK f \in Passes(g.ev, F) : f.modern
      BY <2>1 DEF FileSound
    <2>3. f \in Of("result", F) /\ f.id = g.ev /\ f.modern = TRUE
      BY <2>2, PassFile, ResultFile
    <2>4. mat[pin].content.body \in Vouched(F)
      BY <2>1 DEF FileSound, Forwards
    <2>5. RowSound(Review(f.id, MatSubject(pin), "pass", ResolvedScope, TRUE, TRUE), F)
      BY <2>3, <2>4, PinnedBundle, RowOfResult
    <2>. QED
      BY <2>3, <2>5
  <1>4. ImportResolved(d, F) = RecordReviews(d, {row[g] : g \in G})
    BY <1>1 DEF ImportResolved
  <1>. HIDE DEF row, G
  <1>. QED
    BY <1>2, <1>3, <1>4, StageOf

(* The two stages that owe the receipts of today a row.                    *)
LEMMA MatStage ==
  ASSUME NEW d, NEW F, Evidence(F), RowsSound(d, F)
  PROVE  LET n == ImportMat(d, F)
         IN  RowsSound(n, F) /\ Rest(d, n) /\ Kept(d.reviews, n) /\ Shown(n, {x \in Of("mat", F) : ~x.invalidated})
  BY ReceiptStage DEF ImportMat

(* The same of the phase-2 receipts.                                       *)
LEMMA Phase2Stage ==
  ASSUME NEW d, NEW F, Evidence(F), RowsSound(d, F)
  PROVE  LET n == ImportPhase2(d, F)
         IN  RowsSound(n, F) /\ Rest(d, n) /\ Kept(d.reviews, n) /\ Shown(n, Of("phase2", F))
  BY ReceiptStage DEF ImportPhase2

(* The imports of edges and bindings.                                      *)
LEMMA PathsLand ==
  ASSUME NEW d, NEW F, Evidence(F), WellTyped, IsDb(d), Landed(d, F)
  PROVE  LET n == ImportPaths(d, F) IN SameReviews(d, n) /\ Landed(n, F)
  <1>. DEFINE G == {x \in Of("path", F) :
                      /\ Stands(d, x.ev, x.source, x.review) /\ Forwards(x.target)
                      /\ Compare(x.source.content, x.target.content) = "path_only_relocation"}
              row == [g \in G |-> Edge(g.source, MatSubject(pin), "path_relocation", g.id)]
              S == {row[g] : g \in G}
  <1>1. S = {Edge(g.source, MatSubject(pin), "path_relocation", g.id) : g \in G}
    OBVIOUS
  <1>2. IsFiniteSet(S)
    <2>1. IsFiniteSet(G)
      BY FS_Subset DEF Of, Evidence
    <2>. QED
      BY <2>1, ImageFinite
  <1>3. ASSUME NEW g \in G PROVE LandedEdge(row[g])
    <2>. DEFINE from == g.source.content
                to == mat[pin].content
    <2>1. /\ g \in F /\ g.kind = "path" /\ FileSound(g, F) /\ g.target.content = to
          /\ Compare(from, g.target.content) = "path_only_relocation"
      BY DEF Of, Evidence, Forwards
    <2>2. from \in Contents /\ to \in Contents /\ to.layout = "mat"
      BY <2>1, PinnedBundle DEF FileSound
    <2>3. /\ from \in [body : Nat, text : Nat, layout : Layouts, support : Nat]
          /\ to \in [body : Nat, text : Nat, layout : Layouts, support : Nat]
      BY <2>2, ContentsAssumption
    <2>4. from # to /\ Primary(from) = Primary(to) /\ from.support = to.support
      BY <2>1 DEF Compare
    <2>5. from.body = to.body /\ from.text = to.text
      BY <2>4 DEF Primary
    <2>. HIDE DEF from, to
    <2>6. from.layout # "mat"
      BY <2>2, <2>3, <2>4, <2>5
    <2>7. row[g].source.content = from /\ row[g].target.content = to
      BY PinnedBundle DEF Edge, from, to
    <2>. QED
      BY <2>2, <2>5, <2>6, <2>7 DEF LandedEdge, EdgeSound
  <1>4. ImportPaths(d, F) = RecordTransformations(d, S)
    BY <1>1 DEF ImportPaths
  <1>5. \A e \in S : LandedEdge(e)
    BY <1>3
  <1>. HIDE DEF S
  <1>6. Folded("edge", d, S, RecordTransformations(d, S))
    BY <1>2, EdgesFolded
  <1>. QED
    BY <1>2, <1>4, <1>5, <1>6, Lands

(* The boundary deltas, which end at the pinned bundle.                    *)
LEMMA DeltasLand ==
  ASSUME NEW d, NEW F, Evidence(F), WellTyped, IsDb(d), Landed(d, F)
  PROVE  LET n == ImportDeltas(d, F) IN SameReviews(d, n) /\ Landed(n, F)
  <1>. DEFINE G == {x \in Of("delta", F) :
                      /\ ValidRecovery(x.recovery, F) /\ BoundToRecovery(d, x)
                      /\ Forwards(x.target) /\ ConsumersCurrent(x, F)}
              row == [g \in G |-> Edge(g.source, MatSubject(pin), "verified_boundary_delta", g.id)]
              S == {row[g] : g \in G}
  <1>1. S = {Edge(g.source, MatSubject(pin), "verified_boundary_delta", g.id) : g \in G}
    OBVIOUS
  <1>2. IsFiniteSet(S)
    <2>1. IsFiniteSet(G)
      BY FS_Subset DEF Of, Evidence
    <2>. QED
      BY <2>1, ImageFinite
  <1>3. ASSUME NEW g \in G PROVE LandedEdge(row[g])
    <2>1. /\ g \in F /\ g.kind = "delta" /\ FileSound(g, F) /\ g.target.content = mat[pin].content
      BY DEF Of, Evidence, Forwards
    <2>2. g.source.content.layout = "pack" /\ g.source.content.body = mat[pin].content.body
      BY <2>1 DEF FileSound, SameDeclarations
    <2>3. row[g].source.content = g.source.content /\ row[g].target.content = mat[pin].content
      BY PinnedBundle DEF Edge
    <2>. QED
      BY <2>2, <2>3, PinnedBundle DEF LandedEdge, EdgeSound
  <1>4. ImportDeltas(d, F) = RecordTransformations(d, S)
    BY <1>1 DEF ImportDeltas
  <1>5. \A e \in S : LandedEdge(e)
    BY <1>3
  <1>. HIDE DEF S
  <1>6. Folded("edge", d, S, RecordTransformations(d, S))
    BY <1>2, EdgesFolded
  <1>. QED
    BY <1>2, <1>4, <1>5, <1>6, Lands

(* The bridges, whose bindings carry a body that was reviewed.             *)
LEMMA BridgesLand ==
  ASSUME NEW d, NEW F, Evidence(F), WellTyped, RowsSound(d, F), Landed(d, F)
  PROVE  LET n == ImportBridges(d, F) IN SameReviews(d, n) /\ Landed(n, F)
  <1>. DEFINE G == {x \in Of("bridge", F) :
                      /\ x.type \in AuthorRoutes \/ x.authority \in F
                      /\ IsAuthority(x.type, x.authority, F) /\ SourceStands(d, x)
                      /\ Forwards(x.target) /\ ConsumersCurrent(x, F)}
              from(g) == IF g.type \in AuthorRoutes THEN MatSubject(pin) ELSE g.source
              row == [g \in G |-> Binding(from(g), MatSubject(pin), g.type, g.id)]
              S == {row[g] : g \in G}
  <1>1. S = {Binding(from(g), MatSubject(pin), g.type, g.id) : g \in G}
    OBVIOUS
  <1>2. IsFiniteSet(S)
    <2>1. IsFiniteSet(G)
      BY FS_Subset DEF Of, Evidence
    <2>. QED
      BY <2>1, ImageFinite
  <1>3. ASSUME NEW g \in G PROVE BindingSound(row[g], F)
    <2>1. /\ g \in F /\ g.kind = "bridge" /\ FileSound(g, F) /\ g.target.content = mat[pin].content
          /\ SourceStands(d, g)
      BY DEF Of, Evidence, Forwards
    <2>2. g.type \in DOMAIN Capability /\ g.source.content.body = mat[pin].content.body
      BY <2>1 DEF FileSound, SameDeclarations
    <2>3. row[g].source = from(g) /\ row[g].target.content = mat[pin].content
      BY PinnedBundle DEF Binding
    <2>4. row[g].source.content.body = mat[pin].content.body
      BY <2>2, <2>3, PinnedBundle
    <2>5. CASE g.type \in AuthorRoutes
      <3>1. g.target.content.body \in Vouched(F)
        BY <2>1, <2>5 DEF Vouched, Of
      <3>. QED
        BY <2>1, <2>3, <2>4, <3>1 DEF BindingSound
    <2>6. CASE g.type \notin AuthorRoutes
      <3>1. g.type \in {"historical_review_apply_recovery", "mat_exact_review_apply"}
        BY <2>2, <2>6 DEF Capability, AuthorRoutes
      <3>2. \E r \in d.reviews : r.subject = g.source /\ Eligible(r)
        BY <2>1, <3>1 DEF SourceStands, Stands
      <3>3. g.source.content.body \in Vouched(F)
        BY <3>2 DEF RowsSound, RowSound, Eligible
      <3>. QED
        BY <2>2, <2>3, <2>4, <3>3 DEF BindingSound
    <2>. QED
      BY <2>5, <2>6
  <1>4. ImportBridges(d, F) = RecordBindings(d, S)
    BY <1>1 DEF ImportBridges
  <1>5. \A b \in S : BindingSound(b, F)
    BY <1>3
  <1>. HIDE DEF S
  <1>6. Folded("binding", d, S, RecordBindings(d, S))
    BY <1>2, BindingsFolded
  <1>7. IsDb(d)
    BY DEF RowsSound
  <1>. QED
    BY <1>2, <1>4, <1>5, <1>6, <1>7, Lands

(* The relocated batches.                                                  *)
LEMMA BatchesLand ==
  ASSUME NEW d, NEW F, Evidence(F), IsDb(d), Landed(d, F)
  PROVE  LET n == ImportBatches(d, F) IN SameReviews(d, n) /\ Landed(n, F)
  <1>1. IsFiniteSet(Of("batch", F))
    BY FS_Subset DEF Of, Evidence
  <1>2. \A g \in Of("batch", F) : BatchSound(g, F)
    BY DEF Of, Evidence, FileSound
  <1>3. Folded("batch", d, Of("batch", F), ImportBatches(d, F))
    BY BatchesFolded DEF Evidence
  <1>. QED
    BY <1>1, <1>2, <1>3, Lands

(* The reviews, the edges and the bindings are as they were.               *)
SameTables(d, n) ==
    IsDb(n) /\ n.reviews = d.reviews /\ n.edges = d.edges /\ n.bindings = d.bindings

(* set_task_head and mark_task_head_freshness leave the reviews, the edges *)
(* and the bindings alone.                                                 *)
LEMMA OneHead ==
  ASSUME NEW d, IsDb(d), NEW role, NEW subject
  PROVE  SameTables(d, SetHead(d, role, subject)) /\ SameTables(d, MarkStale(d, role))
  <1>1. SameTables(d, d)
    BY DEF SameTables
  <1>2. \A heads : SameTables(d, [d EXCEPT !.heads = heads])
    BY DEF SameTables, IsDb
  <1>3. SameTables(d, SetHead(d, role, subject))
    BY <1>2 DEF SetHead
  <1>4. SameTables(d, [d EXCEPT !.heads[role].fresh = FALSE])
    BY <1>2
  <1>. QED
    BY <1>1, <1>3, <1>4 DEF MarkStale

(* and a refresh of all of them no more.                                   *)
LEMMA HeadsRefreshed ==
  ASSUME NEW d, IsDb(d)
  PROVE  SameTables(d, MarkAllStale(d)) /\ SameTables(d, RefreshHeads(d))
  <1>. DEFINE once == MarkStale(d, "mat_main")
              stale == MarkAllStale(d)
              main == SetHead(stale, "mat_main", MatSubject(pin))
  <1>1. SameTables(d, once)
    BY OneHead
  <1>2. SameTables(once, MarkStale(once, "unified_main"))
    BY <1>1, OneHead DEF SameTables
  <1>3. SameTables(d, stale)
    BY <1>1, <1>2 DEF SameTables, MarkAllStale
  <1>. HIDE DEF once, stale
  <1>4. SameTables(stale, main)
    BY <1>3, OneHead DEF SameTables
  <1>5. SameTables(main, SetHead(main, "unified_main", UnifiedSubject))
    BY <1>4, OneHead DEF SameTables
  <1>6. RefreshHeads(d) = IF unified THEN SetHead(main, "unified_main", UnifiedSubject) ELSE main
    BY DEF RefreshHeads, stale
  <1>. HIDE DEF main
  <1>7. SameTables(d, RefreshHeads(d))
    BY <1>3, <1>4, <1>5, <1>6 DEF SameTables
  <1>. QED
    BY <1>3, <1>7 DEF stale

(* A stage that leaves the reviews alone leaves what is known of them.     *)
LEMMA StillSound ==
  ASSUME NEW d, NEW n, NEW F, RowsSound(d, F), IsDb(n), n.reviews = d.reviews
  PROVE  RowsSound(n, F) /\ Kept(d.reviews, n)
  BY DEF RowsSound, Kept, SameReview

(* What the imports of rebuild_workspace_database make of any evidence the *)
(* commands can leave: rows that agree with the files, transformations     *)
(* that end at the MAT, bindings of declarations that somebody vouched     *)
(* for, and the rows that the receipts are owed.                           *)
THEOREM ImportSound ==
  ASSUME NEW F, Evidence(F), WellTyped
  PROVE  LET n == Import(F)
         IN  /\ RowsSound(n, F) /\ Landed(n, F)
             /\ Shown(n, Receipts(F)) /\ Adopted(n, Of("pr", F))
  <1>. DEFINE d1 == ImportPr(EmptyDb, F)
              d2 == ImportRecoveries(d1, F)
              d3 == ImportMat(d2, F)
              d4 == ImportPhase2(d3, F)
              d5 == ImportResults(d4, F)
              d6 == ImportScopes(d5, F)
              d7 == RefreshHeads(d6)
              d8 == ImportResolved(d7, F)
              d9 == ImportPaths(d8, F)
              d10 == ImportDeltas(d9, F)
              d11 == ImportBridges(d10, F)
              d12 == ImportBatches(d11, F)
              applied == {x \in Of("mat", F) : ~x.invalidated}
              adopted == Of("pr", F)
              phase2 == Of("phase2", F)
  <1>0. Import(F) = d12
    BY DEF Import
  <1>e. RowsSound(EmptyDb, F) /\ EmptyDb.edges = {} /\ EmptyDb.bindings = {}
    BY DEF EmptyDb, RowsSound, IsDb
  <1>f. applied \in SUBSET (Of("phase2", F) \cup Of("mat", F)) /\ phase2 \in SUBSET (Of("phase2", F) \cup Of("mat", F))
    OBVIOUS
  <1>1. RowsSound(d1, F) /\ Rest(EmptyDb, d1) /\ Adopted(d1, adopted)
    BY <1>e, PrStage
  <1>. HIDE DEF d1, applied, adopted, phase2
  <1>2. RowsSound(d2, F) /\ Rest(d1, d2) /\ Kept(d1.reviews, d2)
    BY <1>1, RecoveryStage
  <1>. HIDE DEF d2
  <1>3. RowsSound(d3, F) /\ Rest(d2, d3) /\ Kept(d2.reviews, d3) /\ Shown(d3, applied)
    BY <1>2, MatStage DEF applied
  <1>. HIDE DEF d3
  <1>4. RowsSound(d4, F) /\ Rest(d3, d4) /\ Kept(d3.reviews, d4) /\ Shown(d4, phase2)
    BY <1>3, Phase2Stage DEF phase2
  <1>. HIDE DEF d4
  <1>5. RowsSound(d5, F) /\ Rest(d4, d5) /\ Kept(d4.reviews, d5)
    BY <1>4, ResultStage
  <1>. HIDE DEF d5
  <1>6. RowsSound(d6, F) /\ Rest(d5, d6) /\ Kept(d5.reviews, d6)
    BY <1>5, ScopeStage
  <1>. HIDE DEF d6
  <1>7. RowsSound(d7, F) /\ d7.edges = d6.edges /\ d7.bindings = d6.bindings /\ Kept(d6.reviews, d7)
    BY <1>6, HeadsRefreshed, StillSound DEF SameTables, RowsSound
  <1>. HIDE DEF d7
  <1>8. RowsSound(d8, F) /\ Rest(d7, d8) /\ Kept(d7.reviews, d8)
    BY <1>7, ResolvedStage
  <1>. HIDE DEF d8
  <1>9. d8.edges = {} /\ d8.bindings = {}
    BY <1>e, <1>1, <1>2, <1>3, <1>4, <1>5, <1>6, <1>7, <1>8 DEF Rest
  <1>10. Adopted(d8, adopted) /\ Shown(d8, applied) /\ Shown(d8, phase2)
    <2>1. Adopted(d2, adopted)
      BY <1>1, <1>2, StillAdopted
    <2>2. Adopted(d3, adopted)
      BY <2>1, <1>3, StillAdopted
    <2>3. Adopted(d4, adopted) /\ Shown(d4, applied)
      BY <2>2, <1>f, <1>3, <1>4, StillAdopted, StillShown
    <2>4. Adopted(d5, adopted) /\ Shown(d5, applied) /\ Shown(d5, phase2)
      BY <2>3, <1>f, <1>4, <1>5, StillAdopted, StillShown
    <2>5. Adopted(d6, adopted) /\ Shown(d6, applied) /\ Shown(d6, phase2)
      BY <2>4, <1>f, <1>6, StillAdopted, StillShown
    <2>6. Adopted(d7, adopted) /\ Shown(d7, applied) /\ Shown(d7, phase2)
      BY <2>5, <1>f, <1>7, StillAdopted, StillShown
    <2>. QED
      BY <2>6, <1>f, <1>8, StillAdopted, StillShown
  <1>11. IsDb(d8) /\ Landed(d8, F)
    BY <1>8, <1>9, FS_EmptySet DEF RowsSound, Landed, Apart
  <1>12. SameReviews(d8, d9) /\ Landed(d9, F)
    BY <1>11, PathsLand
  <1>. HIDE DEF d9
  <1>13. SameReviews(d8, d10) /\ Landed(d10, F)
    BY <1>12, DeltasLand DEF SameReviews
  <1>. HIDE DEF d10
  <1>14. RowsSound(d10, F)
    BY <1>8, <1>13, StillSound DEF SameReviews
  <1>15. SameReviews(d8, d11) /\ Landed(d11, F)
    BY <1>13, <1>14, BridgesLand DEF SameReviews
  <1>. HIDE DEF d11
  <1>16. SameReviews(d8, d12) /\ Landed(d12, F)
    BY <1>15, BatchesLand DEF SameReviews
  <1>. HIDE DEF d12
  <1>17. RowsSound(d12, F)
    BY <1>8, <1>16, StillSound DEF SameReviews
  <1>18. Shown(d12, Receipts(F)) /\ Adopted(d12, adopted)
    BY <1>10, <1>16 DEF Shown, Adopted, SameReviews, Receipts, applied, phase2
  <1>. QED
    BY <1>0, <1>16, <1>17, <1>18 DEF adopted

-----------------------------------------------------------------------------
(* What a rebuild requires its head to be reached from, and what the       *)
(* status commands look up.                                                *)

(* One round of the authority reach.                                       *)
First(d) == {r.subject : r \in {q \in d.reviews : Eligible(q) /\ Modern(q)}}
Onward(d, X) == {e.target : e \in {x \in d.edges : x.kind # BridgeKind /\ x.source \in X}}
Hops(d, k, h) == [n \in 0..k |-> IF n = 0 THEN First(d) ELSE h[n - 1] \cup Onward(d, h[n - 1])]

(* The rounds can be counted up to any number.                             *)
LEMMA HopsExist ==
  ASSUME NEW d, NEW k \in Nat
  PROVE  \E h : h = Hops(d, k, h)
  <1>. DEFINE stuck == {n \in Nat : ~\E h : h = Hops(d, n, h)}
  <1>. SUFFICES ASSUME stuck # {} PROVE FALSE
    OBVIOUS
  <1>1. PICK n \in stuck : \A m \in stuck : n <= m
    BY Least
  <1>2. n \in Nat /\ ~\E h : h = Hops(d, n, h)
    OBVIOUS
  <1>3. CASE n = 0
    <2>. DEFINE h == [m \in 0..0 |-> First(d)]
    <2>1. h = Hops(d, 0, h)
      BY DEF Hops
    <2>. QED
      BY <1>2, <1>3, <2>1
  <1>4. CASE n # 0
    <2>1. n - 1 \in Nat /\ n - 1 \notin stuck
      <3>. HIDE DEF stuck
      <3>. QED
        BY <1>1, <1>2, <1>4
    <2>2. PICK g : g = Hops(d, n - 1, g)
      BY <2>1
    <2>. DEFINE h == [m \in 0..n |-> IF m = 0 THEN First(d) ELSE g[m - 1] \cup Onward(d, g[m - 1])]
    <2>3. \A m \in 0..(n - 1) : h[m] = g[m]
      <3>1. \A m \in 0..(n - 1) :
               g[m] = IF m = 0 THEN First(d) ELSE g[m - 1] \cup Onward(d, g[m - 1])
        BY <2>2 DEF Hops
      <3>2. \A m \in 0..n :
               h[m] = IF m = 0 THEN First(d) ELSE g[m - 1] \cup Onward(d, g[m - 1])
        OBVIOUS
      <3>3. \A m \in 0..(n - 1) : m \in 0..n
        BY <1>2, <2>1
      <3>. HIDE DEF h
      <3>. QED
        BY <3>1, <3>2, <3>3
    <2>4. \A m \in 0..n : m # 0 => m - 1 \in 0..(n - 1)
      BY <1>2, <2>1
    <2>5. \A m \in 0..n : h[m] = IF m = 0 THEN First(d) ELSE h[m - 1] \cup Onward(d, h[m - 1])
      <3>1. \A m \in 0..n : h[m] = IF m = 0 THEN First(d) ELSE g[m - 1] \cup Onward(d, g[m - 1])
        OBVIOUS
      <3>. HIDE DEF h
      <3>. QED
        BY <2>3, <2>4, <3>1
    <2>6. h = Hops(d, n, h)
      <3>1. h = [m \in 0..n |-> h[m]]
        OBVIOUS
      <3>. HIDE DEF h
      <3>. QED
        BY <2>5, <3>1 DEF Hops
    <2>. QED
      BY <1>2, <2>6
  <1>. QED
    BY <1>3, <1>4

(* In an import, what any chain of transformations reaches, the coverage   *)
(* of the status commands, which follows one, covers.                      *)
THEOREM ReachIsCovered ==
  ASSUME NEW d, NEW F, Landed(d, F), NEW s \in Reach(d)
  PROVE  ReviewCoverage(d, s)
  <1>. DEFINE k == Cardinality(d.edges)
              hops == CHOOSE h : h = Hops(d, k, h)
              Passed(x) == \E r \in d.reviews : Authority(r) /\ r.subject = x
              Fine(x) == Passed(x) \/ (x.content.layout = "mat" /\ ReviewCoverage(d, x))
              bad == {n \in 0..k : \E x \in hops[n] : ~Fine(x)}
  <1>1. k \in Nat
    BY FS_CardinalityType DEF Landed
  <1>2. hops = Hops(d, k, hops)
    BY <1>1, HopsExist
  <1>3. Reach(d) = hops[k]
    BY DEF Reach, Hops, First, Onward
  <1>4. \A x : Passed(x) => ReviewCoverage(d, x)
    BY DEF ReviewCoverage
  <1>5. \A x \in First(d) : Passed(x)
    BY DEF First, Authority
  <1>. HIDE DEF hops, k
  <1>6. hops[0] = First(d) /\ \A n \in 1..k : hops[n] = hops[n - 1] \cup Onward(d, hops[n - 1])
    <2>1. \A n \in 0..k : hops[n] = IF n = 0 THEN First(d) ELSE hops[n - 1] \cup Onward(d, hops[n - 1])
      BY <1>2 DEF Hops
    <2>2. 0 \in 0..k /\ \A n \in 1..k : n \in 0..k /\ n # 0
      BY <1>1
    <2>. QED
      BY <2>1, <2>2
  <1>7. ASSUME NEW x, Fine(x), NEW e \in d.edges, e.kind # BridgeKind, e.source = x
        PROVE  Fine(e.target)
    <2>1. e.target.content.layout = "mat"
      BY <1>7 DEF Landed, LandedEdge
    <2>2. \/ e.source.content = e.target.content
          \/ e.source.content.layout # "mat"
      BY <1>7, <2>1 DEF Landed, LandedEdge, EdgeSound
    <2>3. CASE e.source.content = e.target.content
      <3>1. ReviewCoverage(d, x)
        BY <1>4, <1>7
      <3>2. ReviewCoverage(d, e.target)
        BY <1>7, <2>3, <3>1 DEF ReviewCoverage
      <3>. QED
        BY <2>1, <3>2
    <2>4. CASE e.source.content.layout # "mat"
      <3>1. Passed(x)
        BY <1>7, <2>4
      <3>2. ReviewCoverage(d, e.target)
        BY <1>7, <3>1 DEF ReviewCoverage
      <3>. QED
        BY <2>1, <3>2
    <2>. QED
      BY <2>2, <2>3, <2>4
  <1>. HIDE DEF Fine
  <1>8. bad = {}
    <2>. SUFFICES ASSUME bad # {} PROVE FALSE
      OBVIOUS
    <2>1. PICK n \in bad : \A m \in bad : n <= m
      <3>1. bad \subseteq Nat
        BY <1>1
      <3>. QED
        BY <3>1, Least
    <2>2. PICK y \in hops[n] : ~Fine(y)
      OBVIOUS
    <2>3. n # 0
      BY <1>5, <1>6, <2>2 DEF Fine
    <2>4. n \in 1..k /\ n - 1 \in 0..k /\ ~(n <= n - 1)
      BY <1>1, <2>3
    <2>5. \A z \in hops[n - 1] : Fine(z)
      <3>1. n - 1 \notin bad
        <4>. HIDE DEF bad
        <4>. QED BY <2>1, <2>4
      <3>. QED
        BY <2>4, <3>1
    <2>6. y \in Onward(d, hops[n - 1])
      BY <1>6, <2>2, <2>4, <2>5
    <2>7. PICK e \in d.edges : e.kind # BridgeKind /\ e.source \in hops[n - 1] /\ y = e.target
      BY <2>6 DEF Onward
    <2>. QED
      BY <1>7, <2>2, <2>5, <2>7
  <1>9. Fine(s)
    BY <1>1, <1>3, <1>8
  <1>. QED
    BY <1>4, <1>9 DEF Fine

-----------------------------------------------------------------------------
(* What is written to disk afterwards leaves the database sound.           *)

(* What becomes of a file: nothing, but for the marks that a result is     *)
(* verified and that an application is invalid.                            *)
Continued(f, g) ==
    \/ g = f
    \/ /\ g.id = f.id /\ g.kind = f.kind
       /\ \/ f.kind = "result" /\ g.subject = f.subject /\ g.verdict = f.verdict /\ g.modern = f.modern
          \/ f.kind = "mat" /\ g.ev = f.ev /\ g.subject = f.subject

(* The files of F are still there in G, so continued.                      *)
Extended(F, G) == \A f \in F : \E g \in G : Continued(f, g)

(* What somebody vouched for stays vouched for,                            *)
LEMMA VouchedGrows ==
  ASSUME NEW F, NEW G, Extended(F, G)
  PROVE  Vouched(F) \subseteq Vouched(G)
  <1>1. ASSUME NEW f \in F, IsPass(f) PROVE f.subject.content.body \in Vouched(G)
    <2>1. PICK g \in G : Continued(f, g)
      BY DEF Extended
    <2>2. IsPass(g) /\ g.subject = f.subject
      BY <1>1, <2>1 DEF Continued, IsPass
    <2>. QED
      BY <2>2 DEF Vouched
  <1>2. ASSUME NEW f \in Of("bridge", F), f.type \in AuthorRoutes PROVE f.target.content.body \in Vouched(G)
    <2>1. PICK g \in G : Continued(f, g)
      BY DEF Extended, Of
    <2>2. g = f
      BY <2>1 DEF Continued, Of
    <2>. QED
      BY <1>2, <2>2 DEF Vouched, Of
  <1>. QED
    BY <1>1, <1>2 DEF Vouched

(* a passing result stays one,                                             *)
LEMMA PassesGrow ==
  ASSUME NEW F, NEW G, Extended(F, G), NEW ev, NEW f \in Passes(ev, F)
  PROVE  \E g \in Passes(ev, G) : g.subject = f.subject /\ g.modern = f.modern
  <1>1. PICK g \in G : Continued(f, g)
    BY DEF Extended, Passes
  <1>. QED
    BY <1>1 DEF Continued, Passes, IsPass

(* a file keeps what its receipt rests on,                                 *)
LEMMA FileStays ==
  ASSUME NEW F, NEW G, Extended(F, G), NEW x, FileSound(x, F)
  PROVE  FileSound(x, G)
  <1>1. Vouched(F) \subseteq Vouched(G)
    BY VouchedGrows
  <1>2. BatchSound(x, F) => BatchSound(x, G)
    BY <1>1 DEF BatchSound
  <1>3. (\E f \in Passes(x.ev, F) : f.subject = x.subject) => \E f \in Passes(x.ev, G) : f.subject = x.subject
    BY PassesGrow
  <1>4. (\E f \in Passes(x.ev, F) : f.modern) => \E f \in Passes(x.ev, G) : f.modern
    BY PassesGrow
  <1>. QED
    BY <1>1, <1>2, <1>3, <1>4 DEF FileSound

(* and a file under an old identity is the old file.                       *)
LEMMA Origin ==
  ASSUME NEW F, NEW G, Extended(F, G), Evidence(G), NEW g \in G, g.id \in Ids(F)
  PROVE  \E f \in F : f.id = g.id /\ f.kind = g.kind /\ Continued(f, g)
  <1>1. PICK f \in F : f.id = g.id
    BY DEF Ids
  <1>2. PICK h \in G : Continued(f, h)
    BY DEF Extended
  <1>3. h.id = f.id /\ h.kind = f.kind
    BY <1>2 DEF Continued
  <1>4. h = g
    BY <1>1, <1>3, FilesUnique
  <1>. QED
    BY <1>1, <1>2, <1>3, <1>4

(* A row that agreed with the files agrees with what became of them.       *)
LEMMA RowStays ==
  ASSUME NEW F, NEW G, Extended(F, G), Evidence(G), NEW r, RowSound(r, F)
  PROVE  RowSound(r, G)
  <1>1. Vouched(F) \subseteq Vouched(G)
    BY VouchedGrows
  <1>2. r.ev \in Ids(G)
    <2>1. PICK f \in F : r.ev = f.id
      BY DEF RowSound, Ids
    <2>2. PICK g \in G : Continued(f, g)
      BY DEF Extended
    <2>3. g.id = f.id
      BY <2>2 DEF Continued
    <2>. QED
      BY <2>1, <2>3 DEF Ids
  <1>3. ASSUME NEW g \in Of("result", G), r.ev = g.id, r.subject = g.subject
        PROVE  r.modern \in {None, g.modern}
    <2>1. PICK f \in F : f.id = g.id /\ f.kind = g.kind /\ Continued(f, g)
      BY <1>3, Origin DEF RowSound, Of
    <2>2. f \in Of("result", F) /\ f.subject = g.subject /\ f.modern = g.modern
      BY <2>1 DEF Of, Continued
    <2>. QED
      BY <1>3, <2>1, <2>2 DEF RowSound
  <1>4. ASSUME NEW g \in Of("pr", G), r.ev = g.id
        PROVE  r.subject = g.subject /\ r.scope = PrScope /\ r.eligible
    <2>1. PICK f \in F : f.id = g.id /\ f.kind = g.kind /\ Continued(f, g)
      BY <1>4, Origin DEF RowSound, Of
    <2>2. f = g /\ f \in Of("pr", F)
      BY <2>1 DEF Of, Continued
    <2>. QED
      BY <1>4, <2>1, <2>2 DEF RowSound
  <1>. QED
    BY <1>1, <1>2, <1>3, <1>4 DEF RowSound

(* The database agrees with the files F: its reviews, edges and bindings.  *)
DbSound(d, F) ==
    /\ RowsSound(d, F)
    /\ \A e \in d.edges : EdgeSound(e)
    /\ \A b \in d.bindings : BindingSound(b, F)
    /\ Apart(d)

(* It agrees with what becomes of them.                                    *)
LEMMA DbStays ==
  ASSUME NEW F, NEW G, Extended(F, G), Evidence(G), NEW d, DbSound(d, F)
  PROVE  DbSound(d, G)
  <1>1. RowsSound(d, G)
    BY RowStays DEF RowsSound, DbSound
  <1>2. \A b \in d.bindings : BindingSound(b, G)
    BY VouchedGrows DEF BindingSound, DbSound
  <1>. QED
    BY <1>1, <1>2 DEF DbSound

(* The assumption on the starts is met: nothing is evidence on disk, and   *)
(* every step below leaves some.                                           *)
LEMMA NothingIsEvidence == Evidence({})
  BY FS_EmptySet DEF Evidence

(* The identity after the last is a new one.                               *)
LEMMA Fresh ==
  ASSUME NEW F, Evidence(F)
  PROVE  Cardinality(F) \in Nat /\ \A f \in F : f.id # Cardinality(F) + 1 /\ f.id \in 1..Cardinality(F)
  BY FS_CardinalityType DEF Evidence

(* A new file that rests on the others is more evidence on disk.           *)
LEMMA Added ==
  ASSUME NEW F, Evidence(F), NEW x, x.id = Cardinality(F) + 1, FileSound(x, F)
  PROVE  Extended(F, F \cup {x}) /\ Evidence(F \cup {x})
  <1>. DEFINE G == F \cup {x}
  <1>1. Cardinality(F) \in Nat /\ \A f \in F : f.id # x.id /\ f.id \in 1..Cardinality(F)
    BY Fresh
  <1>2. x \notin F
    BY <1>1
  <1>3. IsFiniteSet(G) /\ Cardinality(G) = Cardinality(F) + 1
    BY <1>2, FS_AddElement DEF Evidence
  <1>4. Extended(F, G)
    BY DEF Extended, Continued
  <1>. HIDE DEF G
  <1>5. FileSound(x, G) /\ \A f \in F : FileSound(f, G)
    BY <1>4, FileStays DEF Evidence
  <1>6. \A f \in G : f.id \in 1..Cardinality(G)
    BY <1>1, <1>3 DEF G
  <1>7. \A f, g \in G : f.id = g.id => f = g
    BY <1>1, FilesUnique DEF G
  <1>8. \A f \in G : FileSound(f, G)
    BY <1>5 DEF G
  <1>. QED
    BY <1>3, <1>4, <1>6, <1>7, <1>8 DEF Evidence, G

(* So is a file that replaces one it continues.                            *)
LEMMA Replaced ==
  ASSUME NEW F, Evidence(F), NEW f \in F, NEW x, Continued(f, x), x.id = f.id, x.kind = f.kind,
         FileSound(x, (F \ {f}) \cup {x})
  PROVE  LET G == (F \ {f}) \cup {x}
         IN  Extended(F, G) /\ Evidence(G) /\ Cardinality(G) = Cardinality(F)
  <1>. DEFINE G == (F \ {f}) \cup {x}
  <1>1. \A g \in F : g.id = x.id => g = f
    BY FilesUnique
  <1>2. x \notin F \ {f}
    BY <1>1
  <1>3. IsFiniteSet(F) /\ IsFiniteSet(F \ {f}) /\ Cardinality(F \ {f}) = Cardinality(F) - 1
    BY FS_RemoveElement DEF Evidence
  <1>4. Cardinality(F) \in Nat
    BY Fresh
  <1>5. IsFiniteSet(G) /\ Cardinality(G) = (Cardinality(F) - 1) + 1
    BY <1>2, <1>3, FS_AddElement
  <1>6. Cardinality(G) = Cardinality(F)
    BY <1>4, <1>5
  <1>7. Extended(F, G)
    BY DEF Extended, Continued
  <1>8. FileSound(x, G)
    OBVIOUS
  <1>9. \A g \in G : g.id \in 1..Cardinality(G)
    BY <1>6 DEF Evidence
  <1>10. \A g, h \in G : g.id = h.id => g = h
    BY <1>1, FilesUnique
  <1>11. \A g \in F : FileSound(g, G)
    <2>. HIDE DEF G
    <2>. QED
      BY <1>7, FileStays DEF Evidence
  <1>12. \A g \in G : FileSound(g, G)
    BY <1>8, <1>11
  <1>. QED
    BY <1>5, <1>6, <1>7, <1>9, <1>10, <1>12 DEF Evidence

-----------------------------------------------------------------------------
(* The inductive invariant.                                                *)

(* A rebuild that has not yet been swapped in agrees with the files of     *)
(* now, and carries the receipts of the inventory it was made of.          *)
TempInv ==
    temp # None =>
        /\ DbSound(temp.db, files)
        /\ Shown(temp.db, Receipts(temp.inventory))
        /\ Adopted(temp.db, Of("pr", temp.inventory))
        /\ Of("pr", temp.inventory) \subseteq files
        /\ Covered(temp.db, temp.db.heads[temp.role].subject)

(* The histories are typed, the files rest on one another, the database    *)
(* agrees with them, and so does the one a rebuild has in hand.            *)
IInv ==
    /\ WellTyped
    /\ Evidence(files)
    /\ DbSound(db, files)
    /\ TempInv

(* What a command other than the rebuild has to establish.                 *)
LEMMA Command ==
  ASSUME IInv, WellTyped', Extended(files, files'), Evidence(files'), DbSound(db', files'), temp' = temp
  PROVE  IInv'
  <1>1. TempInv'
    <2>. SUFFICES ASSUME temp # None PROVE TempInv'
      BY DEF TempInv
    <2>1. DbSound(temp.db, files')
      BY DbStays DEF IInv, TempInv
    <2>2. Of("pr", temp.inventory) \subseteq files'
      <3>1. ASSUME NEW g \in Of("pr", temp.inventory) PROVE g \in files'
        <4>1. g \in files /\ g.kind = "pr"
          BY DEF IInv, TempInv, Of
        <4>2. PICK h \in files' : Continued(g, h)
          BY <4>1 DEF Extended
        <4>. QED
          BY <4>1, <4>2 DEF Continued
      <3>. QED
        BY <3>1
    <2>. QED
      BY <2>1, <2>2 DEF IInv, TempInv
  <1>. QED
    BY <1>1 DEF IInv

(* The commands that only write evidence.                                  *)
LEMMA Emitted ==
  ASSUME IInv, NEW x, x.id = NewId, FileSound(x, files), files' = files \cup {x},
         UNCHANGED <<mat, pin, unified, db, temp>>
  PROVE  IInv'
  <1>1. Extended(files, files') /\ Evidence(files')
    BY Added DEF IInv, NewId
  <1>2. DbSound(db', files')
    BY <1>1, DbStays DEF IInv
  <1>3. WellTyped'
    BY DEF IInv, WellTyped
  <1>. QED
    BY <1>1, <1>2, <1>3, Command

(* The commands that only write the database.                              *)
LEMMA Written ==
  ASSUME IInv, DbSound(db', files), UNCHANGED <<mat, pin, unified, files, temp>>
  PROVE  IInv'
  <1>1. Extended(files, files')
    BY DEF Extended, Continued
  <1>2. WellTyped' /\ Evidence(files') /\ DbSound(db', files')
    BY DEF IInv, WellTyped
  <1>. QED
    BY <1>1, <1>2, Command

(* A row, an edge or heads written to a database that agrees with the      *)
(* files.                                                                  *)
LEMMA RowWritten ==
  ASSUME NEW d, NEW F, DbSound(d, F), NEW r, RowSound(r, F)
  PROVE  DbSound(RecordReview(d, r), F)
  <1>. DEFINE n == RecordReview(d, r)
  <1>1. /\ IsDb(d) /\ IsRow(r) /\ r.eligible \in BOOLEAN
        /\ \A q \in d.reviews : IsRow(q) /\ q.eligible \in BOOLEAN
    BY DEF DbSound, RowsSound, RowSound, IsReview
  <1>2. SoundUpsert(d, d.reviews \cup {r}, n)
    BY <1>1, OneUpsert DEF SoundUpsert
  <1>. HIDE DEF n
  <1>3. RowsSound(n, F)
    <2>1. RowsSound(d, F)
      BY DEF DbSound
    <2>2. \A q \in d.reviews \cup {r} : RowSound(q, F)
      BY <2>1 DEF RowsSound
    <2>. QED
      BY <1>2, <2>1, <2>2, UpsertSound
  <1>4. n.edges = d.edges /\ n.bindings = d.bindings
    BY <1>2 DEF SoundUpsert
  <1>. QED
    BY <1>3, <1>4 DEF DbSound, Apart, n

(* An edge whose bodies agree.                                             *)
LEMMA EdgeWritten ==
  ASSUME NEW d, NEW F, DbSound(d, F), NEW e, EdgeSound(e)
  PROVE  DbSound(RecordTransformation(d, e), F)
  <1>. DEFINE n == RecordTransformation(d, e)
  <1>1. IsDb(d) /\ Apart(d) /\ RowsSound(d, F)
    BY DEF DbSound, RowsSound
  <1>2. /\ SameReviews(d, n) /\ n.bindings = d.bindings /\ Apart(n)
        /\ n.edges = {x \in d.edges : ~SameEdge(e, x)} \cup {e}
    BY <1>1, OneEdge
  <1>. HIDE DEF n
  <1>3. RowsSound(n, F)
    BY <1>1, <1>2, StillSound DEF SameReviews
  <1>. QED
    BY <1>2, <1>3 DEF DbSound, n

(* Heads say nothing of authority.                                         *)
LEMMA HeadsWritten ==
  ASSUME NEW d, NEW F, DbSound(d, F), NEW n, SameTables(d, n)
  PROVE  DbSound(n, F)
  BY StillSound DEF DbSound, SameTables, Apart

-----------------------------------------------------------------------------
(* Reviews and their application.                                          *)

(* A reviewer's answer is a result file about a bundle that exists.        *)
LEMMA AnswerStep ==
  ASSUME IInv, NEW subject \in ReviewSubjects, NEW verdict \in {"pass", "fail"},
         Answer(subject, verdict), temp' = temp
  PROVE  IInv'
  <1>. DEFINE x == Result(NewId, subject, verdict, TRUE, FALSE)
  <1>1. NewId \in Nat
    BY FS_CardinalityType DEF NewId, IInv, Evidence
  <1>2. x \in Results /\ x.kind = "result" /\ x.id = NewId
    BY <1>1 DEF Result, Results
  <1>3. files' = files \cup {x} /\ UNCHANGED <<mat, pin, unified, db>>
    BY DEF Answer, Emit
  <1>. HIDE DEF x
  <1>4. FileSound(x, files)
    BY <1>2 DEF FileSound
  <1>. QED
    BY <1>2, <1>3, <1>4, Emitted

(* A result in the pack layout is about a bundle of the pack.              *)
LEMMA PackFile ==
  ASSUME Evidence(files), NEW f \in files, InPack(f)
  PROVE  /\ f \in Of("result", files) /\ f \in Results /\ f.subject.content \in Layout("pack")
         /\ f.subject.content \in Contents /\ f.subject.repo = "formalization_engine"
  <1>1. f \in Of("result", files) /\ f.subject.repo = "formalization_engine"
    BY DEF InPack, Of
  <1>2. f \in Results
    BY <1>1, ResultFile
  <1>3. f.subject.content \in Layout("pack")
    BY <1>1, <1>2 DEF Results, ReviewSubjects
  <1>. QED
    BY <1>1, <1>2, <1>3 DEF Layout

(* review-apply writes a row for the result and, for a pass, an edge to    *)
(* the bundle it outputs.                                                  *)
LEMMA ReviewApplyStep ==
  ASSUME IInv, NEW f \in files, NEW upto \in {"verify", "review", "edge", "receipt"},
         NEW success \in BOOLEAN, ReviewApply(f, success, upto), temp' = temp
  PROVE  IInv'
  <1>. DEFINE s == f.subject
              out == Output(s.content)
              y == [f EXCEPT !.verify = TRUE]
              verified == IF success THEN (files \ {f}) \cup {y} ELSE files
              row == Review(f.id, s, f.verdict, Phase2Scope, success, f.modern)
              edge == Edge(s, out, "review_apply_output_relocation", f.id)
              receipt == [kind |-> "phase2", id |-> NewId, ev |-> f.id, subject |-> s]
              new == success /\ upto = "receipt" /\ ~\E g \in Of("phase2", files) : g.ev = f.id
  <1>1. /\ InPack(f) /\ (success => IsPass(f)) /\ (success /\ ~f.modern => upto = "verify")
        /\ files' = IF new THEN verified \cup {receipt} ELSE verified
        /\ db' \in {db, RecordReview(db, row), RecordTransformation(RecordReview(db, row), edge)}
        /\ UNCHANGED <<mat, pin, unified>>
    BY DEF ReviewApply
  <1>2. /\ f \in Of("result", files) /\ f \in Results /\ s.content \in Contents
        /\ f.subject.repo = "formalization_engine"
    BY <1>1, PackFile DEF IInv
  <1>3. PICK g \in verified : /\ g \in Results /\ g.id = f.id /\ g.subject = f.subject
                              /\ g.verdict = f.verdict /\ g.modern = f.modern
    <2>1. CASE success
      <3>1. /\ y \in Results /\ y.id = f.id /\ y.subject = f.subject
            /\ y.verdict = f.verdict /\ y.modern = f.modern
        BY <1>2 DEF Results
      <3>. QED
        BY <2>1, <3>1
    <2>2. CASE ~success
      BY <1>2, <2>2
    <2>. QED
      BY <2>1, <2>2
  <1>4. Extended(files, verified) /\ Evidence(verified) /\ Cardinality(verified) = Cardinality(files)
    <2>1. CASE success
      <3>1. /\ y \in Results /\ y.id = f.id /\ y.kind = f.kind /\ f.kind = "result" /\ y.subject = f.subject
            /\ y.verdict = f.verdict /\ y.modern = f.modern
        BY <1>2 DEF Results
      <3>. HIDE DEF y
      <3>2. Continued(f, y) /\ FileSound(y, (files \ {f}) \cup {y})
        BY <3>1 DEF Continued, FileSound
      <3>. QED
        BY <2>1, <3>1, <3>2, Replaced DEF IInv
    <2>2. CASE ~success
      BY <2>2 DEF IInv, Extended, Continued
    <2>. QED
      BY <2>1, <2>2
  <1>. HIDE DEF verified
  <1>5. g.kind = "result"
    BY <1>3 DEF Results
  <1>6. new => FileSound(receipt, verified)
    <2>. SUFFICES ASSUME new PROVE FileSound(receipt, verified)
      OBVIOUS
    <2>1. IsPass(g) /\ f.modern
      BY <1>1, <1>3, <1>5 DEF IsPass
    <2>2. g \in Passes(f.id, verified) /\ g.modern
      BY <1>3, <2>1 DEF Passes
    <2>3. receipt.kind = "phase2" /\ receipt.ev = f.id /\ receipt.subject = f.subject
      OBVIOUS
    <2>. HIDE DEF receipt
    <2>. QED
      BY <1>3, <2>2, <2>3 DEF FileSound
  <1>7. Extended(files, files') /\ Evidence(files') /\ g \in files'
    <2>1. CASE new
      <3>1. receipt.id = Cardinality(verified) + 1
        BY <1>4 DEF NewId
      <3>. HIDE DEF receipt
      <3>2. Extended(verified, verified \cup {receipt}) /\ Evidence(verified \cup {receipt})
        BY <1>4, <1>6, <2>1, <3>1, Added
      <3>3. \A h \in verified : h \in verified \cup {receipt}
        OBVIOUS
      <3>. QED
        BY <1>1, <1>3, <1>4, <2>1, <3>2, <3>3 DEF Extended
    <2>2. CASE ~new
      <3>1. files' = verified
        BY <1>1, <2>2
      <3>. HIDE DEF new
      <3>. QED
        BY <1>3, <1>4, <3>1
    <2>. QED
      BY <2>1, <2>2
  <1>8. RowSound(row, files')
    <2>1. g \in Of("result", files')
      BY <1>5, <1>7 DEF Of
    <2>2. success => f.verdict = "pass" /\ s.content.body \in Vouched(files')
      BY <1>1, <1>3, <1>5, <1>7, <2>1, ResultFile DEF IsPass
    <2>3. RowSound(Review(g.id, s, f.verdict, Phase2Scope, success, f.modern), files')
      BY <1>2, <1>3, <1>7, <2>1, <2>2, RowOfResult
    <2>. QED
      BY <1>3, <2>3
  <1>9. EdgeSound(edge)
    <2>1. s.content \in [body : Nat, text : Nat, layout : Layouts, support : Nat]
      BY <1>2, ContentsAssumption
    <2>2. out.content.body = s.content.body /\ out.content.layout = "toy"
      BY <2>1 DEF Output, Subject
    <2>3. edge.source = s /\ edge.target = out
      BY DEF Edge
    <2>. HIDE DEF edge, out
    <2>. QED
      BY <2>2, <2>3 DEF EdgeSound
  <1>10. DbSound(db, files')
    BY <1>7, DbStays DEF IInv
  <1>. HIDE DEF row, edge
  <1>11. DbSound(RecordReview(db, row), files')
    BY <1>8, <1>10, RowWritten
  <1>12. DbSound(RecordTransformation(RecordReview(db, row), edge), files')
    BY <1>9, <1>11, EdgeWritten
  <1>13. DbSound(db', files')
    BY <1>1, <1>10, <1>11, <1>12
  <1>14. WellTyped'
    BY <1>1 DEF IInv, WellTyped
  <1>. QED
    BY <1>7, <1>13, <1>14, Command

(* mat-apply writes a receipt and a row at the pinned bundle.              *)
LEMMA MatApplyStep ==
  ASSUME IInv, NEW f \in files, NEW upto \in {"review", "head", "receipt"}, MatApply(f, upto), temp' = temp
  PROVE  IInv'
  <1>. DEFINE s == MatSubject(pin)
              row == Review(f.id, s, f.verdict, MatScope, IsPass(f), TRUE)
              rowed == RecordReview(db, row)
              id == (CHOOSE r \in rowed.reviews : r.ev = f.id /\ r.subject = s).id
              receipt == [kind |-> "mat", id |-> NewId, ev |-> f.id, review |-> id, subject |-> s,
                          invalidated |-> FALSE]
  <1>1. /\ f.kind = "result" /\ f.subject = s /\ f.modern
        /\ db' \in {rowed, SetHead(rowed, "mat_main", s)}
        /\ files' = files \/ (IsPass(f) /\ files' = files \cup {receipt})
        /\ UNCHANGED <<mat, pin, unified>>
    BY DEF MatApply, Emit
  <1>2. f \in Of("result", files) /\ f.subject.content \in Contents /\ f.modern = TRUE
    BY <1>1, ResultFile DEF IInv, Of
  <1>3. IsPass(f) => FileSound(receipt, files)
    <2>. SUFFICES ASSUME IsPass(f) PROVE FileSound(receipt, files)
      OBVIOUS
    <2>1. f \in Passes(f.id, files)
      BY DEF Passes
    <2>2. /\ receipt.kind = "mat" /\ receipt.ev = f.id /\ receipt.subject = f.subject
          /\ DOMAIN receipt = {"kind", "id", "ev", "review", "subject", "invalidated"}
      BY <1>1
    <2>. HIDE DEF receipt
    <2>. QED
      BY <1>2, <2>1, <2>2 DEF FileSound
  <1>4. receipt.id = Cardinality(files) + 1
    BY DEF NewId
  <1>. HIDE DEF receipt
  <1>5. Extended(files, files') /\ Evidence(files') /\ f \in files'
    <2>1. CASE files' = files
      BY <2>1 DEF IInv, Extended, Continued
    <2>2. CASE IsPass(f) /\ files' = files \cup {receipt}
      BY <1>3, <1>4, <2>2, Added DEF IInv
    <2>. QED
      BY <1>1, <2>1, <2>2
  <1>6. RowSound(row, files')
    <2>1. f \in Of("result", files')
      BY <1>1, <1>5 DEF Of
    <2>2. IsPass(f) => f.verdict = "pass" /\ s.content.body \in Vouched(files')
      BY <1>1, <1>5, <2>1, ResultFile DEF IsPass
    <2>3. IsPass(f) \in BOOLEAN
      BY DEF IsPass
    <2>. HIDE DEF s
    <2>. QED
      BY <1>1, <1>2, <1>5, <2>1, <2>2, <2>3, RowOfResult
  <1>7. DbSound(db, files')
    BY <1>5, DbStays DEF IInv
  <1>. HIDE DEF row, s
  <1>8. DbSound(rowed, files')
    BY <1>6, <1>7, RowWritten
  <1>. HIDE DEF rowed
  <1>9. DbSound(SetHead(rowed, "mat_main", s), files')
    BY <1>8, OneHead, HeadsWritten DEF DbSound, RowsSound
  <1>10. DbSound(db', files')
    BY <1>1, <1>8, <1>9
  <1>11. WellTyped'
    BY <1>1 DEF IInv, WellTyped
  <1>. QED
    BY <1>5, <1>10, <1>11, Command

(* The adoption of a pull request writes a receipt and then its row.       *)
LEMMA PrAdoptStep ==
  ASSUME IInv, NEW f \in files, NEW upto \in {"receipt", "review"}, PrAdopt(f, upto), temp' = temp
  PROVE  IInv'
  <1>. DEFINE receipt == [kind |-> "pr", id |-> NewId, ev |-> f.id, subject |-> f.subject]
              row == Review(NewId, f.subject, "pass", PrScope, TRUE, None)
  <1>1. /\ IsPass(f) /\ files' = files \cup {receipt} /\ db' \in {db, RecordReview(db, row)}
        /\ UNCHANGED <<mat, pin, unified>>
    BY DEF PrAdopt, Emit
  <1>2. /\ receipt.kind = "pr" /\ receipt.ev = f.id /\ receipt.subject = f.subject
        /\ receipt.id = NewId
    OBVIOUS
  <1>. HIDE DEF receipt
  <1>3. FileSound(receipt, files)
    <2>1. f \in Passes(f.id, files)
      BY <1>1 DEF Passes
    <2>. QED
      BY <1>2, <2>1 DEF FileSound
  <1>4. Extended(files, files') /\ Evidence(files')
    BY <1>1, <1>2, <1>3, Added DEF IInv, NewId
  <1>5. receipt \in Of("pr", files')
    BY <1>1, <1>2 DEF Of
  <1>6. RowSound(row, files')
    BY <1>2, <1>4, <1>5, RowOfPr
  <1>7. DbSound(db, files')
    BY <1>4, DbStays DEF IInv
  <1>. HIDE DEF row
  <1>8. DbSound(RecordReview(db, row), files')
    BY <1>6, <1>7, RowWritten
  <1>9. WellTyped'
    BY <1>1 DEF IInv, WellTyped
  <1>. QED
    BY <1>1, <1>4, <1>7, <1>8, <1>9, Command

(* The application of a review of a pull request writes a row.             *)
LEMMA PrApplyStep ==
  ASSUME IInv, NEW f \in files, PrApply(f), temp' = temp
  PROVE  IInv'
  <1>. DEFINE row == Review(f.id, f.subject, f.verdict, PrScope, IsPass(f), None)
  <1>1. f \in Of("result", files) /\ db' = RecordReview(db, row) /\ UNCHANGED <<mat, pin, unified, files>>
    BY DEF PrApply, Of
  <1>2. IsPass(f) \in BOOLEAN /\ (IsPass(f) => f.verdict = "pass")
    BY DEF IsPass
  <1>3. RowSound(row, files)
    BY <1>1, <1>2, ResultFile, RowOfResult DEF IInv
  <1>. HIDE DEF row
  <1>4. DbSound(db', files)
    BY <1>1, <1>3, RowWritten DEF IInv
  <1>. QED
    BY <1>1, <1>4, Written

-----------------------------------------------------------------------------
(* The repositories and the heads.                                         *)

(* A commit, a pin, a unification and a refresh change what the heads      *)
(* name.                                                                   *)
LEMMA CommitStep ==
  ASSUME IInv, NEW c \in Layout("mat"), NEW dep \in {0, 1}, Commit(c, dep), temp' = temp
  PROVE  IInv'
  <1>. DEFINE C == [content : Layout("mat"), dep : {0, 1}]
              x == [content |-> c, dep |-> dep]
  <1>1. mat \in Seq(C) /\ pin \in 1..Len(mat) /\ unified \in BOOLEAN
    BY DEF IInv, WellTyped, Repositories
  <1>2. mat' = Append(mat, x) /\ UNCHANGED <<pin, unified, files, db>> /\ x \in C
    BY DEF Commit
  <1>. HIDE DEF C, x
  <1>3. mat' \in Seq(C) /\ Len(mat') = Len(mat) + 1 /\ Len(mat) \in Nat
    BY <1>1, <1>2
  <1>4. pin' \in 1..Len(mat')
    BY <1>1, <1>2, <1>3
  <1>5. WellTyped'
    BY <1>1, <1>2, <1>3, <1>4 DEF WellTyped, Repositories, C, Layout
  <1>6. Extended(files, files') /\ Evidence(files') /\ DbSound(db', files')
    BY <1>2 DEF Extended, Continued, IInv
  <1>. QED
    BY <1>5, <1>6, Command

(* The pin moves within the history.                                       *)
LEMMA PinStep ==
  ASSUME IInv, Pin \/ Unify, temp' = temp
  PROVE  IInv'
  <1>1. mat' = mat /\ files' = files /\ db' = db /\ pin' \in {pin, Len(mat)} /\ unified' \in {unified, TRUE}
    BY DEF Pin, Unify
  <1>2. Len(mat) \in Nat /\ pin \in 1..Len(mat)
    <2>. DEFINE C == [content : Layout("mat"), dep : {0, 1}]
    <2>1. mat \in Seq(C) /\ pin \in 1..Len(mat)
      BY DEF IInv, WellTyped, Repositories
    <2>. HIDE DEF C
    <2>. QED
      BY <2>1
  <1>3. WellTyped'
    <2>1. pin' \in 1..Len(mat)
      BY <1>1, <1>2
    <2>2. unified' \in BOOLEAN
      BY <1>1 DEF IInv, WellTyped
    <2>. QED
      BY <1>1, <2>1, <2>2 DEF IInv, WellTyped
  <1>4. Extended(files, files') /\ Evidence(files') /\ DbSound(db', files')
    BY <1>1 DEF Extended, Continued, IInv
  <1>. QED
    BY <1>3, <1>4, Command

(* Only heads change.                                                      *)
LEMMA RefreshStep ==
  ASSUME IInv, NEW answered \in BOOLEAN, Refresh(answered), temp' = temp
  PROVE  IInv'
  <1>1. db' \in {RefreshHeads(db), MarkAllStale(db)} /\ UNCHANGED <<mat, pin, unified, files>>
    BY DEF Refresh
  <1>2. SameTables(db, db')
    BY <1>1, HeadsRefreshed DEF IInv, DbSound, RowsSound
  <1>3. DbSound(db', files)
    BY <1>2, HeadsWritten DEF IInv
  <1>. QED
    BY <1>1, <1>3, Written

-----------------------------------------------------------------------------
(* The receipts.                                                           *)

(* The tools write receipts that rest on what they checked.                *)
LEMMA PathStep ==
  ASSUME IInv, NEW r \in db.reviews, EmitPath(r), temp' = temp
  PROVE  IInv'
  <1>1. PICK x : /\ x.kind = "path" /\ x.id = NewId /\ x.source = r.subject
                 /\ files' = files \cup {x} /\ UNCHANGED <<mat, pin, unified, db>>
    <2>. DEFINE x == [kind |-> "path", id |-> NewId, review |-> r.id, ev |-> r.ev,
                      source |-> r.subject, target |-> MatSubject(pin)]
    <2>1. /\ x.kind = "path" /\ x.id = NewId /\ x.source = r.subject
          /\ files' = files \cup {x} /\ UNCHANGED <<mat, pin, unified, db>>
      BY DEF EmitPath, Emit
    <2>. QED
      BY <2>1
  <1>2. r.subject.content \in Contents
    BY DEF IInv, DbSound, RowsSound, RowSound
  <1>3. FileSound(x, files)
    BY <1>1, <1>2 DEF FileSound
  <1>. QED
    BY <1>1, <1>3, Emitted

(* A recovery names a passing result.                                      *)
LEMMA RecoverStep ==
  ASSUME IInv, NEW f \in files, Recover(f), temp' = temp
  PROVE  IInv'
  <1>. DEFINE x == Recovery(NewId, f, files)
  <1>1. x.kind = "recovery" /\ x.id = NewId
    BY DEF Recovery
  <1>2. files' = files \cup {x} /\ UNCHANGED <<mat, pin, unified, db>>
    BY DEF Recover, Emit
  <1>. HIDE DEF x
  <1>3. FileSound(x, files)
    BY <1>1 DEF FileSound
  <1>. QED
    BY <1>1, <1>2, <1>3, Emitted

(* A scope binding is about a bundle whose body was vouched for.           *)
LEMMA ScopeStep ==
  ASSUME IInv, NEW f \in files, NEW rule \in RebindRules, NEW c \in Layout("pack"),
         BindScope(f, rule, c), temp' = temp
  PROVE  IInv'
  <1>1. PICK x : /\ x.kind = "scope" /\ x.id = NewId /\ x.subject.content = c
                 /\ files' = files \cup {x} /\ UNCHANGED <<mat, pin, unified, db>>
    <2>. DEFINE x == [kind |-> "scope", id |-> NewId, ev |-> f.id, primary |-> Primary(f.subject.content),
                      rule |-> rule, subject |-> Subject("workspace", 0, c)]
    <2>1. /\ x.kind = "scope" /\ x.id = NewId /\ x.subject.content = c
          /\ files' = files \cup {x} /\ UNCHANGED <<mat, pin, unified, db>>
      BY DEF BindScope, Emit, Subject
    <2>. QED
      BY <2>1
  <1>2. c.body = f.subject.content.body
    BY DEF BindScope, Primary
  <1>3. f.subject.content.body \in Vouched(files)
    <2>1. f \in files /\ IsPass(f)
      BY DEF BindScope
    <2>. QED
      BY <2>1 DEF Vouched
  <1>4. FileSound(x, files)
    BY <1>1, <1>2, <1>3 DEF FileSound
  <1>. QED
    BY <1>1, <1>4, Emitted

(* A build is evidence of no review.                                       *)
LEMMA BuildStep ==
  ASSUME IInv, Build, temp' = temp
  PROVE  IInv'
  <1>. DEFINE x == [kind |-> "build", id |-> NewId, commit |-> pin]
  <1>1. x.kind = "build" /\ x.id = NewId /\ files' = files \cup {x} /\ UNCHANGED <<mat, pin, unified, db>>
    BY DEF Build
  <1>. HIDE DEF x
  <1>2. FileSound(x, files)
    BY <1>1 DEF FileSound
  <1>. QED
    BY <1>1, <1>2, Emitted

(* A delta's source and target have the same body.                         *)
LEMMA DeltaStep ==
  ASSUME IInv, NEW g \in files, NEW y \in files, EmitDelta(g, y), temp' = temp
  PROVE  IInv'
  <1>1. PICK x : /\ x.kind = "delta" /\ x.id = NewId /\ x.source = y.subject /\ x.target = MatSubject(pin)
                 /\ files' = files \cup {x} /\ UNCHANGED <<mat, pin, unified, db>>
    <2>. DEFINE x == [kind |-> "delta", id |-> NewId, recovery |-> g, scope |-> y,
                      source |-> y.subject, target |-> MatSubject(pin), dep |-> mat[pin].dep]
    <2>1. /\ x.kind = "delta" /\ x.id = NewId /\ x.source = y.subject /\ x.target = MatSubject(pin)
          /\ files' = files \cup {x} /\ UNCHANGED <<mat, pin, unified, db>>
      BY DEF EmitDelta, Emit
    <2>. QED
      BY <2>1
  <1>2. y.subject.content.layout = "pack"
    <2>1. CASE y = g
      <3>1. PICK f \in files : InPack(f) /\ g = Recovery(g.id, f, files)
        BY DEF EmitDelta, ValidRecovery
      <3>2. f.subject.content \in Layout("pack")
        BY <3>1, PackFile DEF IInv
      <3>3. g.subject.content = f.subject.content
        BY <3>1 DEF Recovery, FromInput, Subject
      <3>. QED
        BY <2>1, <3>2, <3>3 DEF Layout
    <2>2. CASE y.kind = "scope"
      <3>1. FileSound(y, files)
        BY DEF IInv, Evidence
      <3>. QED
        BY <2>2, <3>1 DEF FileSound, Layout
    <2>. QED
      BY <2>1, <2>2 DEF EmitDelta, IsScope
  <1>3. SameDeclarations(y.subject.content, MatSubject(pin).content)
    BY DEF EmitDelta, MatSubject, Subject
  <1>4. FileSound(x, files)
    BY <1>1, <1>2, <1>3 DEF FileSound
  <1>. QED
    BY <1>1, <1>4, Emitted

(* A bridge joins bundles with the same declarations.                      *)
LEMMA BridgeStep ==
  ASSUME IInv, NEW type \in DOMAIN Capability, NEW g, NEW source, EmitBridge(type, g, source), temp' = temp
  PROVE  IInv'
  <1>1. PICK x : /\ x.kind = "bridge" /\ x.id = NewId /\ x.type = type
                 /\ x.source = source /\ x.target = MatSubject(pin)
                 /\ files' = files \cup {x} /\ UNCHANGED <<mat, pin, unified, db>>
    <2>. DEFINE x == [kind |-> "bridge", id |-> NewId, type |-> type, authority |-> g,
                      source |-> source, target |-> MatSubject(pin), dep |-> mat[pin].dep]
    <2>1. /\ x.kind = "bridge" /\ x.id = NewId /\ x.type = type
          /\ x.source = source /\ x.target = MatSubject(pin)
          /\ files' = files \cup {x} /\ UNCHANGED <<mat, pin, unified, db>>
      BY DEF EmitBridge, Emit
    <2>. QED
      BY <2>1
  <1>2. SameDeclarations(source.content, MatSubject(pin).content)
    BY DEF EmitBridge, MatSubject, Subject
  <1>3. FileSound(x, files)
    BY <1>1, <1>2 DEF FileSound
  <1>. QED
    BY <1>1, <1>3, Emitted

(* An application that is marked invalid is still the application it was.  *)
LEMMA InvalidateStep ==
  ASSUME IInv, NEW g \in files, Invalidate(g), temp' = temp
  PROVE  IInv'
  <1>. DEFINE x == [g EXCEPT !.invalidated = TRUE]
  <1>1. /\ g.kind = "mat" /\ files' = (files \ {g}) \cup {x} /\ UNCHANGED <<mat, pin, unified, db>>
    BY DEF Invalidate
  <1>2. DOMAIN g = {"kind", "id", "ev", "review", "subject", "invalidated"} /\ FileSound(g, files)
    BY <1>1 DEF IInv, Evidence, FileSound
  <1>3. /\ x.kind = "mat" /\ x.id = g.id /\ x.ev = g.ev /\ x.subject = g.subject
        /\ DOMAIN x = DOMAIN g
    BY <1>1, <1>2
  <1>. HIDE DEF x
  <1>4. Continued(g, x)
    BY <1>1, <1>3 DEF Continued
  <1>5. Extended(files, files')
    BY <1>1, <1>4 DEF Extended, Continued
  <1>6. FileSound(g, files')
    BY <1>2, <1>5, FileStays
  <1>7. FileSound(x, files')
    BY <1>1, <1>2, <1>3, <1>6 DEF FileSound
  <1>8. Evidence(files')
    BY <1>1, <1>3, <1>4, <1>7, Replaced DEF IInv
  <1>9. DbSound(db', files')
    BY <1>1, <1>5, <1>8, DbStays DEF IInv
  <1>10. WellTyped'
    BY <1>1 DEF IInv, WellTyped
  <1>. QED
    BY <1>5, <1>8, <1>9, <1>10, Command

(* A resolution names a passing result.                                    *)
LEMMA ResolveStep ==
  ASSUME IInv, NEW g \in files, Resolve(g), temp' = temp
  PROVE  IInv'
  <1>1. PICK x : /\ x.kind = "resolved" /\ x.id = NewId /\ x.ev = g.ev /\ x.target = MatSubject(pin)
                 /\ files' = files \cup {x} /\ UNCHANGED <<mat, pin, unified, db>>
    <2>. DEFINE x == [kind |-> "resolved", id |-> NewId, ev |-> g.ev,
                      target |-> MatSubject(pin), dep |-> mat[pin].dep]
    <2>1. /\ x.kind = "resolved" /\ x.id = NewId /\ x.ev = g.ev /\ x.target = MatSubject(pin)
          /\ files' = files \cup {x} /\ UNCHANGED <<mat, pin, unified, db>>
      BY DEF Resolve, Emit
    <2>. QED
      BY <2>1
  <1>2. g \in Of("mat", files) /\ g.subject.content = MatSubject(pin).content
    BY DEF Resolve, Of, MatSubject, Subject
  <1>3. PICK f \in Of("result", files) :
           f.id = g.ev /\ f.subject = g.subject /\ IsPass(f) /\ f.modern = TRUE
    BY <1>2, ReceiptFile DEF IInv
  <1>4. f \in Passes(x.ev, files) /\ f.modern /\ x.target.content.body \in Vouched(files)
    BY <1>1, <1>2, <1>3 DEF Passes, Of, Vouched
  <1>5. FileSound(x, files)
    BY <1>1, <1>4 DEF FileSound
  <1>. QED
    BY <1>1, <1>5, Emitted

(* A relocation moves a bundle whose body does not change, and with it a   *)
(* binding.                                                                *)
LEMMA RelocateStep ==
  ASSUME IInv, Relocate, temp' = temp
  PROVE  IInv'
  <1>. DEFINE c == mat[pin].content
  <1>1. PICK route, source, record :
           /\ Emit(Batch(route, source, record)) /\ UNCHANGED <<mat, pin, unified, db>>
           /\ \/ route = "direct_review" /\ \E r \in Direct(c) : source = r.subject
              \/ /\ route = "validated_transformation"
                 /\ \E p \in Transformed(c) : source = p[1].target /\ record.edge = p[1]
              \/ /\ route = "typed_evidence_bridge" /\ \E b \in Typed(c) : source = b.source
    <2>1. UNCHANGED <<mat, pin, unified, db>>
      BY DEF Relocate
    <2>2. CASE \E r \in Direct(c) : Emit(Batch("direct_review", r.subject, None))
      BY <2>1, <2>2
    <2>3. CASE \E p \in Transformed(c) :
                  Emit(Batch("validated_transformation", p[1].target, [edge |-> p[1], review |-> p[2].id, ev |-> p[2].ev]))
      <3>1. PICK p \in Transformed(c) :
                  Emit(Batch("validated_transformation", p[1].target, [edge |-> p[1], review |-> p[2].id, ev |-> p[2].ev]))
        BY <2>3
      <3>2. [edge |-> p[1], review |-> p[2].id, ev |-> p[2].ev].edge = p[1]
        OBVIOUS
      <3>. QED
        BY <2>1, <3>1, <3>2
    <2>4. CASE \E b \in Typed(c) : Emit(Batch("typed_evidence_bridge", b.source, [type |-> b.type]))
      BY <2>1, <2>4
    <2>. QED
      BY <2>2, <2>3, <2>4 DEF Relocate
  <1>. DEFINE x == Batch(route, source, record)
  <1>2. /\ x.kind = "batch" /\ x.id = NewId /\ x.route = route /\ x.source = source
        /\ x.record = record /\ x.old.content = c /\ x.new.content = c
    BY PinnedBundle DEF Batch, IInv
  <1>3. files' = files \cup {x}
    BY <1>1 DEF Emit
  <1>. HIDE DEF x
  <1>4. c.layout = "mat"
    BY PinnedBundle DEF IInv
  <1>. HIDE DEF c
  <1>5. BatchSound(x, files)
    <2>1. CASE route = "direct_review"
      BY <1>1, <1>2, <1>4, <2>1 DEF BatchSound, Direct
    <2>2. CASE route = "validated_transformation"
      <3>1. PICK p \in Transformed(c) : source = p[1].target /\ record.edge = p[1]
        BY <1>1, <2>2
      <3>2. p[1] \in db.edges /\ p[1].target.content = c
        BY <3>1 DEF Transformed
      <3>3. EdgeSound(p[1])
        BY <3>2 DEF IInv, DbSound
      <3>. QED
        BY <1>2, <1>4, <2>2, <3>1, <3>2, <3>3 DEF BatchSound
    <2>3. CASE route = "typed_evidence_bridge"
      <3>1. PICK b \in Typed(c) : source = b.source
        BY <1>1, <2>3
      <3>2. b \in db.bindings /\ b.target.content = c
        BY <3>1 DEF Typed, ValidBindings
      <3>3. BindingSound(b, files)
        BY <3>2 DEF IInv, DbSound
      <3>. QED
        BY <1>2, <1>4, <2>3, <3>1, <3>2, <3>3 DEF BatchSound, BindingSound
    <2>. QED
      BY <1>1, <2>1, <2>2, <2>3
  <1>6. FileSound(x, files)
    BY <1>2, <1>5 DEF FileSound
  <1>. QED
    BY <1>1, <1>2, <1>3, <1>6, Emitted

-----------------------------------------------------------------------------
(* The rebuild.                                                            *)

(* What a rebuild imports agrees with the files it was imported from.      *)
LEMMA ImportedDb ==
  ASSUME WellTyped, Evidence(files)
  PROVE  DbSound(Import(files), files)
  <1>1. RowsSound(Import(files), files) /\ Landed(Import(files), files)
    BY ImportSound
  <1>. QED
    BY <1>1 DEF DbSound, Landed, LandedEdge

(* The head that a rebuild requires to be reached is covered in its        *)
(* database.                                                               *)
LEMMA RequiredIsCovered ==
  ASSUME WellTyped, NEW F, Evidence(F), NEW role, Required(Import(F), role)
  PROVE  Covered(Import(F), Import(F).heads[role].subject)
  <1>. DEFINE d == Import(F)
              s == d.heads[role].subject
  <1>1. Landed(d, F)
    BY ImportSound
  <1>2. s \in Reach(d) \/ AuthorityCoverage(d, s)
    BY DEF Required
  <1>. HIDE DEF d
  <1>3. s \in Reach(d) => ReviewCoverage(d, s)
    BY <1>1, ReachIsCovered
  <1>. QED
    BY <1>2, <1>3 DEF Covered, d

(* A rebuild begins: its database agrees with the files and shows the      *)
(* receipts of its inventory.                                              *)
LEMMA BeginStep ==
  ASSUME IInv, RebuildBegin
  PROVE  IInv'
  <1>1. /\ temp' = [db |-> Import(files), role |-> CurrentRole, inventory |-> files]
        /\ Required(Import(files), CurrentRole) /\ UNCHANGED <<mat, pin, unified, files, db>>
    BY DEF RebuildBegin, toolVars
  <1>2. WellTyped /\ Evidence(files)
    BY DEF IInv
  <1>3. DbSound(Import(files), files)
    BY <1>2, ImportedDb
  <1>4. Shown(Import(files), Receipts(files)) /\ Adopted(Import(files), Of("pr", files))
    BY <1>2, ImportSound
  <1>5. Covered(Import(files), Import(files).heads[CurrentRole].subject)
    BY <1>1, <1>2, RequiredIsCovered
  <1>6. /\ temp'.db = Import(files) /\ temp'.role = CurrentRole /\ temp'.inventory = files
        /\ files' = files
    BY <1>1
  <1>7. Of("pr", files) \subseteq files
    BY DEF Of
  <1>8. TempInv'
    BY <1>3, <1>4, <1>5, <1>6, <1>7 DEF TempInv
  <1>9. WellTyped' /\ Evidence(files') /\ DbSound(db', files')
    BY <1>1 DEF IInv, WellTyped
  <1>. QED
    BY <1>8, <1>9 DEF IInv

(* It is swapped in, or the process dies and leaves the database there     *)
(* was.                                                                    *)
LEMMA SwapStep ==
  ASSUME IInv, RebuildSwap \/ RebuildDies
  PROVE  IInv'
  <1>1. UNCHANGED <<mat, pin, unified, files>> /\ temp' = None
    BY DEF RebuildSwap, RebuildDies, toolVars
  <1>2. DbSound(db', files)
    BY DEF RebuildSwap, RebuildDies, toolVars, IInv, TempInv
  <1>3. TempInv'
    BY <1>1 DEF TempInv
  <1>. QED
    BY <1>1, <1>2, <1>3 DEF IInv, WellTyped

(* A start has evidence on disk, and the database of its last rebuild or   *)
(* an empty one.                                                           *)
LEMMA InitStep ==
  ASSUME Init
  PROVE  IInv
  <1>1. PICK s \in Starts : mat = s.mat /\ pin = s.pin /\ unified = s.unified /\ files = s.files
    BY DEF Init
  <1>2. WellTyped /\ Evidence(files)
    BY <1>1, StartsAssumption DEF WellTyped
  <1>3. DbSound(EmptyDb, files) /\ IsDb(EmptyDb)
    BY DEF EmptyDb, DbSound, RowsSound, IsDb, Apart
  <1>4. DbSound(RefreshHeads(EmptyDb), files)
    BY <1>3, HeadsRefreshed, HeadsWritten
  <1>5. DbSound(Import(files), files)
    BY <1>2, ImportedDb
  <1>6. DbSound(db, files)
    BY <1>4, <1>5 DEF Init
  <1>7. TempInv
    BY DEF Init, TempInv
  <1>. QED
    BY <1>2, <1>6, <1>7 DEF IInv

(* Every step preserves the invariant.                                     *)
LEMMA NextStep ==
  ASSUME IInv, [Next]_vars
  PROVE  IInv'
  <1>1. CASE UNCHANGED vars
    BY <1>1 DEF vars, toolVars, IInv, WellTyped, TempInv
  <1>2. CASE Reviewer /\ temp' = temp
    <2>1. PICK verdict \in {"pass", "fail"} :
             \/ \E c \in Layout("pack") : Answer(Reviewed(c), verdict) \/ Answer(PullRequest(c), verdict)
             \/ AtCurrentCommit /\ Answer(MatSubject(pin), verdict)
      BY <1>2 DEF Reviewer
    <2>2. \A c \in Layout("pack") : Reviewed(c) \in ReviewSubjects /\ PullRequest(c) \in ReviewSubjects
      BY DEF Reviewed, PullRequest, Subject, ReviewSubjects
    <2>3. MatSubject(pin) \in ReviewSubjects
      <3>1. pin \in Nat
        <4>1. pin \in 1..Len(mat)
          BY DEF IInv, WellTyped
        <4>. QED
          BY <4>1
      <3>2. mat[pin].content \in Layout("mat")
        BY PinnedBundle DEF IInv, Layout
      <3>. QED
        BY <3>1, <3>2 DEF MatSubject, Subject, ReviewSubjects
    <2>. QED
      BY <1>2, <2>1, <2>2, <2>3, AnswerStep
  <1>3. CASE Apply /\ temp' = temp
    <2>1. PICK f \in files :
             \/ \E upto \in {"verify", "review", "edge", "receipt"}, success \in BOOLEAN :
                    ReviewApply(f, success, upto)
             \/ \E upto \in {"review", "head", "receipt"} : MatApply(f, upto)
             \/ \E upto \in {"receipt", "review"} : PrAdopt(f, upto)
             \/ PrApply(f)
      BY <1>3 DEF Apply
    <2>. QED
      BY <1>3, <2>1, ReviewApplyStep, MatApplyStep, PrAdoptStep, PrApplyStep
  <1>4. CASE Tool /\ temp' = temp
    <2>1. ASSUME NEW r \in db.reviews, EmitPath(r) PROVE IInv'
      BY <1>4, <2>1, PathStep
    <2>2. ASSUME NEW f \in files, Recover(f) \/ Invalidate(f) \/ Resolve(f) PROVE IInv'
      BY <1>4, <2>2, RecoverStep, InvalidateStep, ResolveStep
    <2>3. ASSUME NEW f \in files, NEW rule \in RebindRules, NEW c \in Layout("pack"), BindScope(f, rule, c)
          PROVE  IInv'
      BY <1>4, <2>3, ScopeStep
    <2>4. ASSUME NEW f \in files, NEW x \in files, EmitDelta(f, x) PROVE IInv'
      BY <1>4, <2>4, DeltaStep
    <2>5. ASSUME NEW type \in DOMAIN Capability, NEW g, NEW source, EmitBridge(type, g, source) PROVE IInv'
      BY <1>4, <2>5, BridgeStep
    <2>6. AuthorRoutes \subseteq DOMAIN Capability
      BY DEF AuthorRoutes, Capability
    <2>7. ASSUME NEW f \in files, NEW type \in DOMAIN Capability \ AuthorRoutes, EmitBridge(type, f, f.subject)
          PROVE  IInv'
      BY <2>5, <2>7
    <2>8. ASSUME NEW type \in AuthorRoutes, NEW g, NEW source, EmitBridge(type, g, source) PROVE IInv'
      BY <2>5, <2>6, <2>8
    <2>9. CASE Build
      BY <1>4, <2>9, BuildStep
    <2>10. CASE Relocate
      BY <1>4, <2>10, RelocateStep
    <2>. QED
      BY <1>4, <2>1, <2>2, <2>3, <2>4, <2>7, <2>8, <2>9, <2>10 DEF Tool
  <1>5. CASE Repository /\ temp' = temp
    BY <1>5, CommitStep, PinStep, RefreshStep DEF Repository
  <1>6. CASE RebuildBegin
    BY <1>6, BeginStep
  <1>7. CASE RebuildSwap \/ RebuildDies
    BY <1>7, SwapStep
  <1>. QED
    BY <1>1, <1>2, <1>3, <1>4, <1>5, <1>6, <1>7 DEF Next

-----------------------------------------------------------------------------
(* What holds of every behaviour.                                         *)

(* After any commands, kills and rebuilds, every row, edge and binding of  *)
(* the state database agrees with the evidence on disk, and so do those of *)
(* a rebuild in progress: the invariant all the theorems below rest on.    *)
THEOREM Invariance == Spec => []IInv
  <1>1. Init => IInv
    BY InitStep
  <1>2. IInv /\ [Next]_vars => IInv'
    BY NextStep
  <1>. QED
    BY <1>1, <1>2, PTL DEF Spec

(* The histories, the pin and the identities of files and rows are what    *)
(* the code makes them: no two rows under one primary key, in the database *)
(* and in one that a rebuild has in hand.                                  *)
THEOREM TypeCorrect == Spec => []TypeOK
  <1>1. IInv => TypeOK
    <2>. SUFFICES ASSUME IInv PROVE TypeOK
      OBVIOUS
    <2>1. \A n \in 1..Len(mat) : mat[n].content \in Contents
      <3>. DEFINE C == [content : Layout("mat"), dep : {0, 1}]
      <3>1. mat \in Seq(C)
        BY DEF IInv, WellTyped, Repositories
      <3>. HIDE DEF C
      <3>2. \A n \in 1..Len(mat) : mat[n] \in C
        BY <3>1
      <3>. QED
        BY <3>2 DEF C, Layout
    <2>2. \A f, g \in files : f.id = g.id => f = g
      BY DEF IInv, Evidence
    <2>3. ASSUME NEW d, DbSound(d, files)
          PROVE  /\ \A r, q \in d.reviews : SameReview(r, q) => r = q
                 /\ \A e, x \in d.edges : SameEdge(e, x) => e = x
                 /\ \A b, x \in d.bindings :
                       b.target = x.target /\ Capability[b.type] = Capability[x.type] => b = x
      BY <2>3 DEF DbSound, RowsSound, Apart
    <2>4. DbSound(db, files) /\ (temp # None => DbSound(temp.db, files))
      BY DEF IInv, TempInv
    <2>5. \A d \in {db} \cup (IF temp = None THEN {} ELSE {temp.db}) : DbSound(d, files)
      BY <2>4
    <2>. QED
      BY <2>1, <2>2, <2>3, <2>5 DEF TypeOK, IInv, WellTyped
  <1>. QED
    BY <1>1, Invariance, PTL

(* Neither commands nor rebuilds give the status commands reason to report *)
(* a bundle as covered (review_coverage, authority_coverage) unless an     *)
(* independent reviewer passed its declarations or the author decided on   *)
(* them.                                                                   *)
THEOREM GroundedAuthority == Spec => []Grounded
  <1>1. IInv => Grounded
    <2>. SUFFICES ASSUME IInv, NEW s, Covered(db, s) PROVE s.content.body \in Vouched(files)
      BY DEF Grounded
    <2>1. DbSound(db, files)
      BY DEF IInv
    <2>2. ASSUME NEW r \in db.reviews, Authority(r) PROVE r.subject.content.body \in Vouched(files)
      BY <2>1, <2>2 DEF DbSound, RowsSound, RowSound, Authority, Eligible
    <2>3. CASE \E r \in db.reviews : Authority(r) /\ r.subject.content = s.content
      BY <2>2, <2>3
    <2>4. CASE \E e \in db.edges : /\ e.target.content = s.content
                                   /\ \E r \in db.reviews : Authority(r) /\ r.subject = e.source
      <3>1. PICK e \in db.edges : /\ e.target.content = s.content
                                   /\ \E r \in db.reviews : Authority(r) /\ r.subject = e.source
        BY <2>4
      <3>2. EdgeSound(e)
        BY <2>1 DEF DbSound
      <3>. QED
        BY <2>2, <3>1, <3>2 DEF EdgeSound
    <2>5. CASE AuthorityCoverage(db, s)
      <3>1. PICK b \in db.bindings : b.target = s
        BY <2>5 DEF AuthorityCoverage, ValidBindings
      <3>. QED
        BY <2>1, <3>1 DEF DbSound, BindingSound
    <2>. QED
      BY <2>3, <2>4, <2>5 DEF Covered, ReviewCoverage
  <1>. QED
    BY <1>1, Invariance, PTL

(* An upsert of what a result file says takes no authority.                *)
LEMMA AuthorityKept ==
  ASSUME IInv, NEW row, IsReview(row), db'.reviews = RecordReview(db, row).reviews,
         \/ row.modern = None
         \/ \E f \in Of("result", files) :
               row.ev = f.id /\ row.subject = f.subject /\ row.modern \in {f.modern, TRUE}
  PROVE  \A r \in db.reviews : Authority(r) => \E q \in db'.reviews : SameReview(q, r) /\ Authority(q)
  <1>. SUFFICES ASSUME NEW r \in db.reviews, Authority(r)
                PROVE  \E q \in db'.reviews : SameReview(q, r) /\ Authority(q)
    OBVIOUS
  <1>. DEFINE n == RecordReview(db, row)
  <1>1. /\ IsDb(db) /\ \A q \in db.reviews : IsRow(q) /\ q.eligible \in BOOLEAN
        /\ RowSound(r, files) /\ IsRow(row) /\ row.eligible \in BOOLEAN
    BY DEF IInv, DbSound, RowsSound, RowSound, IsReview
  <1>2. PICK q \in n.reviews :
           /\ SameReview(q, r) /\ Eligible(q) /\ q.scope = r.scope
           /\ \/ q.modern = r.modern
              \/ SameReview(row, r) /\ row.modern # None /\ q.modern = row.modern
    BY <1>1, OneUpsert DEF Authority
  <1>. HIDE DEF n
  <1>3. CASE q.modern = r.modern \/ r.scope = PrScope
    BY <1>2, <1>3 DEF Authority, Modern, PrScope, n
  <1>4. CASE /\ SameReview(row, r) /\ row.modern # None /\ q.modern = row.modern
             /\ r.scope # PrScope
    <2>1. r.modern = TRUE
      BY <1>4 DEF Authority, Modern, PrScope
    <2>2. PICK f \in Of("result", files) :
               row.ev = f.id /\ row.subject = f.subject /\ row.modern \in {f.modern, TRUE}
      BY <1>4
    <2>3. r.modern \in {None, f.modern}
      BY <1>1, <1>4, <2>2 DEF RowSound, SameReview
    <2>4. q.modern = TRUE
      BY <1>4, <2>1, <2>2, <2>3, ContentsAssumption
    <2>. QED
      BY <1>2, <2>4 DEF Authority, Modern, n
  <1>. QED
    BY <1>2, <1>3, <1>4

(* No command but a rebuild takes authority from a review: record_review   *)
(* merges a weaker row into the stronger one, and no other statement of a  *)
(* command writes to the table.                                            *)
THEOREM EligibilityIsKept == Spec => EligibilityKept
  <1>. DEFINE Keeps == \A r \in db.reviews : Authority(r) =>
                          \E q \in db'.reviews : SameReview(q, r) /\ Authority(q)
  <1>1. IInv /\ [Next]_vars => [~RebuildSwap => Keeps]_vars
    <2>. SUFFICES ASSUME IInv, Next, ~RebuildSwap PROVE Keeps
      OBVIOUS
    <2>1. ASSUME db'.reviews = db.reviews PROVE Keeps
      BY <2>1 DEF SameReview
    <2>2. ASSUME NEW f \in files, NEW upto, NEW success \in BOOLEAN, ReviewApply(f, success, upto)
          PROVE  Keeps
      <3>. DEFINE row == Review(f.id, f.subject, f.verdict, Phase2Scope, success, f.modern)
                  edge == Edge(f.subject, Output(f.subject.content), "review_apply_output_relocation", f.id)
                  n == RecordReview(db, row)
      <3>1. /\ f \in Of("result", files)
            /\ db' \in {db, n, RecordTransformation(n, edge)}
        BY <2>2 DEF ReviewApply, InPack, Of
      <3>2. IsReview(row) /\ row.ev = f.id /\ row.subject = f.subject /\ row.modern = f.modern
        BY DEF Review, IsReview, IsRow
      <3>. HIDE DEF row
      <3>3. IsDb(n)
        <4>1. /\ IsDb(db) /\ IsRow(row) /\ row.eligible \in BOOLEAN
              /\ \A q \in db.reviews : IsRow(q) /\ q.eligible \in BOOLEAN
          BY <3>2 DEF IInv, DbSound, RowsSound, RowSound, IsReview
        <4>. QED
          BY <4>1, OneUpsert
      <3>. HIDE DEF n, edge
      <3>4. db'.reviews = db.reviews \/ db'.reviews = n.reviews
        BY <3>1, <3>3, OneEdge DEF SameReviews
      <3>. QED
        BY <2>1, <3>1, <3>2, <3>4, AuthorityKept DEF n
    <2>3. ASSUME NEW f \in files, NEW upto, MatApply(f, upto) PROVE Keeps
      <3>. DEFINE row == Review(f.id, MatSubject(pin), f.verdict, MatScope, IsPass(f), TRUE)
                  n == RecordReview(db, row)
      <3>1. /\ f \in Of("result", files) /\ f.subject = MatSubject(pin)
            /\ db' \in {n, SetHead(n, "mat_main", MatSubject(pin))}
        BY <2>3 DEF MatApply, Of
      <3>2. IsReview(row) /\ row.ev = f.id /\ row.subject = MatSubject(pin) /\ row.modern = TRUE
        BY DEF Review, IsReview, IsRow, IsPass
      <3>. HIDE DEF row
      <3>3. IsDb(n)
        <4>1. /\ IsDb(db) /\ IsRow(row) /\ row.eligible \in BOOLEAN
              /\ \A q \in db.reviews : IsRow(q) /\ q.eligible \in BOOLEAN
          BY <3>2 DEF IInv, DbSound, RowsSound, RowSound, IsReview
        <4>. QED
          BY <4>1, OneUpsert
      <3>. HIDE DEF n
      <3>4. db'.reviews = n.reviews
        BY <3>1, <3>3, OneHead DEF SameTables
      <3>. QED
        BY <3>1, <3>2, <3>4, AuthorityKept DEF n
    <2>4. ASSUME NEW f \in files, NEW upto, PrAdopt(f, upto) PROVE Keeps
      <3>. DEFINE row == Review(NewId, f.subject, "pass", PrScope, TRUE, None)
      <3>1. db' = db \/ db' = RecordReview(db, row)
        BY <2>4 DEF PrAdopt
      <3>2. IsReview(row) /\ row.modern = None
        BY DEF Review, IsReview, IsRow
      <3>. HIDE DEF row
      <3>. QED
        BY <2>1, <3>1, <3>2, AuthorityKept
    <2>5. ASSUME NEW f \in files, PrApply(f) PROVE Keeps
      <3>. DEFINE row == Review(f.id, f.subject, f.verdict, PrScope, IsPass(f), None)
      <3>1. db' = RecordReview(db, row)
        BY <2>5 DEF PrApply
      <3>2. IsReview(row) /\ row.modern = None
        BY DEF Review, IsReview, IsRow, IsPass
      <3>. HIDE DEF row
      <3>. QED
        BY <3>1, <3>2, AuthorityKept
    <2>6. CASE Apply
      BY <2>2, <2>3, <2>4, <2>5, <2>6 DEF Apply
    <2>7. CASE Reviewer
      BY <2>1, <2>7 DEF Reviewer, Answer
    <2>8. CASE Tool
      <3>1. db' = db
        BY <2>8 DEF Tool, EmitPath, Recover, Invalidate, Resolve, BindScope, EmitDelta, EmitBridge,
                    Build, Relocate
      <3>. QED
        BY <2>1, <3>1
    <2>9. CASE Repository
      <3>1. db' \in {db, RefreshHeads(db), MarkAllStale(db)}
        BY <2>9 DEF Repository, Commit, Pin, Unify, Refresh
      <3>2. SameTables(db, RefreshHeads(db)) /\ SameTables(db, MarkAllStale(db))
        BY HeadsRefreshed DEF IInv, DbSound, RowsSound
      <3>. QED
        BY <2>1, <3>1, <3>2 DEF SameTables
    <2>10. CASE RebuildBegin \/ RebuildDies
      BY <2>1, <2>10 DEF RebuildBegin, RebuildDies, toolVars
    <2>. QED
      BY <2>6, <2>7, <2>8, <2>9, <2>10 DEF Next
  <1>. QED
    BY <1>1, Invariance, PTL DEF Spec, EligibilityKept

(* A rebuild that is swapped in keeps the authority of every review whose  *)
(* receipt is in its inventory, whatever order the importers read the      *)
(* files in.                                                               *)
THEOREM ReceiptsDoSurvive == Spec => ReceiptsSurvive
  <1>. DEFINE Keeps == \A r \in db.reviews : Authority(r) /\ Receipted(r, temp.inventory) =>
                          \E q \in db'.reviews : SameReview(q, r) /\ Authority(q)
  <1>1. IInv /\ [Next]_vars => [RebuildSwap => Keeps]_vars
    <2>. SUFFICES ASSUME IInv, RebuildSwap, NEW r \in db.reviews, Authority(r), Receipted(r, temp.inventory)
                  PROVE  \E q \in db'.reviews : SameReview(q, r) /\ Authority(q)
      OBVIOUS
    <2>1. /\ db' = temp.db /\ DbSound(temp.db, files) /\ Of("pr", temp.inventory) \subseteq files
          /\ Shown(temp.db, Receipts(temp.inventory)) /\ Adopted(temp.db, Of("pr", temp.inventory))
      BY DEF RebuildSwap, IInv, TempInv
    <2>2. RowSound(r, files) /\ \A q \in temp.db.reviews : RowSound(q, files)
      BY <2>1 DEF IInv, DbSound, RowsSound
    <2>3. CASE \E g \in Receipts(temp.inventory) : g.ev = r.ev /\ g.subject = r.subject
      <3>1. PICK g \in Receipts(temp.inventory) : g.ev = r.ev /\ g.subject = r.subject
        BY <2>3
      <3>2. PICK q \in temp.db.reviews :
               q.ev = g.ev /\ q.subject = g.subject /\ q.eligible /\ q.modern = TRUE
        BY <2>1 DEF Shown
      <3>. QED
        BY <2>1, <2>2, <3>1, <3>2 DEF SameReview, Authority, Eligible, Modern, RowSound
    <2>4. CASE \E g \in Of("pr", temp.inventory) : g.id = r.ev
      <3>1. PICK g \in Of("pr", temp.inventory) : g.id = r.ev
        BY <2>4
      <3>2. g \in Of("pr", files)
        BY <2>1 DEF Of
      <3>3. PICK q \in temp.db.reviews : q.ev = g.id /\ q.subject = g.subject
        BY <2>1 DEF Adopted
      <3>4. r.subject = g.subject /\ q.scope = PrScope /\ q.eligible /\ q.verdict = "pass"
        BY <2>2, <3>1, <3>2, <3>3 DEF RowSound
      <3>. QED
        BY <2>1, <3>1, <3>3, <3>4 DEF SameReview, Authority, Eligible, PrScope
    <2>. QED
      BY <2>3, <2>4 DEF Receipted, Receipts
  <1>. QED
    BY <1>1, Invariance, PTL DEF Spec, ReceiptsSurvive

(* A rebuild that is swapped in has the head it was asked for covered, as  *)
(* the status commands see it: the gate follows chains of transformations  *)
(* and the status commands one, and an import makes no chain the gate      *)
(* alone would follow.                                                     *)
THEOREM RebuildsAreReported == Spec => RebuildIsReported
  <1>1. IInv /\ [Next]_vars => [RebuildSwap => Covered(db', temp.db.heads[temp.role].subject)]_vars
    BY DEF RebuildSwap, IInv, TempInv
  <1>. QED
    BY <1>1, Invariance, PTL DEF Spec, RebuildIsReported
=============================================================================
