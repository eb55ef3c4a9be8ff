------------------------------ MODULE TaskIds --------------------------------
(***************************************************************************)
(* The identifiers of tasks (block_id_naming): canonical base ids such as  *)
(* thm_3_4, derived ids such as thm_3_4__lemma_1__main, the aliases of     *)
(* legacy ids and the projection of any id on a canonical one.             *)
(*                                                                         *)
(* An id is a sequence of segments, which "__" separates in the text, and  *)
(* a segment is a sequence of tokens, which "_" separates.  Case, dashes   *)
(* and repeated separators are gone after _normalize_identifier.           *)
(***************************************************************************)
EXTENDS Naturals, FiniteSets, SequencesExt

CONSTANTS Numbers,      \* the tokens made of digits
          Aliases       \* block_id_aliases.json: legacy id -> id

\* Tokens no base id may hold: they introduce derived ids or legacy names.
Reserved == {"lemma", "main", "proof", "task", "parent", "after", "before", "step"}

\* _normalize_identifier drops the parts "__" leaves empty.
Normalize(raw) == SelectSeq(raw, LAMBDA s : s # <<>>)

AreNumbers(tokens) == \A i \in DOMAIN tokens : tokens[i] \in Numbers

\* The syntax of a base id: its prefix, how many numbers follow, and how
\* many free tokens may come after them.
IsBaseSegment(s, profile) ==
    LET n == Len(s)
        Shape(prefix, numbers, tails) ==
            /\ s[1] = prefix /\ n > numbers
            /\ AreNumbers(SubSeq(s, 2, numbers + 1))
            /\ (n - 1 - numbers) \in tails
    IN  IF profile = "cordis"
        THEN \E k \in {"def", "thm", "lem", "cor"} : Shape(k, 1, {0})
        ELSE \/ Shape("intro", 1, {0}) \/ Shape("intro", 2, {0})
             \/ Shape("rem", 2, 1..n) \/ Shape("ex", 2, 1..n)
             \/ Shape("def", 2, 0..n)
             \/ \E k \in {"thm", "prob", "lem", "cor"} : Shape(k, 2, {0})

IsBase(id, profile) ==
    /\ Len(id) = 1
    /\ \A i \in DOMAIN id[1] : id[1][i] \notin Reserved
    /\ IsBaseSegment(id[1], profile)

\* lemma_<n> or main.
IsDerivation(s) == s = <<"main">> \/ (Len(s) = 2 /\ s[1] = "lemma" /\ s[2] \in Numbers)

\* A base and derived segments, "main" only at the end.
IsDerived(id, profile) ==
    /\ Len(id) > 1
    /\ IsBase(<<id[1]>>, profile)
    /\ \A i \in 2..Len(id) : IsDerivation(id[i]) /\ (id[i] = <<"main">> => i = Len(id))

IsBlockId(id, profile) == IsBase(id, profile) \/ IsDerived(id, profile)

\* Aliases are followed until an id has none, or was met before.
ResolveAlias(id) ==
    LET Follow(c, k) == IF c.at \in DOMAIN Aliases \ c.seen
                        THEN [at |-> Aliases[c.at], seen |-> c.seen \cup {c.at}]
                        ELSE c
    IN  FoldLeft(Follow, [at |-> Normalize(id), seen |-> {}],
                 [k \in 1..Cardinality(DOMAIN Aliases) |-> k]).at

Tokens(id) == FlattenSeq(id)

\* The id cut after its first n tokens.
Prefix(id, n) ==
    LET Before(k) == Len(FlattenSeq(SubSeq(id, 1, k - 1)))
        Cut(k) == IF n <= Before(k) THEN <<>>
                  ELSE IF n >= Before(k) + Len(id[k]) THEN id[k]
                  ELSE SubSeq(id[k], 1, n - Before(k))
    IN  Normalize([k \in DOMAIN id |-> Cut(k)])

\* Of the tokens after a base, "main", "lemma n" and "step n" derive an id
\* and the others are dropped.
LegacySuffixes(tokens) ==
    LET Numbered(i) == /\ tokens[i] \in {"lemma", "step"} /\ i < Len(tokens)
                       /\ tokens[i + 1] \in Numbers
        at == SelectSeq([i \in DOMAIN tokens |-> i],
                        LAMBDA i : tokens[i] = "main" \/ Numbered(i))
    IN  [k \in DOMAIN at |-> IF tokens[at[k]] = "main" THEN <<"main">>
                             ELSE <<"lemma", tokens[at[k] + 1]>>]

\* A canonical id is kept; of the others the longest prefix that names a
\* base is taken, with the suffixes after it; what has none is kept too.
Canonicalize(id, profile) ==
    LET resolved == ResolveAlias(id)
        tokens == Tokens(resolved)
        named == {n \in DOMAIN tokens : IsBase(ResolveAlias(Prefix(resolved, n)), profile)}
        longest == CHOOSE n \in named : \A m \in named : m <= n
    IN  IF IsBlockId(resolved, profile) \/ named = {} THEN resolved
        ELSE ResolveAlias(Prefix(resolved, longest))
               \o LegacySuffixes(SubSeq(tokens, longest + 1, Len(tokens)))

\* canonicalize_id_list: in order, each once, empty ids dropped.
CanonicalList(ids, profile) ==
    FoldLeft(LAMBDA out, id : LET c == Canonicalize(id, profile)
                              IN  IF c = <<>> \/ Contains(out, c) THEN out ELSE Append(out, c),
             <<>>, ids)

LegacyIdsFor(id) == {a \in DOMAIN Aliases : Aliases[a] = ResolveAlias(id)}

Base(id) == LET c == Canonicalize(id, "mat") IN IF c = <<>> THEN c ELSE <<c[1]>>

HasParent(id) == IsDerived(Canonicalize(id, "mat"), "mat")
Parent(id) == Front(Canonicalize(id, "mat"))

\* make_derived_id refuses an invalid parent and an index below one.
CanDerive(id, indices, positive, profile) ==
    /\ Canonicalize(id, profile) # <<>> /\ IsBlockId(Canonicalize(id, profile), profile)
    /\ \A k \in DOMAIN indices : indices[k] \in positive
Derived(id, indices, profile) ==
    Canonicalize(id, profile) \o [k \in DOMAIN indices |-> <<"lemma", indices[k]>>]
DerivedMain(id, profile) == Append(Canonicalize(id, profile), <<"main">>)

\* extract_chapter: the first number of an id of a known kind.
HasChapter(id) ==
    LET b == Base(id)
    IN  /\ b # <<>> /\ Len(b[1]) > 1 /\ b[1][2] \in Numbers
        /\ b[1][1] \in {"intro", "rem", "def", "thm", "ex", "prob", "lem", "cor"}
Chapter(id) == Base(id)[1][2]

\* find_block_ids_in_text: the ids a text mentions, by canonical or legacy
\* name.  Of a candidate the first of its names the text holds counts.
Mentioned(text, candidates) ==
    {Canonicalize(c, "mat") : c \in {c \in candidates : Canonicalize(c, "mat") # <<>>
         /\ \E v \in {Canonicalize(c, "mat")} \cup LegacyIdsFor(Canonicalize(c, "mat")) :
                 Contains(text, v)}}
=============================================================================
