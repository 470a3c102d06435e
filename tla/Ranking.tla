--------------------------------- MODULE Ranking ---------------------------------
(* The pure functions under search, matching and paging: Tokenize, Unique and      *)
(* ExtractTopKeywords of shared/text, semanticSimilarity and normalizeScores of    *)
(* job-matcher, ParsePagination of shared/utils and the pages of                    *)
(* recommendation-service.  A word is a number, its place in the order of strings, *)
(* and Lower leads from its spellings to one of them; scores are natural numbers    *)
(* or fractions <<over, under>> of them.  A call has one input, and the properties  *)
(* compare what the functions return for it with reference definitions.            *)
EXTENDS Integers, SequencesExt

CONSTANTS
    Words,      \* numbers; 0 is the empty string
    Lower,      \* Lower[w]: w in lower case, without blanks around it
    Short,      \* words of one letter, or none
    StopWords,
    MaxLen,     \* bound: words of a text
    Docs,       \* documents BM25 has scored
    MaxScore,   \* bound: scores
    MaxItems,   \* bound: rows behind a page
    Default, Most   \* limits of ParsePagination

ASSUME RankingAssumption ==
    /\ Words \subseteq Nat /\ 0 \in Short /\ Short \subseteq Words /\ StopWords \subseteq Words
    /\ Lower \in [Words -> Words] /\ Lower[0] = 0
    /\ \A w \in Words : Lower[Lower[w]] = Lower[w]
    /\ IsFiniteSet(Docs)
    /\ MaxLen \in Nat /\ MaxScore \in Nat /\ MaxItems \in Nat
    /\ Most \in Nat /\ Default \in 1..Most

VARIABLE input   \* of the call that is being served

Texts == SeqOf(Words, MaxLen)

NoInput    == [none |-> TRUE]
TwoTexts   == [text : Texts, other : Texts]
Scores     == [scores : [Docs -> 0..MaxScore]]   \* BM25 scores of documents
PageWalks  ==   \* orders[k]: the order in which query k finds the rows
    UNION {[rows : {n}, wanted : -1..MaxItems, orders : [1..n -> Bijection(1..n, 1..n)]] :
              n \in 0..MaxItems}

Call   == input = NoInput /\ input' \in TwoTexts \union Scores \union PageWalks
Answer == input /= NoInput /\ input' = NoInput

\* strings.ToLower, and for the items of Unique strings.TrimSpace (words have no blanks).
Lowered(s) == [i \in DOMAIN s |-> Lower[s[i]]]

\* Tokenize: in lower case, short words and stop words are left out.
Tokenize(s) ==
    FoldLeft(LAMBDA out, w : IF w \in Short \union StopWords THEN out ELSE Append(out, w),
             <<>>, Lowered(s))

\* Unique: in lower case, blank strings are left out; the seen map and the output slice
\* are one.
Unique(s) ==
    FoldLeft(LAMBDA out, w : IF w = 0 \/ Contains(out, w) THEN out ELSE Append(out, w),
             <<>>, Lowered(s))

Occurrences(s, w) == Cardinality({i \in DOMAIN s : s[i] = w})

\* By count, then by word.
Before(tokens, v, w) ==
    IF Occurrences(tokens, v) = Occurrences(tokens, w) THEN v < w
    ELSE Occurrences(tokens, v) > Occurrences(tokens, w)

\* limit > len(pairs) || limit <= 0 means all of them.
Cut(s, n) == SubSeq(s, 1, IF n > Len(s) \/ n <= 0 THEN Len(s) ELSE n)

\* ExtractTopKeywords: the map freq becomes pairs, which sort.Slice puts in order.
ExtractTopKeywords(s, n) ==
    LET tokens == Tokenize(s)
        words  == ToSet(tokens)
        pairs  == CHOOSE r \in [1..Cardinality(words) -> words] :
                      \A i, j \in DOMAIN r : i < j => Before(tokens, r[i], r[j])
    IN Cut(pairs, n)

\* semanticSimilarity, from the sizes of the two maps and their intersection.
Similarity(q, d) ==
    LET left   == ToSet(q)
        right  == ToSet(d)
        common == Cardinality(left \intersect right)
        union  == Cardinality(left) + Cardinality(right) - common
    IN IF q = <<>> \/ d = <<>> \/ common = 0 \/ union <= 0 THEN <<0, 1>>
       ELSE <<IF common < union THEN common ELSE union, union>>

Highest(f) == CHOOSE m \in {f[d] : d \in DOMAIN f} \union {0} :
                  \A d \in DOMAIN f : f[d] <= m

\* Mutant of Normalize: relative to the first score that is found.
NormalizeFirst(f) ==
    IF Highest(f) <= 0 THEN <<>>
    ELSE [d \in {e \in DOMAIN f : f[e] > 0} |-> <<f[d], CHOOSE m \in {f[e] : e \in DOMAIN f} : m > 0>>]

\* normalizeScores: relative to the highest; zero and less are left out.
Normalize(f) ==
    IF Highest(f) <= 0 THEN <<>>
    ELSE [d \in {e \in DOMAIN f : f[e] > 0} |-> <<f[d], Highest(f)>>]

\* ParsePagination: the limit; what is no number is not positive here.
Limit(n) ==
    LET wanted == IF n > 0 THEN n ELSE Default
    IN IF wanted > Most THEN Most ELSE wanted

\* LIMIT and OFFSET of a query that finds its rows in this order.  rank_score has ties
\* and depends on the time, so that each query has an order of its own.
Page(order, size, offset) ==
    SubSeq(order, offset + 1, IF offset + size <= Len(order) THEN offset + size ELSE Len(order))

\* A client walks through the pages: the offset grows by the limit the answers report.
Walk(wanted, orders) ==
    [k \in DOMAIN orders |-> Page(orders[k], Limit(wanted), (k - 1) * Limit(wanted))]

-----------------------------------------------------------------------------
(* Reference definitions *)

FirstAt(s, w) == CHOOSE i \in DOMAIN s : s[i] = w /\ \A j \in 1..(i - 1) : s[j] /= w

\* Whatever limit a client asks for: no page has a row twice or more rows than the
\* service allows, and a row that every query has on the same page is shown on that
\* page only.  So all n rows are shown once when the orders agree, and what a tie or the
\* clock moves from page to page is all that can be missed or shown again.
PagesCoverAll(n, wanted, orders) ==
    LET pages      == Walk(wanted, orders)
        WouldBe(p) == {row \in 1..n : \A k \in 1..n :
                          row \in ToSet(Page(orders[k], Limit(wanted), (p - 1) * Limit(wanted)))}
    IN /\ \A k \in 1..n : IsInjective(pages[k]) /\ Len(pages[k]) <= Most
       /\ \A p \in 1..n : \A row \in WouldBe(p) :
             {k \in 1..n : row \in ToSet(pages[k])} = {p}
       /\ (\A k \in 1..n : orders[k] = orders[1]) =>
             \A row \in 1..n : \E p \in 1..n : row \in WouldBe(p)

\* Unique has every spelling but blanks once, in lower case and in the order of first
\* occurrences.
UniqueIsRight(text) ==
    LET u == Unique(text)
        t == Lowered(text)
    IN /\ IsInjective(u) /\ ToSet(u) = ToSet(t) \ {0}
       /\ \A i, j \in DOMAIN u : i < j => FirstAt(t, u[i]) < FirstAt(t, u[j])

\* The keywords are the words that fewer than that many other words beat, best first,
\* and do not depend on where in the text they stand.
TopKeywordsAreRight(text, other) == \A limit \in -1..MaxLen :
    LET tokens == Tokenize(text \o other)
        r      == ExtractTopKeywords(text \o other, limit)
        Beats(v, w) == \/ Occurrences(tokens, v) > Occurrences(tokens, w)
                       \/ Occurrences(tokens, v) = Occurrences(tokens, w) /\ v < w
    IN /\ r = ExtractTopKeywords(other \o text, limit)
       /\ limit <= 0 => ToSet(r) = ToSet(tokens)
       /\ \A w \in ToSet(tokens) :
             LET place == 1 + Cardinality({v \in ToSet(tokens) : Beats(v, w)})
             IN IF place <= Len(r) THEN r[place] = w ELSE limit > 0 /\ place > limit

\* The similarity is a fraction of 1, the same both ways, and 1 for the same words only.
SimilarityIsRight(text, other) ==
    LET f == Similarity(text, other) IN
    /\ f = Similarity(other, text) /\ f[1] \in 0..f[2] /\ f[2] > 0
    /\ f[1] = f[2] <=> (text /= <<>> /\ ToSet(text) = ToSet(other))

\* Normalised scores order documents as the scores do, the best has 1.
NormalizedKeepsOrder(scores) ==
    LET f == Normalize(scores) IN
    /\ DOMAIN f = {d \in DOMAIN scores : scores[d] > 0}
    /\ \A d, e \in DOMAIN f : scores[d] <= scores[e] <=> f[d][1] * f[e][2] <= f[e][1] * f[d][2]
    /\ DOMAIN f /= {} => \E d \in DOMAIN f : f[d][1] = f[d][2]
    /\ \A d \in DOMAIN f : f[d][1] \in 1..f[d][2]

\* Every function agrees with its reference definition on the input.
FunctionsAreRight ==
    /\ input \in PageWalks => PagesCoverAll(input.rows, input.wanted, input.orders)
    /\ input \in Scores => NormalizedKeepsOrder(input.scores)
    /\ input \in TwoTexts =>
          /\ UniqueIsRight(input.text)
          /\ TopKeywordsAreRight(input.text, input.other)
          /\ SimilarityIsRight(input.text, input.other)
==================================================================================
