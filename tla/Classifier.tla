----------------------------- MODULE Classifier -----------------------------
(***************************************************************************)
(* src/ai_layer/classifier.py: the weighted phrases, the signals, the      *)
(* penalty, the choice of one category and the quote that backs it.        *)
(* Content is a sequence of words: a phrase of the lexicon in one          *)
(* spelling, a marker of reference material, a line of credentials, other  *)
(* text, or a "line", which a line feed ends and not a space.  Weights are *)
(* tenths.  Every page that can be written one word after the other is     *)
(* classified.                                                             *)
(***************************************************************************)
EXTENDS Naturals, Sequences, FiniteSetsExt, Functions

CONSTANTS
    Category,       \* the categories, in the order of CATEGORY_PHRASES
    Base, Extra,    \* CATEGORY_PHRASES and EXTRA_PHRASES: category -> phrase -> weight
    MarkerWeight,   \* NEGATIVE_MARKERS: marker -> weight
    IocWeight,      \* IOC_RULES: entity type -> category -> weight
    Word,           \* [word |-> w, spelling |-> s]: what a page is made of
    Width,          \* word -> its length in characters
    MaxWords,       \* CLASSIFY_MAX_CHARS, counted in words
    Radius,         \* context_radius
    MaxText         \* bound: words of a page

(* Every weight counts for something, no line of credentials holds a       *)
(* marker, and no phrase is as long as the context of a quote.  That a     *)
(* marker holds no phrase is not assumed: "anti-money laundering" does.    *)
ASSUME ClassifierAssumption ==
    /\ Category \in Seq(DOMAIN Base) /\ Range(Category) = DOMAIN Base
    /\ DOMAIN Base # {}
    /\ \A c \in DOMAIN Base : \A p \in DOMAIN Base[c] :
           Base[c][p] \in Nat /\ Width[p] <= Radius
    /\ \A c \in DOMAIN Extra : \A p \in DOMAIN Extra[c] :
           Extra[c][p] \in Nat /\ Width[p] <= Radius
    /\ \A m \in DOMAIN MarkerWeight : MarkerWeight[m] \in Nat
    /\ "credentials" \notin DOMAIN MarkerWeight
    /\ IsFiniteSet(DOMAIN IocWeight)
    /\ \A e \in DOMAIN IocWeight :
           \A c \in DOMAIN IocWeight[e] : IocWeight[e][c] \in Nat
    /\ MaxWords \in Nat /\ Radius \in Nat /\ MaxText \in Nat
    /\ \A w \in Word : Width[w.word] \in Nat

VARIABLES
    text,           \* the content classify is called with
    entities,       \* the entity types the analysis found in it
    verdict         \* what classify returns for them

classifierVars == <<text, entities, verdict>>

(* The categories a hit of which may be dropped as not sure enough.        *)
Restrained == {"terrorism_extremism", "human_trafficking"}

(* The lexicon is merged at import: a phrase a category has already keeps  *)
(* the weight it has there.                                                *)
Lexicon ==
    [c \in DOMAIN Base |->
        [p \in (DOMAIN Base[c]) \cup (IF c \in DOMAIN Extra THEN DOMAIN Extra[c] ELSE {}) |->
            IF p \in DOMAIN Base[c] THEN Base[c][p] ELSE Extra[c][p]]]

(***************************************************************************)
(* 6.1 - 6.3b: the score of a category                                     *)
(***************************************************************************)
(* finditer, cat_matched: where each spelling of a phrase is met first.    *)
Matches(c, content) ==
    {i \in DOMAIN content :
        /\ content[i].word \in DOMAIN Lexicon[c]
        /\ \A j \in 1..(i - 1) : content[j] # content[i]}

SumOf(weight) == MapThenSumSet(LAMBDA x : weight[x], DOMAIN weight)

PhraseScore(c, content) ==
    SumOf([i \in Matches(c, content) |-> Lexicon[c][content[i].word]])

DumpScore(c, content) ==
    IF /\ c = "credential_leak"
       /\ Cardinality({i \in DOMAIN content : content[i].word = "credentials"}) >= 3
    THEN 15 ELSE 0

IocScore(c, found) ==
    SumOf([e \in found |-> IF c \in DOMAIN IocWeight[e] THEN IocWeight[e][c] ELSE 0])

(* _negative_penalty: a marker counts once, in whatever spelling.          *)
NegativePenalty(content) ==
    LET Present == {content[i].word : i \in DOMAIN content} \cap DOMAIN MarkerWeight
    IN  Min({MapThenSumSet(LAMBDA m : MarkerWeight[m], Present), 25})

Floor(raw, penalty) == IF raw > penalty THEN raw - penalty ELSE 0

(* A mistake to catch: only the restrained categories are knocked down.    *)
KnockRestrained(c, raw, penalty) == IF c \in Restrained THEN Floor(raw, penalty) ELSE raw

(* Every category is knocked down.                                         *)
Knock(c, raw, penalty) == Floor(raw, penalty)

RawScore(c, content, found) ==
    PhraseScore(c, content) + DumpScore(c, content) + IocScore(c, found)

Scores(content, found) ==
    LET penalty == NegativePenalty(content)
    IN  [c \in DOMAIN Base |-> Knock(c, RawScore(c, content, found), penalty)]

(***************************************************************************)
(* 6.4: one category, or unknown                                           *)
(***************************************************************************)
(* max returns the first category of the greatest score.                   *)
Best(score) ==
    LET greatest == Max(Range(score))
    IN  Category[Min({i \in DOMAIN Category : score[Category[i]] = greatest})]

(* 1 - exp(-0.6 * weight) reaches 0.7 between a weight of 2.0 and 2.1.     *)
SureEnough(score) == score > 20

Label(score) ==
    LET c == Best(score)
    IN  IF score[c] < 5 \/ (c \in Restrained /\ ~SureEnough(score[c])) THEN "unknown" ELSE c

(***************************************************************************)
(* The quote                                                               *)
(***************************************************************************)
(* _find_best_evidence: the heaviest match of all categories, the first of *)
(* equals.                                                                 *)
BestMatch(content) ==
    LET All == {m \in (DOMAIN Base) \X (DOMAIN content) : m[2] \in Matches(m[1], content)}
        W(m) == Lexicon[m[1]][content[m[2]].word]
        Heaviest == {m \in All : \A n \in All : W(n) <= W(m)}
    IN  Min({m[2] : m \in Heaviest})

HasMatch(content) == \E c \in DOMAIN Base : Matches(c, content) # {}

(* Where the words of a page begin, one character between two of them.     *)
Starts(content) ==
    LET at[i \in DOMAIN content] ==
            IF i = 1 THEN 0 ELSE at[i - 1] + Width[content[i - 1].word] + 1
    IN  at

(* A mistake to catch: the cut looks for a space up to the end of the page.*)
QuoteFromAnySpace(start, spaces, length) ==
    IF start <= Radius THEN 0 ELSE Min({p \in spaces \cup {length} : p >= start - Radius})

(* 150 characters before the match, or the next space, but not beyond the  *)
(* match.                                                                  *)
QuoteFrom(start, spaces, length) ==
    IF start <= Radius THEN 0 ELSE Min({p \in spaces \cup {start} : p >= start - Radius})

QuoteTo(end, spaces, length) ==
    IF end + Radius >= length THEN length
    ELSE Max({p \in {s + 1 : s \in spaces} \cup {end} : p <= end + Radius})

(* From and up to which character, at most 2 * Radius of them, and where   *)
(* the match is.                                                           *)
FindBestEvidence(content) ==
    LET starts == Starts(content)
        spaces == {starts[i] - 1 :
                      i \in {j \in DOMAIN content \ {1} : content[j - 1].word # "line"}}
        length == starts[Len(content)] + Width[content[Len(content)].word]
        best   == BestMatch(content)
        start  == starts[best]
        end    == start + Width[content[best].word]
        from   == QuoteFrom(start, spaces, length)
    IN  [from |-> from, to |-> Min({QuoteTo(end, spaces, length), from + 2 * Radius}),
         start |-> start, end |-> end]

NoQuote == [from |-> 0, to |-> 0, start |-> 0, end |-> 0]

(***************************************************************************)
(* classify                                                                *)
(***************************************************************************)
(* _confidence grows with the score: the score stands for it, and "doubt"  *)
(* for one minus it.                                                       *)
Classify(whole, found) ==
    LET content == SubSeq(whole, 1, Min({Len(whole), MaxWords}))
        score   == Scores(content, found)
        label   == Label(score)
    IN  [category   |-> label,
         confidence |-> [of |-> score[Best(score)], doubt |-> label = "unknown"],
         quote      |-> IF label \in {"unknown", "child_exploitation"} \/ ~HasMatch(content)
                        THEN NoQuote ELSE FindBestEvidence(content)]

ClassifierTypeOK ==
    /\ text \in Seq(Word)
    /\ entities \in SUBSET DOMAIN IocWeight

ClassifierInit == text = <<>> /\ entities = {} /\ verdict = Classify(<<>>, {})

(* Every page, and every set of entities.                                  *)
Write(w) ==
    /\ Len(text) < MaxText
    /\ text' = Append(text, w)
    /\ verdict' = Classify(Append(text, w), entities)
    /\ UNCHANGED entities

Extract(e) ==
    /\ e \notin entities
    /\ entities' = entities \cup {e}
    /\ verdict' = Classify(text, entities \cup {e})
    /\ UNCHANGED text

ClassifierNext ==
    \/ \E w \in Word : Write(w)
    \/ \E e \in DOMAIN IocWeight : Extract(e)

ClassifierSpec == ClassifierInit /\ [][ClassifierNext]_classifierVars

(***************************************************************************)
(* Properties                                                              *)
(***************************************************************************)
(* The markers are there to suppress (classifier.py:845-851): writing one  *)
(* more on a page, wherever and however often, may turn its finding into   *)
(* unknown, and never into another category, although every category's     *)
(* score is cut, capped and floored, and the most certain may be dropped.  *)
(* Not so of a marker that holds a phrase.                                 *)
Markers == {m \in DOMAIN MarkerWeight : \A c \in DOMAIN Base : m \notin DOMAIN Lexicon[c]}

MarkersOnlySuppress ==
    [][\A w \in Word :
          (w.word \in Markers /\ text' = Append(text, w))
              => verdict'.category \in {verdict.category, "unknown"}]_classifierVars

(* How many phrases of the category are on the part that is read.          *)
PhrasesOf(c) ==
    Cardinality({text[i].word : i \in 1..Min({Len(text), MaxWords})} \cap DOMAIN Lexicon[c])

(* The quote of a finding shows the whole of the heaviest phrase, and no   *)
(* more than its 300 characters.                                           *)
QuoteHoldsPhrase ==
    LET q == verdict.quote
    IN  q.from <= q.start /\ q.end <= q.to /\ q.to - q.from <= 2 * Radius

(* "Only unique phrases count once per document" (classifier.py:27-28),    *)
(* and the high-risk categories "must demand multiple independent strong   *)
(* matches" (THREAT_LEXICON.md:19).  The code counts spellings.            *)
IndependentMatches ==
    verdict.category \in Restrained => PhrasesOf(verdict.category) >= 2
=============================================================================
