-------------------------------- MODULE Retrieval --------------------------------
(***************************************************************************)
(* How a text of law is cut and found again: the sliding window of the     *)
(* shelf and of the index of meaning (corpus.service.ts chunk(),           *)
(* embedding-index.service.ts toChunks()), the worker's cut by sentences   *)
(* (pylegal/persian_tools.py chunk_legal_text()), the search by words      *)
(* (corpus.service.ts search()), the reranker's blend of it with the       *)
(* search by meaning, and the worker's answer in the words of the law      *)
(* (pylegal/local_answer.py).                                              *)
(*                                                                         *)
(* A text is its letters and blanks; a chunk is where it begins and ends.  *)
(* A sentence is its length.  A law is its words; a word holds the terms   *)
(* that are part of it, for they are counted as substrings.  Scores of the *)
(* search are in tenths, the reranker's in parts of 100 000.  Of BM25 an   *)
(* answer keeps that a sentence scores when it shares a word with the      *)
(* question: between two that do, any order is allowed.                    *)
(*                                                                         *)
(* The search by meaning (embedding-index.service.ts search(), or the one  *)
(* of pg-embedding-index.service.ts where Postgres has pgvector) is given  *)
(* chunks with how near they are to the question, in percent.              *)
(***************************************************************************)
EXTENDS Integers, SequencesExt, TLC

CONSTANTS
    Bodies,             \* texts to cut: sequences of TRUE, a letter, and FALSE, a blank
    Windowed,           \* [size, overlap] of a sliding window
    Sentences,          \* texts as sequences of sentence lengths
    Packed,             \* [size, overlap] of a cut by sentences
    Library,            \* laws, in the order of the shelf: [words, title, tier]
    Within,             \* [words -> the terms that are part of them]
    StopWords,          \* STOP_WORDS_FA
    LawQueries,         \* questions: sequences of words
    Near,               \* how near a chunk may be
    Hits,               \* candidates of the reranker: [lexical, vector, tier, halfLives]
    MaxHits             \* bound: candidates of one question

ASSUME RetrievalAssumption ==
    /\ \A w \in Windowed : w.size \in Nat \ {0} /\ w.overlap \in Nat
    /\ \A p \in Packed : p.overlap \in 0..(p.size - 1)
    /\ <<>> \notin LawQueries /\ Near \subseteq -100..100
    /\ Hits \subseteq [lexical : Nat, vector : 0..100, tier : 1..3, halfLives : Nat] /\ MaxHits \in Nat

VARIABLE
    study               \* one text being cut, or one question answered

retrievalVars == study

-----------------------------------------------------------------------------

\* A chunk trimmed: the letters of a window, none if it is blank.
Trimmed(text, first, last) ==
    LET letters == {i \in first..last : text[i]}
    IN  IF letters = {} THEN <<>> ELSE <<[first |-> Min(letters), last |-> Max(letters)]>>

\* The mistake of going on where the window ended.
CutEndToEnd(text, offset, width) ==
    LET end == Min({Len(text), offset + width.size})
    IN  [chunks |-> Trimmed(text, offset + 1, end), end |-> end, next |-> end]

CutWindow(text, offset, width) ==
    LET end == Min({Len(text), offset + width.size})
    IN  [chunks |-> Trimmed(text, offset + 1, end), end |-> end,
         next |-> Max({offset + 1, end - width.overlap})]

\* One round of the loop.
Slide ==
    /\ study.kind = "window" /\ ~study.over
    /\ LET cut == CutWindow(study.text, study.offset, study.width)
       IN  study' = IF study.offset >= Len(study.text) THEN [study EXCEPT !.over = TRUE]
                    ELSE [study EXCEPT !.chunks = @ \o cut.chunks, !.end = cut.end, !.offset = cut.next,
                                       !.over = cut.end = Len(study.text)]

\* The sentences at the end of a chunk that fit into the overlap.
Total(lengths, from, to) ==
    FoldLeft(LAMBDA n, i : n + lengths[i], 0, [k \in 1..(to - from + 1) |-> from + k - 1])

CarryFrom(lengths, first, last, overlap) ==
    Min({i \in first..(last + 1) : Total(lengths, i, last) <= overlap})

\* The next sentence, which may close the chunk before it, or the end.
PackSentence ==
    /\ study.kind = "sentences" /\ ~study.over
    /\ LET lengths == study.text
           first == study.offset
           last == study.end
           full == Total(lengths, first, last) + lengths[last + 1] > study.width.size /\ first <= last
       IN  study' =
             IF last = Len(lengths)
             THEN [study EXCEPT !.over = TRUE,
                       !.chunks = IF first <= last THEN Append(@, [first |-> first, last |-> last]) ELSE @]
             ELSE [study EXCEPT !.end = last + 1,
                       !.chunks = IF full THEN Append(@, [first |-> first, last |-> last]) ELSE @,
                       !.offset = IF full THEN CarryFrom(lengths, first, last, study.width.overlap) ELSE @]

-----------------------------------------------------------------------------

Terms(query) == ToSet(query) \ StopWords
Count(words, term) == Cardinality({i \in DOMAIN words : term \in Within[words[i]]})
HasRun(words, query) == \E i, j \in DOMAIN words : SubSeq(words, i, j) = query
TierBoost(tier) == CASE tier = 1 -> 16 [] tier = 2 -> 10 [] OTHER -> 5

Score(law, query) ==
    LET counts == FoldSet(LAMBDA t, n : n + Count(law.words, t), 0, Terms(query))
        phrase == Len(query) > 1 /\ HasRun(law.words, query)
    IN  (counts + (IF phrase THEN 4 ELSE 0) + (IF HasRun(law.title, query) THEN 2 ELSE 0))
            * TierBoost(law.tier)

\* Of the laws in force, the verified ones if asked, those that score, best first;
\* equal scores stay in the order of the shelf.
Search(query, state, verifiedOnly, limit) ==
    LET found == {i \in DOMAIN Library :
                     /\ state[i] \in IF verifiedOnly THEN {"verified"} ELSE {"verified", "filed"}
                     /\ Score(Library[i], query) > 0}
        Before(i, j) == \/ Score(Library[i], query) > Score(Library[j], query)
                        \/ Score(Library[i], query) = Score(Library[j], query) /\ i < j
        ranked == SetToSortSeq(found, Before)
    IN  SubSeq(ranked, 1, Min({limit, Len(ranked)}))

Seek ==
    /\ study.kind = "question" /\ ~study.over
    /\ \E query \in LawQueries, verifiedOnly \in BOOLEAN, limit \in 1..Len(Library) :
          study' = [study EXCEPT !.over = TRUE, !.query = query, !.limit = limit, !.verifiedOnly = verifiedOnly,
                                 !.hits = Search(query, study.state, verifiedOnly, limit)]

-----------------------------------------------------------------------------

\* rerank(): words against the best of the candidates and meaning, by the default
\* weights; then the trust of the source, and its age.
Blended(hit, best) ==
    (((45 * hit.lexical * 100) \div best + 35 * hit.vector) * TierBoost(hit.tier)) \div (2 ^ hit.halfLives)

BestLexical(candidates) ==
    Max({1} \cup {candidates[i].lexical : i \in DOMAIN candidates})

Rerank ==
    /\ study.kind = "rerank" /\ ~study.over
    /\ \E limit \in 1..MaxHits :
          LET score(i) == Blended(study.text[i], BestLexical(study.text))
              Before(i, j) == score(i) > score(j) \/ (score(i) = score(j) /\ i < j)
              ranked == SetToSortSeq(DOMAIN study.text, Before)
          IN  study' = [study EXCEPT !.over = TRUE, !.limit = limit,
                                     !.hits = SubSeq(ranked, 1, Min({limit, Len(ranked)}))]

\* The rows of the search by meaning.  The table of chunks is joined with a table
\* of laws, and nothing in the code fills either: rebuild() of the route fills the
\* index in memory, which a deployment with pgvector does not search.
MeaningRows(driver, entries) ==
    IF driver = "pg" THEN <<>> ELSE SelectSeq(entries, LAMBDA e : e.near > 0)

\* One row for each law, its nearest chunk; of two as near the earlier one.
Nearest(rows) ==
    {i \in DOMAIN rows : \A j \in DOMAIN rows \ {i} : rows[j].law = rows[i].law =>
        rows[j].near < rows[i].near \/ (rows[j].near = rows[i].near /\ i < j)}

\* search(): no provider, or vectors of another dimension than the question's,
\* and there are no hits.
SeekMeaning ==
    /\ study.kind = "meaning" /\ ~study.over
    /\ \E limit \in 1..MaxHits, usable \in BOOLEAN, driver \in {"json", "pg"} :
          LET rows == IF usable THEN MeaningRows(driver, study.text) ELSE <<>>
              Before(i, j) == rows[i].near > rows[j].near \/ (rows[i].near = rows[j].near /\ i < j)
              ranked == SetToSortSeq(Nearest(rows), Before)
          IN  study' = [study EXCEPT !.over = TRUE, !.limit = limit, !.answered = usable /\ driver = "json",
                                     !.hits = [k \in 1..Min({limit, Len(ranked)}) |-> rows[ranked[k]]]]

\* The sentences that score: each of the passages' that shares a word with the question.
Scored(passages, query) ==
    {i \in DOMAIN passages : ToSet(Library[passages[i]].words) \cap ToSet(query) # {}}

\* local_answer(): the best spans as they stand, or an honest no.
AnswerFromPassages ==
    /\ study.kind = "answer" /\ ~study.over
    /\ \E query \in LawQueries, limit \in 1..MaxHits :
          \E ranked \in SetToSeqs(Scored(study.text, query)) :
              study' = [study EXCEPT !.over = TRUE, !.query = query, !.limit = limit,
                                     !.answered = ranked # <<>>,
                                     !.hits = SubSeq(ranked, 1, Min({limit, Len(ranked)}))]

RetrievalInit ==
    \/ \E n \in 0..MaxHits : \E text \in [1..n -> Hits] :
          study = [kind |-> "rerank", text |-> text, limit |-> 0, hits |-> <<>>, over |-> FALSE]
    \/ \E n \in 0..MaxHits : \E text \in [1..n -> DOMAIN Library] :
          study = [kind |-> "answer", text |-> text, query |-> <<>>, limit |-> 0, answered |-> FALSE,
                   hits |-> <<>>, over |-> FALSE]
    \/ \E n \in 0..MaxHits : \E text \in [1..n -> [law : DOMAIN Library, near : Near]] :
          study = [kind |-> "meaning", text |-> text, limit |-> 0, answered |-> FALSE,
                   hits |-> <<>>, over |-> FALSE]
    \/ \E text \in Bodies, width \in Windowed :
          study = [kind |-> "window", text |-> text, width |-> width, offset |-> 0, end |-> 0,
                   chunks |-> <<>>, over |-> FALSE]
    \/ \E text \in Sentences, width \in Packed :
          study = [kind |-> "sentences", text |-> text, width |-> width, offset |-> 1, end |-> 0,
                   chunks |-> <<>>, over |-> FALSE]
    \/ \E state \in [DOMAIN Library -> {"filed", "verified", "retired"}] :
          study = [kind |-> "question", state |-> state, query |-> <<>>, verifiedOnly |-> TRUE,
                   limit |-> 0, hits |-> <<>>, over |-> FALSE]

RetrievalNext == Slide \/ PackSentence \/ Seek \/ SeekMeaning \/ Rerank \/ AnswerFromPassages

-----------------------------------------------------------------------------

Covered(first, last) == \E i \in DOMAIN study.chunks :
    study.chunks[i].first <= first /\ last <= study.chunks[i].last

\* A window loses no letter, and cuts no stretch of letters that the overlap is
\* long enough for: it lies whole in some chunk, and no chunk is too long.
WindowsOverlap ==
    study.kind = "window" =>
        /\ \A i \in DOMAIN study.chunks :
              study.chunks[i].last - study.chunks[i].first < study.width.size
        /\ \A i \in 1..study.end, j \in 1..study.end :
              /\ i <= j /\ study.text[i] /\ study.text[j]
              /\ j - i < Min({study.width.overlap + 1, study.width.size})
              => Covered(i, j)
        /\ study.over => study.end = Len(study.text)

\* Every sentence is whole in a chunk; chunks follow one another, each with a
\* sentence of its own; and one is too long only if what it carried over from the
\* one before and a single sentence are.
SentencesWhole ==
    study.kind = "sentences" =>
        /\ study.over => \A i \in DOMAIN study.text : Covered(i, i)
        /\ \A i \in DOMAIN study.chunks :
              LET c == study.chunks[i]
                  own == IF i = 1 THEN 1 ELSE study.chunks[i - 1].last + 1
              IN  /\ c.first <= own /\ own <= c.last
                  /\ Total(study.text, c.first, own - 1) <= study.width.overlap
                  /\ Total(study.text, c.first, c.last) <= study.width.size \/ own = c.last

\* What is found is in force, verified if that was asked, and names a term of the
\* question or its phrase; nothing left out scores more than something given; and
\* fewer are given than the limit only when there are no more.
FoundByRank ==
    study.kind = "question" /\ study.over =>
        LET given == ToSet(study.hits)
            fit(i) == /\ study.state[i] # "retired" /\ (study.verifiedOnly => study.state[i] = "verified")
                      /\ \/ \E w \in ToSet(Library[i].words) : Within[w] \cap Terms(study.query) # {}
                         \/ Len(study.query) > 1 /\ HasRun(Library[i].words, study.query)
                         \/ HasRun(Library[i].title, study.query)
        IN  /\ \A i \in given : fit(i)
            /\ \A i \in given, j \in DOMAIN Library \ given :
                  fit(j) => Score(Library[j], study.query) <= Score(Library[i], study.query)
            /\ Len(study.hits) < study.limit => given = {i \in DOMAIN Library : fit(i)}
            /\ \A m, n \in DOMAIN study.hits : m < n =>
                  Score(Library[study.hits[m]], study.query) >= Score(Library[study.hits[n]], study.query)

\* By meaning every law comes once, by the nearest of its chunks, nearest law
\* first; no chunk that was left out is nearer than one given unless its law is
\* given; and fewer come than the limit only when no other law is near at all.
FoundByMeaning ==
    study.kind = "meaning" /\ study.over =>
        LET laws == {study.hits[m].law : m \in DOMAIN study.hits}
            near == {i \in DOMAIN study.text : study.text[i].near > 0}
        IN  /\ \A m, n \in DOMAIN study.hits : m < n =>
                  study.hits[m].law # study.hits[n].law /\ study.hits[m].near >= study.hits[n].near
            /\ study.answered => \A i \in near : \A m \in DOMAIN study.hits :
                  \/ study.text[i].near <= study.hits[m].near
                  \/ study.text[i].law \in laws /\ study.text[i].law # study.hits[m].law
            /\ study.answered /\ Len(study.hits) < study.limit => {study.text[i].law : i \in near} = laws
            /\ ~study.answered => study.hits = <<>>

\* A candidate that is better in nothing (words, meaning, trust, age) never comes
\* before one it does not equal, whatever the others are that set the scale.
NoWorseComesFirst ==
    study.kind = "rerank" /\ study.over =>
        \A m, n \in DOMAIN study.hits :
            LET first == study.text[study.hits[m]]
                later == study.text[study.hits[n]]
            IN  m < n => ~ (
                  /\ first.lexical <= later.lexical /\ first.vector <= later.vector
                  /\ first.tier >= later.tier /\ first.halfLives >= later.halfLives
                  /\ Blended(first, BestLexical(study.text)) # Blended(later, BestLexical(study.text)))

\* An answer quotes sentences of the passages that bear on the question, each once,
\* and is refused only when none does.
QuotesOrRefuses ==
    study.kind = "answer" /\ study.over =>
        /\ \A m \in DOMAIN study.hits :
              /\ \E w \in ToSet(study.query) : Contains(Library[study.text[study.hits[m]]].words, w)
              /\ \A n \in DOMAIN study.hits : study.hits[m] = study.hits[n] => m = n
        /\ study.answered <=> study.hits # <<>>
        /\ ~study.answered => \A i \in DOMAIN study.text :
              ToSet(Library[study.text[i]].words) \cap ToSet(study.query) = {}

\* A text is cut so that what is looked for is whole somewhere, found by rank, and
\* quoted.
RetrievalHolds ==
    /\ WindowsOverlap /\ SentencesWhole /\ FoundByRank /\ FoundByMeaning
    /\ NoWorseComesFirst /\ QuotesOrRefuses
=================================================================================
