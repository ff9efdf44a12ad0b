--------------------------- MODULE KnowledgeResults ---------------------------
(***************************************************************************)
(* What knowledge/tools.go does to a list of retrieved chunks: placement   *)
(* after reranking, the score threshold, removal of near-identical chunks  *)
(* of one file, parent context.                                            *)
(*                                                                         *)
(* A document is a chunk with a score and the set of words (longer than    *)
(* two bytes) of its content.  Scores are levels, compared as the code     *)
(* compares its floats.                                                    *)
(***************************************************************************)
EXTENDS Naturals, Sequences, FiniteSets

CONSTANTS
  FileOf,      \* chunk -> its file
  WordsOf,     \* chunk -> the words of its text
  ParentWords  \* chunk -> the words of its parent section; none without one

Document(c, score) == [id |-> c, score |-> score, words |-> WordsOf[c]]

Ids(docs) == [i \in DOMAIN docs |-> docs[i].id]

(* How many of the positions in DOMAIN key come no later than i. *)
Rank(key, i) == Cardinality({j \in DOMAIN key : key[j] <= key[i]})

(* The documents at the positions DOMAIN key, in the order of their keys. *)
Picked(docs, key) ==
  [k \in 1..Cardinality(DOMAIN key) |->
     docs[CHOOSE i \in DOMAIN key : Rank(key, i) = k]]

-----------------------------------------------------------------------------
(* Near-identical chunks. *)

(* jaccard(a, b) > 0.8 *)
SimilarBug(a, b) == 5 * Cardinality(a \cap b) > 4 * (Cardinality(a) + Cardinality(b))
Similar(a, b) ==
  IF a = {} \/ b = {} THEN a = b
  ELSE 5 * Cardinality(a \cap b) > 4 * Cardinality(a \cup b)

SameFile(d, e) == FileOf[d.id] = FileOf[e.id]

Alike(d, e) == SameFile(d, e) /\ Similar(d.words, e.words)

BeatsBug(d, e) == d.score <= e.score
Beats(d, e) == d.score > e.score

(* Document i meets the later ones of its file that are still kept, in     *)
(* order: it drops those that are alike and score no higher, until one     *)
(* that scores higher drops it.                                            *)
Meets(docs, i, kept) ==
  LET twins == {j \in kept : j > i /\ Alike(docs[i], docs[j])}
      higher == {j \in twins : Beats(docs[j], docs[i])}
  IN  IF i \notin kept THEN kept
      ELSE IF higher = {} THEN kept \ twins
      ELSE kept \ ({i} \cup {j \in twins : \A h \in higher : j < h})

(* After round i, what is still kept.  Documents of different files never  *)
(* meet, so one loop over all of them is a loop over each file.            *)
Rounds(docs) ==
  LET kept[i \in 0..Len(docs)] ==
        IF i = 0 THEN DOMAIN docs ELSE Meets(docs, i, kept[i-1])
  IN  kept

(* The first document of the same file. *)
First(docs, i) ==
  CHOOSE j \in DOMAIN docs :
    /\ SameFile(docs[j], docs[i])
    /\ \A h \in 1..j-1 : ~SameFile(docs[h], docs[i])

(* File by file, in the order in which the files first appear. *)
deduplicateByFile(docs) ==
  LET kept == {i \in DOMAIN docs : i \in Rounds(docs)[Len(docs)]}
  IN  Picked(docs, [i \in kept |-> Len(docs) * First(docs, i) + i])

-----------------------------------------------------------------------------
(* The other steps. *)

filterByMinScore(docs, minScore) ==
  Picked(docs, [i \in {j \in DOMAIN docs : docs[j].score >= minScore} |-> i])

ExpandParent(docs) ==
  [i \in DOMAIN docs |->
     [docs[i] EXCEPT !.words = @ \cup ParentWords[docs[i].id]]]

FinishedBug(docs, minScore) ==
  deduplicateByFile(ExpandParent(filterByMinScore(docs, minScore)))

(* The end of InvokableRun. *)
Finished(docs, minScore) ==
  ExpandParent(deduplicateByFile(filterByMinScore(docs, minScore)))

(* The score transformer: the best at the edges, the worst in the middle.  *)
Place(sorted) ==
  LET n == Len(sorted)
  IN  [k \in 1..n |-> IF 2 * k <= n + 1 THEN sorted[2 * k - 1]
                      ELSE sorted[2 * (n - k + 1)]]
=============================================================================
