------------------------- MODULE KnowledgeSearchProofs -------------------------
(***************************************************************************)
(* Theorems about KnowledgeSearch, for any chunks, files, databases, tool  *)
(* configurations, limits and numbers of rewrites.                         *)
(***************************************************************************)
EXTENDS KnowledgeSearch, KnowledgeResultsProofs

-----------------------------------------------------------------------------
(* Lists of documents. *)

Documents == {Document(c, x) : c \in Chunks, x \in Scores}

Sound(list) == list \in Seq(Documents) /\ Distinct(list)

LEMMA DocumentFields ==
  ASSUME NEW d \in Documents
  PROVE  /\ d.id \in Chunks /\ d.score \in Scores /\ d.score \in Int
         /\ d.words = WordsOf[d.id] /\ d = Document(d.id, d.score)
  <1>1. PICK c \in Chunks, x \in Scores : d = Document(c, x)
    BY DEF Documents
  <1>2. d.id = c /\ d.score = x /\ d.words = WordsOf[c]
    BY <1>1 DEF Document
  <1>3. x \in Int
    BY ChunksAssumption, SMT
  <1> QED BY <1>1, <1>2, <1>3

LEMMA EmptyIsSound == Sound(<<>>) /\ Len(<<>>) = 0
  <1>1. <<>> \in Seq(Documents) /\ Len(<<>>) = 0 /\ DOMAIN <<>> = {}
    BY SMT
  <1>2. Distinct(<<>>)
    BY <1>1, DistinctPositions
  <1> QED BY <1>1, <1>2 DEF Sound

LEMMA EnumerationFields ==
  ASSUME NEW S, IsFiniteSet(S), NEW order \in SetToSeqs(S)
  PROVE  /\ order \in [1..Cardinality(S) -> S] /\ Cardinality(S) \in Nat
         /\ \A i, j \in 1..Cardinality(S) : order[i] = order[j] => i = j
  <1>1. Cardinality(S) \in Nat
    BY FS_CardinalityType
  <1>2. order \in {f \in [1..Cardinality(S) -> S] :
                     \A i, j \in 1..Cardinality(S) : i # j => f[i] # f[j]}
    BY DEF SetToSeqs
  <1> QED BY <1>1, <1>2

(* The documents of an enumeration of chunks. *)
LEMMA ListingIsSound ==
  ASSUME NEW S, S \subseteq Chunks, NEW order \in SetToSeqs(S),
         NEW list, list = [i \in DOMAIN order |-> Document(order[i], list[i].score)],
         \A i \in DOMAIN order : list[i].score \in Scores
  PROVE  /\ Sound(list) /\ Len(list) = Cardinality(S)
         /\ \A i \in DOMAIN list : list[i].id \in S
  <1> DEFINE n == Cardinality(S)
  <1>1. IsFiniteSet(S)
    BY ChunksAssumption, FS_Subset
  <1>2. /\ order \in [1..n -> S] /\ n \in Nat
        /\ \A i, j \in 1..n : order[i] = order[j] => i = j
    BY <1>1, EnumerationFields
  <1> HIDE DEF n
  <1>3. DOMAIN list = 1..n /\ \A i \in 1..n : list[i] = Document(order[i], list[i].score)
    BY <1>2
  <1>4. \A i \in 1..n : list[i] \in Documents /\ order[i] \in S
    BY <1>2, <1>3 DEF Documents
  <1>5. \A i \in 1..n : list[i].id = order[i]
    BY <1>3 DEF Document
  <1>6. list = [i \in 1..n |-> list[i]]
    BY <1>2
  <1>7. list \in Seq(Documents) /\ Len(list) = n
    BY <1>2, <1>4, <1>6
  <1>8. Distinct(list)
    <2>1. \A i, j \in DOMAIN list : list[i].id = list[j].id => i = j
      BY <1>2, <1>3, <1>5
    <2>2. list \in Seq(Documents)
      BY <1>7
    <2> QED BY <2>1, <2>2, DistinctPositions
  <1> QED BY <1>3, <1>4, <1>5, <1>7, <1>8 DEF Sound, n

LEMMA ListingsAreSound ==
  ASSUME NEW S, S \subseteq Chunks, NEW list \in Listings(S)
  PROVE  /\ Sound(list) /\ Len(list) = Cardinality(S)
         /\ \A i \in DOMAIN list : list[i].id \in S
  <1>1. PICK order \in SetToSeqs(S), score \in [S -> Scores] :
          list = [i \in DOMAIN order |-> Document(order[i], score[order[i]])]
    BY DEF Listings
  <1>2. IsFiniteSet(S)
    BY ChunksAssumption, FS_Subset
  <1>3. \A i \in DOMAIN order : order[i] \in S
    BY <1>2, EnumerationFields
  <1>4. \A i \in DOMAIN order : list[i].score = score[order[i]] /\ list[i].score \in Scores
    BY <1>1, <1>3 DEF Document
  <1>5. list = [i \in DOMAIN order |-> Document(order[i], list[i].score)]
    BY <1>1, <1>4
  <1> QED BY <1>4, <1>5, ListingIsSound

(* Documents with new scores are the same chunks at the same places. *)
LEMMA ScoredIsSound ==
  ASSUME NEW list, Sound(list), NEW S, NEW score \in [S -> Scores]
  PROVE  /\ Sound(Scored(list, S, score)) /\ Len(Scored(list, S, score)) = Len(list)
         /\ DOMAIN Scored(list, S, score) = DOMAIN list
         /\ \A i \in DOMAIN list : Scored(list, S, score)[i].id = list[i].id
  <1> DEFINE new == Scored(list, S, score)
             n == Len(list)
  <1>1. list \in Seq(Documents) /\ n \in Nat /\ DOMAIN list = 1..n
    BY DEF Sound
  <1>2. \A i \in 1..n : list[i] \in Documents
    BY <1>1
  <1>3. new = [i \in 1..n |-> IF list[i].id \in S
                              THEN [list[i] EXCEPT !.score = score[list[i].id]] ELSE list[i]]
    BY <1>1 DEF Scored
  <1> HIDE DEF new, n
  <1>4. \A i \in 1..n : new[i] \in Documents /\ new[i].id = list[i].id
    <2> TAKE i \in 1..n
    <2>1. CASE list[i].id \in S
      <3> DEFINE c == list[i].id
                 x == score[c]
      <3>1. list[i] = Document(c, list[i].score) /\ c \in Chunks /\ x \in Scores
        BY <1>2, <2>1, DocumentFields
      <3>2. new[i] = [list[i] EXCEPT !.score = x]
        BY <1>3, <2>1
      <3> HIDE DEF c, x
      <3>3. new[i] = Document(c, x)
        BY <3>1, <3>2 DEF Document
      <3>4. new[i].id = c
        BY <3>3 DEF Document
      <3> QED BY <3>1, <3>3, <3>4 DEF Documents, c
    <2>2. CASE list[i].id \notin S
      BY <2>2, <1>2, <1>3
    <2> QED BY <2>1, <2>2
  <1>5. new = [i \in 1..n |-> new[i]]
    BY <1>3
  <1>6. new \in Seq(Documents) /\ Len(new) = n /\ DOMAIN new = 1..n
    BY <1>1, <1>4, <1>5
  <1>7. Distinct(new)
    <2>1. \A i, j \in 1..n : list[i].id = list[j].id => i = j
      BY <1>1, DistinctPositions DEF Sound
    <2> QED BY <2>1, <1>4, <1>6, DistinctPositions
  <1> QED BY <1>1, <1>4, <1>6, <1>7 DEF Sound, new, n

LEMMA IdsOfSound ==
  ASSUME NEW list, Sound(list)
  PROVE  /\ Range(Ids(list)) = {list[i].id : i \in DOMAIN list}
         /\ Range(Ids(list)) \subseteq Chunks
         /\ IsFiniteSet(Range(Ids(list))) /\ Cardinality(Range(Ids(list))) <= Len(list)
  <1> DEFINE ids == Ids(list)
             R == Range(ids)
  <1>1. list \in Seq(Documents) /\ DOMAIN list = 1..Len(list)
    BY DEF Sound
  <1>2. \A i \in DOMAIN list : list[i].id \in Chunks
    BY <1>1, DocumentFields
  <1>3. R = {list[i].id : i \in DOMAIN list}
    BY DEF Range, Ids
  <1>4. ids \in [DOMAIN list -> R]
    BY <1>3 DEF Ids
  <1>5. \A x \in R : \E i \in DOMAIN list : ids[i] = x
    BY <1>3 DEF Ids
  <1>6. ids \in Surjection(DOMAIN list, R)
    BY <1>4, <1>5 DEF Surjection
  <1>7. IsFiniteSet(DOMAIN list) /\ Cardinality(DOMAIN list) = Len(list)
    BY <1>1, DomainFinite
  <1>8. R \subseteq Chunks
    BY <1>2, <1>3
  <1> HIDE DEF ids, R
  <1>9. IsFiniteSet(R) /\ Cardinality(R) <= Cardinality(DOMAIN list)
    BY <1>6, <1>7, FS_Surjection
  <1> QED BY <1>3, <1>7, <1>8, <1>9 DEF R, ids

(* What the service ranked, placed: chunks of the list, each once. *)
LEMMA RankedIsSound ==
  ASSUME NEW list, Sound(list), NEW S, S \subseteq Range(Ids(list)),
         NEW score \in [S -> Scores], NEW order \in SetToSeqs(S),
         NEW new, new = Place([i \in DOMAIN order |-> Document(order[i], score[order[i]])])
  PROVE  /\ Sound(new) /\ Len(new) <= Len(list)
         /\ \A k \in DOMAIN new : \E i \in DOMAIN list : new[k].id = list[i].id
  <1> DEFINE sorted == [i \in DOMAIN order |-> Document(order[i], score[order[i]])]
             R == Range(Ids(list))
  <1>1. /\ R = {list[i].id : i \in DOMAIN list} /\ R \subseteq Chunks
        /\ IsFiniteSet(R) /\ Cardinality(R) <= Len(list)
    BY IdsOfSound
  <1>2. sorted \in Listings(S)
    BY DEF Listings
  <1>a. new = Place(sorted)
    OBVIOUS
  <1> HIDE DEF sorted, R
  <1>3. S \subseteq Chunks /\ S \subseteq R
    BY <1>1 DEF R
  <1>4. Sound(sorted) /\ Len(sorted) = Cardinality(S) /\ \A i \in DOMAIN sorted : sorted[i].id \in S
    BY <1>2, <1>3, ListingsAreSound
  <1>5. Cardinality(S) <= Cardinality(R) /\ Cardinality(S) \in Nat /\ Cardinality(R) \in Nat
    <2>1. IsFiniteSet(S) /\ Cardinality(S) <= Cardinality(R)
      BY <1>1, <1>3, FS_Subset
    <2> QED BY <2>1, <1>1, FS_CardinalityType
  <1>6. /\ new \in Seq(Documents) /\ Len(new) = Len(sorted) /\ Distinct(new)
        /\ \A k \in DOMAIN new : \E i \in DOMAIN sorted : new[k] = sorted[i]
    <2>1. sorted \in Seq(Documents) /\ Distinct(sorted)
      BY <1>4 DEF Sound
    <2>2. /\ Place(sorted) \in Seq(Documents) /\ Len(Place(sorted)) = Len(sorted)
          /\ Distinct(sorted) => Distinct(Place(sorted))
          /\ \A k \in DOMAIN Place(sorted) :
               \E i \in DOMAIN sorted : Place(sorted)[k] = sorted[i]
      BY <2>1, PlacedList
    <2> QED BY <2>1, <2>2, <1>a, Zenon
  <1>7. Len(new) <= Len(list)
    <2>1. Len(list) \in Nat
      BY DEF Sound
    <2> QED BY <2>1, <1>1, <1>4, <1>5, <1>6, SMT
  <1>8. \A k \in DOMAIN new : \E i \in DOMAIN list : new[k].id = list[i].id
    <2> TAKE k \in DOMAIN new
    <2>1. PICK i \in DOMAIN sorted : new[k] = sorted[i]
      BY <1>6
    <2>2. new[k].id \in {list[j].id : j \in DOMAIN list}
      BY <2>1, <1>1, <1>3, <1>4
    <2> QED BY <2>2
  <1> QED BY <1>6, <1>7, <1>8 DEF Sound

(* The answer to a list that passed the threshold: the chunks that stay.   *)
AnswerTo(list) == ExpandParent(deduplicateByFile(list))

(* kept are the positions of list that the answer has. *)
Keeps(list, kept) ==
  /\ SettledUpTo(list, Len(list), kept)
  /\ \A i \in DOMAIN list : list[i].id \in Range(Ids(AnswerTo(list))) <=> i \in kept
  /\ \A c \in Range(Ids(AnswerTo(list))) : \E i \in kept : c = list[i].id

LEMMA AnswerIsSound ==
  ASSUME NEW list, Sound(list)
  PROVE  /\ IsInjective(Ids(AnswerTo(list))) /\ Range(Ids(AnswerTo(list))) \subseteq Chunks
         /\ Len(AnswerTo(list)) <= Len(list)
         /\ \E kept : Keeps(list, kept)
  <1> DEFINE left == deduplicateByFile(list)
             answered == AnswerTo(list)
  <1>1. list \in Seq(Documents) /\ Distinct(list)
    BY DEF Sound
  <1>2. \A h \in DOMAIN list : list[h].score \in Int
    BY <1>1, DocumentFields
  <1>3. /\ left \in Seq(Documents) /\ Len(left) <= Len(list)
        /\ Distinct(left) /\ \E kept : LeftOf(list, left, kept)
    BY <1>1, <1>2, DeduplicatedList
  <1>4. PICK kept : LeftOf(list, left, kept)
    BY <1>3
  <1>5. answered = [i \in DOMAIN left |->
                      [left[i] EXCEPT !.words = @ \cup ParentWords[left[i].id]]]
    BY DEF ExpandParent, AnswerTo
  <1> HIDE DEF left, answered
  <1>6. \A i \in DOMAIN left : answered[i].id = left[i].id
    <2> TAKE i \in DOMAIN left
    <2>1. left[i] = [id |-> left[i].id, score |-> left[i].score, words |-> WordsOf[left[i].id]]
      <3>1. left[i] \in Documents
        BY <1>3
      <3> QED BY <3>1, DocumentFields DEF Document
    <2>2. answered[i] = [left[i] EXCEPT !.words = @ \cup ParentWords[left[i].id]]
      BY <1>5
    <2> QED BY <2>1, <2>2
  <1>7. DOMAIN answered = DOMAIN left /\ Len(answered) = Len(left)
    <2>1. DOMAIN answered = DOMAIN left
      BY <1>5
    <2>2. DOMAIN left = 1..Len(left) /\ Len(left) \in Nat
      BY <1>3
    <2> QED BY <2>1, <2>2
  <1>8. Ids(answered) = Ids(left)
    BY <1>6, <1>7 DEF Ids
  <1>9. Sound(left)
    BY <1>3 DEF Sound
  <1>10. IsInjective(Ids(answered))
    BY <1>3, <1>8 DEF Distinct
  <1>11. /\ Range(Ids(answered)) = {left[i].id : i \in DOMAIN left}
         /\ Range(Ids(answered)) \subseteq Chunks
    BY <1>8, <1>9, IdsOfSound
  <1>12. Keeps(list, kept)
    <2>1. /\ SettledUpTo(list, Len(list), kept)
          /\ \A i \in kept : \E k \in DOMAIN left : left[k] = list[i]
          /\ \A k \in DOMAIN left : \E i \in kept : left[k] = list[i]
      BY <1>4 DEF LeftOf
    <2>2. kept \subseteq DOMAIN list
      BY <2>1 DEF SettledUpTo
    <2>3. \A c \in Range(Ids(answered)) : \E i \in kept : c = list[i].id
      BY <2>1, <1>11
    <2>4. \A i \in kept : list[i].id \in Range(Ids(answered))
      BY <2>1, <1>11
    <2>5. \A i, j \in DOMAIN list : list[i].id = list[j].id => i = j
      BY <1>1, DistinctPositions
    <2>6. \A i \in DOMAIN list : list[i].id \in Range(Ids(answered)) <=> i \in kept
      BY <2>2, <2>3, <2>4, <2>5
    <2> QED BY <2>1, <2>3, <2>6 DEF Keeps, answered
  <1> QED BY <1>3, <1>7, <1>10, <1>11, <1>12 DEF answered

-----------------------------------------------------------------------------
(* The inductive invariant. *)

MaxFound == (1 + MaxRewrites) * MaxLimit

(* A list of distinct chunks of these files, no longer than all queries    *)
(* together could find.                                                    *)
FoundIn(list, files) ==
  /\ Sound(list) /\ Len(list) <= MaxFound
  /\ \A i \in DOMAIN list : FileOf[list[i].id] \in files

CountersInv ==
  /\ tool \in Tools
  /\ pc \in {"none", "list", "rewrite", "retrieve", "rerank", "finish", "ok", "error"}
  /\ limit \in 1..MaxLimit
  /\ queries \in 1..1 + MaxRewrites /\ tried \in 0..queries /\ lists \in 0..tried

AccessInv == fileIDs \subseteq FileIds /\ fileIDs \subseteq readable

FoundInv ==
  /\ found \subseteq Chunks /\ \A c \in found : FileOf[c] \in fileIDs
  /\ Cardinality(found) <= tried * MaxLimit

ListsInv == FoundIn(docs, fileIDs) /\ FoundIn(matched, fileIDs) /\ answer = AnswerTo(matched)

(* Until the files are listed there is nothing that could belong to others. *)
FreshInv ==
  pc \in {"list", "rewrite"} =>
    tried = 0 /\ lists = 0 /\ found = {} /\ docs = <<>> /\ matched = <<>>

SearchInv == CountersInv /\ AccessInv /\ FoundInv /\ ListsInv /\ FreshInv

LEMMA FoundBounds ==
  ASSUME NEW n \in 0..1 + MaxRewrites
  PROVE  /\ n * MaxLimit \in Nat /\ n * MaxLimit <= MaxFound /\ MaxFound \in Nat
         /\ (n + 1) * MaxLimit = n * MaxLimit + MaxLimit
  <1>0. MaxLimit \in Nat /\ MaxRewrites \in Nat /\ n \in Nat
    BY LimitAssumption, SMT
  <1> DEFINE r == 1 + MaxRewrites - n
  <1>1. r \in Nat /\ 1 + MaxRewrites = n + r
    BY <1>0, SMT
  <1> HIDE DEF r
  <1>2. (n + r) * MaxLimit = n * MaxLimit + r * MaxLimit
    BY <1>0, <1>1, SMT
  <1>3. r * MaxLimit \in Nat /\ n * MaxLimit \in Nat
    BY <1>0, <1>1, SMT
  <1>4. MaxFound = n * MaxLimit + r * MaxLimit
    BY <1>1, <1>2 DEF MaxFound
  <1>5. (n + 1) * MaxLimit = n * MaxLimit + MaxLimit
    BY <1>0, SMT
  <1> QED BY <1>3, <1>4, <1>5, SMT

LEMMA NothingFound ==
  ASSUME NEW files
  PROVE  FoundIn(<<>>, files) /\ AnswerTo(<<>>) = <<>> /\ Cardinality({}) = 0
  <1>1. MaxFound \in Nat
    BY FoundBounds, LimitAssumption, SMT
  <1>2. FoundIn(<<>>, files)
    BY <1>1, EmptyIsSound, SMT DEF FoundIn
  <1>3. Len(AnswerTo(<<>>)) <= 0
    BY EmptyIsSound, AnswerIsSound
  <1>4. AnswerTo(<<>>) = <<>>
    <2>1. deduplicateByFile(<<>>) \in Seq(Documents) /\ Len(deduplicateByFile(<<>>)) <= 0
      <3>1. <<>> \in Seq(Documents) /\ (\A h \in DOMAIN <<>> : <<>>[h].score \in Int) /\ Len(<<>>) = 0
        BY SMT
      <3> QED BY <3>1, DeduplicatedList
    <2>2. deduplicateByFile(<<>>) = <<>>
      BY <2>1, SMT
    <2>3. AnswerTo(<<>>) = [i \in DOMAIN <<>> |-> [<<>>[i] EXCEPT !.words = @ \cup ParentWords[<<>>[i].id]]]
      BY <2>2 DEF AnswerTo, ExpandParent
    <2> QED BY <2>3, SMT
  <1> QED BY <1>2, <1>4, FS_EmptySet

LEMMA InitEstablishes ==
  ASSUME Init
  PROVE  SearchInv
  <1>1. CountersInv
    BY LimitAssumption, SMT DEF Init, CountersInv
  <1>2. AccessInv
    BY DEF Init, AccessInv
  <1>3. FoundInv
    <2>1. 0 * MaxLimit = 0
      BY LimitAssumption, SMT
    <2> QED BY <2>1, NothingFound DEF Init, FoundInv
  <1>4. ListsInv
    BY NothingFound DEF Init, ListsInv
  <1>5. FreshInv
    BY DEF Init, FreshInv
  <1> QED BY <1>1, <1>2, <1>3, <1>4, <1>5 DEF SearchInv

LEMMA SearchKeeps ==
  ASSUME SearchInv, NEW u \in Users, NEW t \in Tenants, NEW p \in Projects, Search(u, t, p)
  PROVE  SearchInv'
  <1>1. CountersInv'
    <2>1. limit' \in 1..MaxLimit
      BY LimitAssumption, SMT DEF Search, LimitOf
    <2>2. tool' \in Tools /\ pc' \in {"ok", "error", "list"}
      BY DEF Search, SearchInv, CountersInv
    <2>3. queries' \in 1..1 + MaxRewrites /\ tried' \in 0..queries' /\ lists' \in 0..tried'
      BY LimitAssumption, SMT DEF Search
    <2> QED BY <2>1, <2>2, <2>3 DEF CountersInv
  <1>2. AccessInv'
    BY DEF Search, AccessInv
  <1>3. FoundInv'
    <2>1. 0 * MaxLimit = 0
      BY LimitAssumption, SMT
    <2> QED BY <2>1, NothingFound DEF Search, FoundInv
  <1>4. ListsInv'
    BY NothingFound DEF Search, ListsInv
  <1>5. FreshInv'
    BY DEF Search, FreshInv
  <1> QED BY <1>1, <1>2, <1>3, <1>4, <1>5 DEF SearchInv

(* A row that the WHERE clauses select is the caller's to read. *)
LEMMA SelectedIsReadable ==
  ASSUME NEW db \in Databases, NEW f \in DOMAIN db.files,
         Selects(db, db.files[f], caller.user, caller.tenant, caller.project)
  PROVE  f \in Readable(db)
  BY DEF Selects, IsMember, Readable

LEMMA StopKeeps ==
  ASSUME SearchInv, NEW outcome \in {"ok", "error"}, Stop(outcome), UNCHANGED access
  PROVE  SearchInv'
  <1> USE DEF SearchInv, Stop, access, request, result, rerank
  <1>1. CountersInv'
    BY DEF CountersInv
  <1>2. AccessInv'
    BY DEF AccessInv
  <1>3. FoundInv'
    <2>1. tried \in 0..1 + MaxRewrites
      BY LimitAssumption, SMT DEF CountersInv
    <2>2. 0 <= tried * MaxLimit
      BY <2>1, FoundBounds, SMT
    <2> QED BY <2>2, NothingFound DEF FoundInv
  <1>4. ListsInv'
    BY NothingFound DEF ListsInv
  <1>5. FreshInv'
    BY DEF FreshInv
  <1> QED BY <1>1, <1>2, <1>3, <1>4, <1>5

LEMMA ListFilesKeeps ==
  ASSUME SearchInv, ListFiles
  PROVE  SearchInv'
  <1>1. CASE Stop("error") /\ UNCHANGED access
    BY <1>1, StopKeeps
  <1>2. ASSUME NEW db \in Databases,
               fileIDs' = {f \in DOMAIN db.files :
                            Selects(db, db.files[f], caller.user, caller.tenant, caller.project)},
               readable' = Readable(db),
               pc' = IF fileIDs' = {} THEN "ok" ELSE "rewrite",
               UNCHANGED <<tool, request, retrieval, docs, result, rerank>>
        PROVE  SearchInv'
    <2>0. /\ tool' = tool /\ limit' = limit /\ docs' = docs /\ answer' = answer /\ matched' = matched
          /\ queries' = queries /\ tried' = tried /\ lists' = lists /\ found' = found
      BY <1>2 DEF request, retrieval, result
    <2>1. tried = 0 /\ lists = 0 /\ found = {} /\ docs = <<>> /\ matched = <<>>
      BY DEF SearchInv, FreshInv, ListFiles
    <2>2. CountersInv'
      BY <1>2, <2>0 DEF SearchInv, CountersInv
    <2>3. AccessInv'
      <3>1. DOMAIN db.files \subseteq FileIds
        BY <1>2 DEF Databases
      <3>2. \A f \in fileIDs' : f \in DOMAIN db.files /\ f \in Readable(db)
        BY <1>2, SelectedIsReadable
      <3> QED BY <1>2, <3>1, <3>2 DEF AccessInv
    <2>4. FoundInv'
      BY <2>0, <2>1 DEF SearchInv, FoundInv
    <2>5. ListsInv'
      BY <2>0, <2>1, NothingFound DEF SearchInv, ListsInv
    <2>6. FreshInv'
      BY <2>0, <2>1 DEF FreshInv
    <2> QED BY <2>2, <2>3, <2>4, <2>5, <2>6 DEF SearchInv
  <1> QED BY <1>1, <1>2 DEF ListFiles

LEMMA RewriteKeeps ==
  ASSUME SearchInv, Rewrite
  PROVE  SearchInv'
  <1>0. /\ tool' = tool /\ limit' = limit /\ docs' = docs /\ answer' = answer /\ matched' = matched
        /\ tried' = tried /\ lists' = lists /\ found' = found
        /\ fileIDs' = fileIDs /\ readable' = readable /\ pc' = "retrieve"
    BY DEF Rewrite, request, access, result
  <1>1. CountersInv'
    <2>1. tried = 0 /\ lists = 0
      BY DEF Rewrite, SearchInv, FreshInv
    <2>2. queries' \in 1..1 + MaxRewrites
      <3>1. PICK n \in RewriteCounts : queries' = 1 + n
        BY DEF Rewrite
      <3>2. n \in 0..MaxRewrites
        BY LimitAssumption, SMT DEF RewriteCounts
      <3> QED BY <3>1, <3>2, LimitAssumption, SMT
    <2>3. tried' \in 0..queries' /\ lists' \in 0..tried'
      BY <1>0, <2>1, <2>2, SMT
    <2> QED BY <1>0, <2>2, <2>3 DEF SearchInv, CountersInv
  <1>2. AccessInv' /\ FoundInv' /\ ListsInv' /\ FreshInv'
    BY <1>0 DEF SearchInv, AccessInv, FoundInv, ListsInv, FreshInv
  <1> QED BY <1>1, <1>2 DEF SearchInv

(* One more list: its chunks are of the listed files and within the limit. *)
LEMMA HitsAreFound ==
  ASSUME SearchInv, tried < queries, NEW S \in Hits
  PROVE  /\ S \subseteq Chunks /\ \A c \in S : FileOf[c] \in fileIDs
         /\ Cardinality(S) \in Nat /\ Cardinality(S) <= MaxFound
         /\ Cardinality(found \cup S) <= (tried + 1) * MaxLimit
  <1>1. S \subseteq Chunks /\ (\A c \in S : FileOf[c] \in fileIDs) /\ Cardinality(S) <= limit
    BY DEF Hits
  <1>2. IsFiniteSet(S) /\ IsFiniteSet(found)
    <2>1. S \in SUBSET Chunks /\ found \in SUBSET Chunks
      BY <1>1 DEF SearchInv, FoundInv
    <2> QED BY <2>1, ChunksAssumption, FS_Subset
  <1>3. Cardinality(S) \in Nat /\ Cardinality(found) \in Nat /\ Cardinality(found \cap S) \in Nat
    <2>1. IsFiniteSet(found \cap S)
      BY <1>2, FS_Intersection
    <2> QED BY <1>2, <2>1, FS_CardinalityType
  <1>4. Cardinality(found \cup S) = Cardinality(found) + Cardinality(S) - Cardinality(found \cap S)
    BY <1>2, FS_Union
  <1>5. /\ tried \in 0..1 + MaxRewrites /\ 1 \in 0..1 + MaxRewrites
        /\ limit \in Nat /\ limit <= MaxLimit /\ MaxLimit \in Nat
    BY LimitAssumption, SMT DEF SearchInv, CountersInv
  <1>6. (tried + 1) * MaxLimit = tried * MaxLimit + MaxLimit /\ tried * MaxLimit \in Nat
    BY <1>5, FoundBounds
  <1>7. 1 * MaxLimit <= MaxFound /\ MaxFound \in Nat
    BY <1>5, FoundBounds
  <1>8. Cardinality(found) <= tried * MaxLimit
    BY DEF SearchInv, FoundInv
  <1> DEFINE a == Cardinality(found)
             b == Cardinality(S)
             c == Cardinality(found \cap S)
             u == Cardinality(found \cup S)
             x == tried * MaxLimit
             y == (tried + 1) * MaxLimit
  <1>9. /\ a \in Nat /\ b \in Nat /\ c \in Nat /\ u = a + b - c /\ b <= limit
        /\ x \in Nat /\ y = x + MaxLimit /\ a <= x
    BY <1>1, <1>3, <1>4, <1>6, <1>8
  <1> HIDE DEF a, b, c, u, x, y
  <1>10. u <= y
    BY <1>5, <1>9, SMT
  <1>11. b <= MaxFound
    BY <1>5, <1>7, <1>9, SMT
  <1> QED BY <1>1, <1>9, <1>10, <1>11 DEF b, u, y

LEMMA RetrieveKeeps ==
  ASSUME SearchInv, Retrieve
  PROVE  SearchInv'
  <1>0. pc = "retrieve" /\ tried < queries /\ fileIDs' = fileIDs /\ readable' = readable
    BY DEF Retrieve, access
  <1>a. tried \in 0..1 + MaxRewrites /\ tried \in Nat /\ queries \in Nat /\ lists \in Nat
    BY LimitAssumption, SMT DEF SearchInv, CountersInv
  <1>1. CASE Stop("error")
    BY <1>1, <1>0, StopKeeps DEF access
  <1>2. ASSUME tried' = tried + 1,
               UNCHANGED <<tool, pc, request, queries, lists, found, gathered, docs, result, rerank>>
        PROVE  SearchInv'
    <2>0. /\ tool' = tool /\ pc' = pc /\ limit' = limit /\ docs' = docs /\ answer' = answer
          /\ matched' = matched /\ queries' = queries /\ lists' = lists /\ found' = found
      BY <1>2 DEF request, result
    <2>1. CountersInv'
      <3>1. tried' \in 0..queries /\ lists \in 0..tried'
        BY <1>0, <1>2, <1>a, SMT DEF SearchInv, CountersInv
      <3> QED BY <2>0, <3>1 DEF SearchInv, CountersInv
    <2>2. FoundInv'
      <3>1. /\ (tried + 1) * MaxLimit = tried * MaxLimit + MaxLimit
            /\ tried * MaxLimit \in Nat /\ MaxLimit \in Nat
        BY <1>a, FoundBounds, LimitAssumption
      <3>2. Cardinality(found) \in Nat
        <4>1. found \in SUBSET Chunks
          BY DEF SearchInv, FoundInv
        <4>2. IsFiniteSet(found)
          BY <4>1, ChunksAssumption, FS_Subset
        <4> QED BY <4>2, FS_CardinalityType
      <3>3. Cardinality(found) <= tried * MaxLimit
        BY DEF SearchInv, FoundInv
      <3> DEFINE a == Cardinality(found)
                 x == tried * MaxLimit
                 y == (tried + 1) * MaxLimit
      <3>4. a <= x /\ a \in Nat /\ x \in Nat /\ y = x + MaxLimit
        BY <3>1, <3>2, <3>3
      <3> HIDE DEF a, x, y
      <3>5. a <= y
        BY <3>1, <3>4, SMT
      <3>6. Cardinality(found') <= tried' * MaxLimit
        BY <3>5, <2>0, <1>2 DEF a, y
      <3> QED BY <3>6, <2>0, <1>0 DEF SearchInv, FoundInv
    <2>3. AccessInv' /\ ListsInv' /\ FreshInv'
      BY <1>0, <2>0 DEF SearchInv, AccessInv, ListsInv, FreshInv
    <2> QED BY <2>1, <2>2, <2>3 DEF SearchInv
  <1>3. ASSUME NEW S \in Hits,
               (tried = 0 /\ docs' \in Listings(S)) \/ (tried > 0 /\ docs' = <<>>),
               tried' = tried + 1, lists' = lists + 1, found' = Grouped(S),
               UNCHANGED <<tool, pc, request, queries, result, rerank>>
        PROVE  SearchInv'
    <2>0. /\ tool' = tool /\ pc' = pc /\ limit' = limit /\ answer' = answer
          /\ matched' = matched /\ queries' = queries /\ found' = found \cup S
      BY <1>3 DEF request, result, Grouped
    <2>1. CountersInv'
      <3>1. tried' \in 0..queries /\ lists' \in 0..tried'
        BY <1>0, <1>3, <1>a, SMT DEF SearchInv, CountersInv
      <3> QED BY <2>0, <3>1 DEF SearchInv, CountersInv
    <2>2. /\ S \subseteq Chunks /\ \A c \in S : FileOf[c] \in fileIDs
          /\ Cardinality(S) \in Nat /\ Cardinality(S) <= MaxFound
          /\ Cardinality(found \cup S) <= (tried + 1) * MaxLimit
      BY <1>0, <1>3, HitsAreFound
    <2>3. FoundInv'
      <3>1. Cardinality(found') <= tried' * MaxLimit
        BY <2>0, <2>2, <1>3
      <3>2. found' \subseteq Chunks /\ \A c \in found' : FileOf[c] \in fileIDs'
        BY <2>0, <2>2, <1>0, <1>3 DEF SearchInv, FoundInv
      <3> QED BY <3>1, <3>2 DEF FoundInv
    <2>4. FoundIn(docs', fileIDs)
      <3>1. CASE docs' \in Listings(S)
        <4>1. /\ Sound(docs') /\ Len(docs') = Cardinality(S)
              /\ \A i \in DOMAIN docs' : docs'[i].id \in S
          BY <3>1, <2>2, ListingsAreSound
        <4> QED BY <4>1, <2>2 DEF FoundIn
      <3>2. CASE docs' = <<>>
        BY <3>2, NothingFound
      <3> QED BY <1>3, <3>1, <3>2
    <2>5. ListsInv'
      BY <2>0, <2>4, <1>0 DEF SearchInv, ListsInv
    <2>6. AccessInv' /\ FreshInv'
      BY <1>0, <2>0 DEF SearchInv, AccessInv, FreshInv
    <2> QED BY <2>1, <2>3, <2>5, <2>6 DEF SearchInv
  <1> QED BY <1>1, <1>2, <1>3 DEF Retrieve

LEMMA FuseKeeps ==
  ASSUME SearchInv, Fuse
  PROVE  SearchInv'
  <1>0. pc = "retrieve" /\ fileIDs' = fileIDs /\ readable' = readable
    BY DEF Fuse, access
  <1>1. CASE Stop("error")
    BY <1>1, <1>0, StopKeeps DEF access
  <1>2. ASSUME docs' \in (IF lists = 1 THEN {docs} ELSE Listings(found)),
               found' = {}, pc' = "rerank",
               UNCHANGED <<tool, request, queries, tried, lists, result, rerank>>
        PROVE  SearchInv'
    <2>0. /\ tool' = tool /\ limit' = limit /\ answer' = answer /\ matched' = matched
          /\ queries' = queries /\ tried' = tried /\ lists' = lists
      BY <1>2 DEF request, result
    <2>a. tried \in 0..1 + MaxRewrites
      BY LimitAssumption, SMT DEF SearchInv, CountersInv
    <2>b. tried * MaxLimit \in Nat /\ tried * MaxLimit <= MaxFound /\ MaxFound \in Nat
      BY <2>a, FoundBounds
    <2>1. CountersInv'
      BY <1>2, <2>0 DEF SearchInv, CountersInv
    <2>2. FoundInv'
      <3>1. 0 <= tried * MaxLimit
        BY <2>b, SMT
      <3> QED BY <3>1, <1>2, <2>0, NothingFound DEF FoundInv
    <2>3. FoundIn(docs', fileIDs)
      <3>1. CASE docs' = docs
        BY <3>1 DEF SearchInv, ListsInv
      <3>2. CASE docs' \in Listings(found)
        <4>0. /\ found \subseteq Chunks /\ \A c \in found : FileOf[c] \in fileIDs
              /\ Cardinality(found) <= tried * MaxLimit
          BY DEF SearchInv, FoundInv
        <4>1. /\ Sound(docs') /\ Len(docs') = Cardinality(found)
              /\ \A i \in DOMAIN docs' : docs'[i].id \in found
          BY <3>2, <4>0, ListingsAreSound
        <4>2. Len(docs') \in Nat
          BY <4>1 DEF Sound
        <4> DEFINE x == tried * MaxLimit
        <4>3. Len(docs') <= x /\ x <= MaxFound /\ x \in Nat
          BY <4>0, <4>1, <2>b
        <4> HIDE DEF x
        <4>4. Len(docs') <= MaxFound
          BY <4>2, <4>3, <2>b, SMT
        <4> QED BY <4>0, <4>1, <4>4 DEF FoundIn
      <3> QED BY <1>2, <3>1, <3>2
    <2>4. ListsInv'
      BY <2>0, <2>3, <1>0 DEF SearchInv, ListsInv
    <2>5. AccessInv' /\ FreshInv'
      BY <1>0, <1>2 DEF SearchInv, AccessInv, FreshInv
    <2> QED BY <2>1, <2>2, <2>4, <2>5 DEF SearchInv
  <1> QED BY <1>1, <1>2 DEF Fuse

(* A step to finish that only replaces the documents in hand. *)
LEMMA DocsReplaced ==
  ASSUME SearchInv, FoundIn(docs', fileIDs), pc' = "finish",
         UNCHANGED <<tool, request, access, retrieval, result>>
  PROVE  SearchInv'
  <1>0. /\ tool' = tool /\ limit' = limit /\ answer' = answer /\ matched' = matched
        /\ queries' = queries /\ tried' = tried /\ lists' = lists /\ found' = found
        /\ fileIDs' = fileIDs /\ readable' = readable
    BY DEF request, access, retrieval, result
  <1>1. CountersInv'
    BY <1>0 DEF SearchInv, CountersInv
  <1>2. AccessInv' /\ FoundInv' /\ FreshInv'
    BY <1>0 DEF SearchInv, AccessInv, FoundInv, FreshInv
  <1>3. ListsInv'
    BY <1>0 DEF SearchInv, ListsInv
  <1> QED BY <1>1, <1>2, <1>3 DEF SearchInv

LEMMA RerankFailsKeeps ==
  ASSUME SearchInv, RerankFails
  PROVE  SearchInv'
  <1>1. PICK r \in (IF InvalidIndex THEN Rescorings(docs) ELSE {<<{}, <<>>>>}) :
          docs' = Scored(docs, r[1], r[2])
    BY DEF RerankFails
  <1>2. r[2] \in [r[1] -> Scores]
    <2>1. CASE InvalidIndex
      <3>1. PICK S, score : score \in [S -> Scores] /\ r = <<S, score>>
        BY <1>1, <2>1 DEF Rescorings
      <3> QED BY <3>1
    <2>2. CASE ~InvalidIndex
      <3>1. r = <<{}, <<>>>>
        BY <1>1, <2>2
      <3>2. <<>> \in [{} -> Scores]
        BY SMT
      <3> QED BY <3>1, <3>2
    <2> QED BY <2>1, <2>2
  <1>3. FoundIn(docs, fileIDs)
    BY DEF SearchInv, ListsInv
  <1>4. FoundIn(docs', fileIDs)
    <2> DEFINE S == r[1]
               score == r[2]
    <2>1. score \in [S -> Scores] /\ docs' = Scored(docs, S, score) /\ Sound(docs)
      BY <1>1, <1>2, <1>3 DEF FoundIn
    <2> HIDE DEF S, score
    <2>2. /\ Sound(docs') /\ Len(docs') = Len(docs) /\ DOMAIN docs' = DOMAIN docs
          /\ \A i \in DOMAIN docs : docs'[i].id = docs[i].id
      BY <2>1, ScoredIsSound
    <2> QED BY <2>2, <1>3 DEF FoundIn
  <1> QED BY <1>4, DocsReplaced DEF RerankFails

LEMMA RankedKeeps ==
  ASSUME SearchInv, Ranked
  PROVE  SearchInv'
  <1>1. PICK r \in Rescorings(docs) :
          \E order \in SetToSeqs(r[1]) :
            docs' = Place([i \in DOMAIN order |-> Document(order[i], r[2][order[i]])])
    BY DEF Ranked
  <1>2. PICK order \in SetToSeqs(r[1]) :
          docs' = Place([i \in DOMAIN order |-> Document(order[i], r[2][order[i]])])
    BY <1>1
  <1>3. PICK S, score : S \in SUBSET Range(Ids(docs)) /\ score \in [S -> Scores] /\ r = <<S, score>>
    BY DEF Rescorings
  <1>4. FoundIn(docs, fileIDs)
    BY DEF SearchInv, ListsInv
  <1>5. /\ S \subseteq Range(Ids(docs)) /\ order \in SetToSeqs(S)
        /\ docs' = Place([i \in DOMAIN order |-> Document(order[i], score[order[i]])])
    BY <1>2, <1>3
  <1>6. Sound(docs)
    BY <1>4 DEF FoundIn
  <1>7. /\ Sound(docs') /\ Len(docs') <= Len(docs)
        /\ \A k \in DOMAIN docs' : \E i \in DOMAIN docs : docs'[k].id = docs[i].id
    BY <1>3, <1>5, <1>6, RankedIsSound
  <1>8. FoundIn(docs', fileIDs)
    <2>1. Len(docs') \in Nat /\ Len(docs) \in Nat /\ MaxFound \in Nat
      BY <1>6, <1>7, FoundBounds, LimitAssumption, SMT DEF Sound
    <2>2. Len(docs') <= MaxFound
      BY <2>1, <1>4, <1>7, SMT DEF FoundIn
    <2> QED BY <2>2, <1>4, <1>7 DEF FoundIn
  <1> QED BY <1>8, DocsReplaced DEF Ranked

LEMMA UnrankedKeeps ==
  ASSUME SearchInv, Unranked
  PROVE  SearchInv'
  <1>1. FoundIn(docs', fileIDs)
    BY DEF SearchInv, ListsInv, Unranked
  <1> QED BY <1>1, DocsReplaced DEF Unranked

LEMMA FinishKeeps ==
  ASSUME SearchInv, Finish
  PROVE  SearchInv'
  <1>0. /\ tool' = tool /\ limit' = limit /\ pc' = "ok" /\ docs' = <<>>
        /\ queries' = queries /\ tried' = tried /\ lists' = lists /\ found' = found
        /\ fileIDs' = fileIDs /\ readable' = readable
        /\ matched' = filterByMinScore(docs, minScore) /\ answer' = Finished(docs, minScore)
    BY DEF Finish, request, access, retrieval
  <1>1. FoundIn(docs, fileIDs)
    BY DEF SearchInv, ListsInv
  <1>2. docs \in Seq(Documents) /\ Distinct(docs)
    BY <1>1 DEF FoundIn, Sound
  <1>3. /\ matched' \in Seq(Documents) /\ Len(matched') <= Len(docs) /\ Distinct(matched')
        /\ \A k \in DOMAIN matched' : \E i \in DOMAIN docs : matched'[k] = docs[i]
    <2> DEFINE list == filterByMinScore(docs, minScore)
    <2>1. /\ list \in Seq(Documents) /\ Len(list) <= Len(docs)
          /\ Distinct(docs) => Distinct(list)
          /\ \A k \in DOMAIN list : \E i \in DOMAIN docs : list[k] = docs[i]
      BY <1>2, FilteredList
    <2> HIDE DEF list
    <2>2. matched' = list
      BY <1>0 DEF list
    <2> QED BY <2>1, <2>2, <1>2
  <1>4. FoundIn(matched', fileIDs)
    <2>1. Len(matched') \in Nat /\ Len(docs) \in Nat /\ MaxFound \in Nat
      BY <1>2, <1>3, FoundBounds, LimitAssumption, SMT
    <2>2. Len(matched') <= MaxFound
      BY <2>1, <1>1, <1>3, SMT DEF FoundIn
    <2>3. \A k \in DOMAIN matched' : FileOf[matched'[k].id] \in fileIDs
      BY <1>1, <1>3 DEF FoundIn
    <2> QED BY <2>2, <2>3, <1>3 DEF FoundIn, Sound
  <1>5. ListsInv'
    BY <1>0, <1>4, NothingFound DEF ListsInv, Finished, AnswerTo
  <1>6. CountersInv'
    BY <1>0 DEF SearchInv, CountersInv
  <1>7. AccessInv' /\ FoundInv' /\ FreshInv'
    BY <1>0 DEF SearchInv, AccessInv, FoundInv, FreshInv
  <1> QED BY <1>5, <1>6, <1>7 DEF SearchInv

(* SearchInv is inductive. *)
THEOREM Invariance == Spec => []SearchInv
  <1>1. Init => SearchInv
    BY InitEstablishes
  <1>2. SearchInv /\ [Next]_vars => SearchInv'
    <2> SUFFICES ASSUME SearchInv, [Next]_vars PROVE SearchInv'
      OBVIOUS
    <2>1. ASSUME NEW u \in Users, NEW t \in Tenants, NEW p \in Projects, Search(u, t, p)
          PROVE  SearchInv'
      BY <2>1, SearchKeeps
    <2>2. CASE ListFiles
      BY <2>2, ListFilesKeeps
    <2>3. CASE Rewrite
      BY <2>3, RewriteKeeps
    <2>4. CASE Retrieve
      BY <2>4, RetrieveKeeps
    <2>5. CASE Fuse
      BY <2>5, FuseKeeps
    <2>6. CASE RerankFails
      BY <2>6, RerankFailsKeeps
    <2>7. CASE Ranked
      BY <2>7, RankedKeeps
    <2>8. CASE Unranked
      BY <2>8, UnrankedKeeps
    <2>9. CASE Finish
      BY <2>9, FinishKeeps
    <2>10. CASE UNCHANGED vars
      BY <2>10 DEF vars, request, access, retrieval, result, rerank,
               SearchInv, CountersInv, AccessInv, FoundInv, ListsInv, FreshInv
    <2> QED BY <2>1, <2>2, <2>3, <2>4, <2>5, <2>6, <2>7, <2>8, <2>9, <2>10 DEF Next
  <1> QED BY <1>1, <1>2, PTL DEF Spec

-----------------------------------------------------------------------------
(* The properties. *)

(* What the code compares is what the properties call twins: with an empty *)
(* side jaccard does not divide.                                           *)
LEMMA AlikeIsTwins ==
  ASSUME NEW d \in Documents, NEW e \in Documents, d.id # e.id
  PROVE  Alike(d, e) <=> Twins(d, e)
  <1> DEFINE a == d.words
             b == e.words
             x == Cardinality(a \cap b)
             y == Cardinality(a \cup b)
  <1>1. a = WordsOf[d.id] /\ b = WordsOf[e.id] /\ d.id \in Chunks /\ e.id \in Chunks
    BY DocumentFields
  <1>2. IsFiniteSet(a) /\ IsFiniteSet(b)
    BY <1>1, ChunksAssumption
  <1>3. IsFiniteSet(a \cap b) /\ IsFiniteSet(a \cup b)
    BY <1>2, FS_Intersection, FS_Union
  <1>4. x \in Nat /\ y \in Nat
    BY <1>3, FS_CardinalityType
  <1>5. a = {} \/ b = {} => x = 0
    <2>1. a = {} \/ b = {} => a \cap b = {}
      OBVIOUS
    <2> QED BY <2>1, FS_EmptySet
  <1>6. Twins(d, e) <=> FileOf[d.id] = FileOf[e.id] /\ (a \cup b = {} \/ 5 * x > 4 * y)
    BY <1>1 DEF Twins
  <1>7. Alike(d, e) <=> FileOf[d.id] = FileOf[e.id] /\
                        (IF a = {} \/ b = {} THEN a = b ELSE 5 * x > 4 * y)
    BY DEF Alike, SameFile, Similar
  <1> HIDE DEF x, y
  <1>8. CASE a = {} \/ b = {}
    <2>1. ~ (5 * x > 4 * y)
      BY <1>4, <1>5, <1>8, SMT
    <2>2. a = b <=> a \cup b = {}
      BY <1>8
    <2> QED BY <1>6, <1>7, <1>8, <2>1, <2>2
  <1>9. CASE ~ (a = {} \/ b = {})
    <2>1. a \cup b # {}
      BY <1>9
    <2> QED BY <1>6, <1>7, <1>9, <2>1
  <1> QED BY <1>8, <1>9

(* Positions of matched and the chunks of it that are answered. *)
LEMMA AnsweredPositions ==
  ASSUME SearchInv
  PROVE  /\ matched \in Seq(Documents) /\ Sound(matched)
         /\ \A i \in DOMAIN matched : matched[i] \in Documents
         /\ \A i, j \in DOMAIN matched : matched[i].id = matched[j].id => i = j
         /\ Matched = {matched[i] : i \in DOMAIN matched}
         /\ \E kept : Keeps(matched, kept) /\ \A i \in DOMAIN matched :
                        matched[i].id \in Answered <=> i \in kept
  <1>1. Sound(matched) /\ answer = AnswerTo(matched)
    BY DEF SearchInv, ListsInv, FoundIn
  <1>2. matched \in Seq(Documents) /\ Distinct(matched)
    BY <1>1 DEF Sound
  <1>3. PICK kept : Keeps(matched, kept)
    BY <1>1, AnswerIsSound
  <1>4. \A i \in DOMAIN matched : matched[i].id \in Answered <=> i \in kept
    BY <1>1, <1>3 DEF Keeps, Answered
  <1>5. \A i, j \in DOMAIN matched : matched[i].id = matched[j].id => i = j
    BY <1>2, DistinctPositions
  <1>6. Matched = {matched[i] : i \in DOMAIN matched}
    BY DEF Matched, Range
  <1>7. \A i \in DOMAIN matched : matched[i] \in Documents
    BY <1>2
  <1> QED BY <1>1, <1>2, <1>3, <1>4, <1>5, <1>6, <1>7

(* Counters and lengths of knowledge_search stay in their ranges.          *)
THEOREM TypeCorrect == Spec => []TypeOK
  <1>1. SearchInv => TypeOK
    <2> SUFFICES ASSUME SearchInv PROVE TypeOK
      OBVIOUS
    <2>1. FoundIn(docs, fileIDs) /\ FoundIn(matched, fileIDs) /\ answer = AnswerTo(matched)
      BY DEF SearchInv, ListsInv
    <2>2. Sound(docs) /\ Sound(matched) /\ Len(matched) <= MaxFound
      BY <2>1 DEF FoundIn
    <2>3. IsInjective(Ids(docs)) /\ Range(Ids(docs)) \subseteq Chunks
      BY <2>2, IdsOfSound DEF Sound, Distinct
    <2>4. IsInjective(Ids(matched)) /\ Range(Ids(matched)) \subseteq Chunks
      BY <2>2, IdsOfSound DEF Sound, Distinct
    <2>5. /\ IsInjective(Ids(answer)) /\ Range(Ids(answer)) \subseteq Chunks
          /\ Len(answer) <= Len(matched)
      BY <2>1, <2>2, AnswerIsSound
    <2>6. Len(answer) <= (1 + MaxRewrites) * MaxLimit
      <3>1. Len(matched) \in Nat /\ MaxFound \in Nat
        BY <2>2, FoundBounds, LimitAssumption, SMT DEF Sound
      <3>2. Len(answer) \in Int
        <4>1. answer = [i \in DOMAIN deduplicateByFile(matched) |->
                [deduplicateByFile(matched)[i] EXCEPT
                   !.words = @ \cup ParentWords[deduplicateByFile(matched)[i].id]]]
          BY <2>1 DEF AnswerTo, ExpandParent
        <4>2. deduplicateByFile(matched) \in Seq(Documents)
          <5>1. matched \in Seq(Documents) /\ \A h \in DOMAIN matched : matched[h].score \in Int
            BY <2>2, DocumentFields DEF Sound
          <5> QED BY <5>1, DeduplicatedList
        <4> DEFINE n == Len(deduplicateByFile(matched))
        <4>3. n \in Nat /\ DOMAIN deduplicateByFile(matched) = 1..n
          BY <4>2
        <4> HIDE DEF n
        <4>4. DOMAIN answer = 1..n
          BY <4>1, <4>3
        <4>5. Len(answer) = n
          BY <4>1, <4>3, <4>4
        <4> QED BY <4>3, <4>5
      <3>3. Len(answer) <= MaxFound
        BY <3>1, <3>2, <2>2, <2>5, SMT
      <3> QED BY <3>3 DEF MaxFound
    <2> QED BY <2>3, <2>4, <2>5, <2>6
         DEF TypeOK, SearchInv, CountersInv, AccessInv, FoundInv
  <1> QED BY <1>1, Invariance, PTL

(* An answer only has chunks of files that UserFileIDs's caller may read. *)
THEOREM OnlyReadableAnswered == Spec => []AnswersReadable
  <1>1. SearchInv => AnswersReadable
    <2> SUFFICES ASSUME SearchInv, NEW c \in Answered PROVE FileOf[c] \in readable
      BY DEF AnswersReadable
    <2>1. FoundIn(matched, fileIDs) /\ answer = AnswerTo(matched)
      BY DEF SearchInv, ListsInv
    <2>2. PICK kept : Keeps(matched, kept)
      BY <2>1, AnswerIsSound DEF FoundIn
    <2>3. PICK i \in kept : c = matched[i].id
      BY <2>1, <2>2 DEF Keeps, Answered
    <2>4. i \in DOMAIN matched
      BY <2>2 DEF Keeps, SettledUpTo
    <2>5. FileOf[c] \in fileIDs
      BY <2>1, <2>3, <2>4 DEF FoundIn
    <2> QED BY <2>5 DEF SearchInv, AccessInv
  <1> QED BY <1>1, Invariance, PTL

(* deduplicateByFile leaves no two chunks of a file that read the same,    *)
(* whatever the order and the chain of likenesses it meets.                *)
THEOREM NothingTwice == Spec => []NoTwinsAnswered
  <1>1. SearchInv => NoTwinsAnswered
    <2> SUFFICES ASSUME SearchInv, NEW d \in Matched, NEW e \in Matched, Twins(d, e),
                        d.id \in Answered, e.id \in Answered
                 PROVE  FALSE
      BY DEF NoTwinsAnswered
    <2>1. /\ \A i \in DOMAIN matched : matched[i] \in Documents
          /\ Matched = {matched[i] : i \in DOMAIN matched}
          /\ matched \in Seq(Documents)
      BY AnsweredPositions
    <2>2. PICK kept : /\ Keeps(matched, kept)
                      /\ \A i \in DOMAIN matched : matched[i].id \in Answered <=> i \in kept
      BY AnsweredPositions
    <2>3. PICK i \in DOMAIN matched, j \in DOMAIN matched : d = matched[i] /\ e = matched[j]
      BY <2>1
    <2>4. i \in kept /\ j \in kept /\ d.id # e.id
      BY <2>2, <2>3 DEF Twins
    <2>5. Alike(d, e) /\ Alike(e, d)
      BY <2>1, <2>3, <2>4, AlikeIsTwins, AlikeSymmetric
    <2>6. \A h, k \in kept : h <= Len(matched) /\ h < k => ~Alike(matched[h], matched[k])
      BY <2>2 DEF Keeps, SettledUpTo
    <2>7. i \in 1..Len(matched) /\ j \in 1..Len(matched) /\ i # j
      BY <2>1, <2>3, <2>4
    <2>8. /\ i <= Len(matched) /\ j <= Len(matched)
          /\ i < j \/ j < i
      BY <2>7, <2>1, SMT
    <2> QED BY <2>3, <2>4, <2>5, <2>6, <2>8
  <1> QED BY <1>1, Invariance, PTL

(* deduplicateByFile only drops a chunk for a twin that scores no less.    *)
LEMMA OnlyForTwin == SearchInv => OnlyTwinsDropped
  <1> SUFFICES ASSUME SearchInv, NEW d \in Matched, d.id \notin Answered
               PROVE  \E e \in Matched : Twins(d, e) /\ e.score >= d.score
    BY DEF OnlyTwinsDropped
  <1>1. /\ \A i \in DOMAIN matched : matched[i] \in Documents
        /\ Matched = {matched[i] : i \in DOMAIN matched}
        /\ \A i, j \in DOMAIN matched : matched[i].id = matched[j].id => i = j
    BY AnsweredPositions
  <1>2. PICK kept : /\ Keeps(matched, kept)
                    /\ \A i \in DOMAIN matched : matched[i].id \in Answered <=> i \in kept
    BY AnsweredPositions
  <1>3. PICK i \in DOMAIN matched : d = matched[i]
    BY <1>1
  <1>4. HasTwin(matched, i)
    BY <1>2, <1>3 DEF Keeps, SettledUpTo
  <1>5. PICK j \in DOMAIN matched : /\ j # i /\ Alike(matched[i], matched[j])
                                    /\ matched[j].score >= matched[i].score
    BY <1>4 DEF HasTwin
  <1>6. matched[i].id # matched[j].id
    BY <1>1, <1>5
  <1>7. Twins(matched[i], matched[j])
    BY <1>1, <1>5, <1>6, AlikeIsTwins
  <1> QED BY <1>1, <1>3, <1>5, <1>7

(* A chunk above the threshold is only dropped for a twin of its file that *)
(* scores no less.                                                         *)
THEOREM DroppedForTwin == Spec => []OnlyTwinsDropped
  BY OnlyForTwin, Invariance, PTL

(* Every file that matched keeps a chunk that scores as high as its best. *)
THEOREM BestSurvives == Spec => []BestOfFileAnswered
  <1>1. SearchInv => BestOfFileAnswered
    <2> SUFFICES ASSUME SearchInv, NEW d \in Matched
                 PROVE  \E e \in Matched : /\ e.id \in Answered /\ FileOf[e.id] = FileOf[d.id]
                                           /\ e.score >= d.score
      BY DEF BestOfFileAnswered
    <2>1. Matched = {matched[i] : i \in DOMAIN matched}
      BY AnsweredPositions
    <2>2. PICK kept : /\ Keeps(matched, kept)
                      /\ \A i \in DOMAIN matched : matched[i].id \in Answered <=> i \in kept
      BY AnsweredPositions
    <2>3. PICK i \in DOMAIN matched : d = matched[i]
      BY <2>1
    <2>4. PICK j \in kept : /\ SameFile(matched[j], matched[i])
                            /\ matched[j].score >= matched[i].score
      BY <2>2, <2>3 DEF Keeps, SettledUpTo
    <2>5. j \in DOMAIN matched
      BY <2>2 DEF Keeps, SettledUpTo
    <2> QED BY <2>1, <2>2, <2>3, <2>4, <2>5 DEF SameFile
  <1> QED BY <1>1, Invariance, PTL

-----------------------------------------------------------------------------
(* What was found comes back, with a service that returns no invalid index. *)

LEMMA ListingsHaveAll ==
  ASSUME NEW S, S \subseteq Chunks, NEW list \in Listings(S)
  PROVE  Range(Ids(list)) = S
  <1> DEFINE n == Cardinality(S)
  <1>1. PICK order \in SetToSeqs(S), score \in [S -> Scores] :
          list = [i \in DOMAIN order |-> Document(order[i], score[order[i]])]
    BY DEF Listings
  <1>2. IsFiniteSet(S)
    BY ChunksAssumption, FS_Subset
  <1>3. /\ order \in [1..n -> S] /\ n \in Nat
        /\ \A i, j \in 1..n : order[i] = order[j] => i = j
    BY <1>2, EnumerationFields
  <1>4. Cardinality(1..n) = n
    <2>1. list \in Seq(Documents) /\ Len(list) = n
      BY ListingsAreSound DEF Sound
    <2>2. DOMAIN list = 1..n
      BY <1>3, <2>1
    <2> QED BY <2>1, <2>2, DomainFinite
  <1>5. order \in Injection(1..n, S)
    BY <1>3 DEF Injection, IsInjective
  <1>6. order \in Surjection(1..n, S)
    BY <1>2, <1>4, <1>5, FS_Injection
  <1>7. \A c \in S : \E i \in 1..n : order[i] = c
    BY <1>6 DEF Surjection
  <1>8. DOMAIN list = 1..n /\ \A i \in 1..n : list[i].id = order[i]
    BY <1>1, <1>3 DEF Document
  <1> HIDE DEF n
  <1>9. \A i \in 1..n : order[i] \in S
    BY <1>3
  <1>10. Ids(list) = [i \in 1..n |-> order[i]]
    BY <1>8 DEF Ids
  <1> QED BY <1>7, <1>9, <1>10 DEF Range

(* How every chunk found gets from the queries' lists to the answer.       *)
GatheredInv ==
  /\ pc \in {"list", "rewrite"} => gathered = {}
  /\ pc = "retrieve" => /\ gathered = found /\ (tried > 0 => lists > 0)
                        /\ lists = 1 => Range(Ids(docs)) = found
  /\ pc = "rerank" => Range(Ids(docs)) = gathered
  /\ pc = "finish" => gathered = {} \/ (Range(Ids(docs)) = gathered /\ retrieved = docs)
  /\ pc = "ok" => \/ gathered = {}
                  \/ /\ Range(Ids(retrieved)) = gathered /\ Sound(retrieved)
                     /\ matched = filterByMinScore(retrieved, minScore)

LEMMA RetrieveGathers ==
  ASSUME SearchInv, GatheredInv, Retrieve
  PROVE  GatheredInv'
  <1>0. /\ pc = "retrieve" /\ tried < queries /\ gathered = found
        /\ tried > 0 => lists > 0
        /\ lists = 1 => Range(Ids(docs)) = found
    BY DEF Retrieve, GatheredInv
  <1>a. tried \in Nat /\ lists \in Nat /\ lists <= tried /\ found \subseteq Chunks
    BY LimitAssumption, SMT DEF SearchInv, CountersInv, FoundInv
  <1>1. CASE Stop("error")
    BY <1>1 DEF Stop, GatheredInv
  <1>2. CASE /\ tried > 0 /\ tried' = tried + 1
             /\ UNCHANGED <<tool, pc, request, queries, lists, found, gathered, docs, result, rerank>>
    BY <1>0, <1>2 DEF GatheredInv
  <1>3. ASSUME NEW S \in Hits,
               (tried = 0 /\ docs' \in Listings(S)) \/ (tried > 0 /\ docs' = <<>>),
               tried' = tried + 1, lists' = lists + 1,
               found' = Grouped(S), gathered' = gathered \cup S,
               UNCHANGED <<tool, pc, request, queries, result, rerank>>
        PROVE  GatheredInv'
    <2>1. gathered' = found' /\ lists' > 0 /\ pc' = "retrieve"
      BY <1>0, <1>3, <1>a, SMT DEF Grouped
    <2>2. ASSUME lists' = 1 PROVE Range(Ids(docs')) = found'
      <3>1. tried = 0 /\ lists = 0
        BY <2>2, <1>0, <1>3, <1>a, SMT
      <3>2. docs' \in Listings(S) /\ S \subseteq Chunks
        BY <3>1, <1>3, SMT DEF Hits
      <3>3. Range(Ids(docs')) = S
        BY <3>2, ListingsHaveAll
      <3>4. found = {}
        <4>1. 0 * MaxLimit = 0
          BY LimitAssumption, SMT
        <4>2. IsFiniteSet(found)
          BY <1>a, ChunksAssumption, FS_Subset
        <4>3. Cardinality(found) \in Nat /\ Cardinality(found) <= 0
          BY <3>1, <4>1, <4>2, FS_CardinalityType DEF SearchInv, FoundInv
        <4>4. Cardinality(found) = 0
          BY <4>3, SMT
        <4> QED BY <4>2, <4>4, FS_EmptySet
      <3> QED BY <3>3, <3>4, <1>3 DEF Grouped
    <2> QED BY <2>1, <2>2 DEF GatheredInv
  <1> QED BY <1>0, <1>1, <1>2, <1>3 DEF Retrieve

LEMMA FuseGathers ==
  ASSUME SearchInv, GatheredInv, Fuse
  PROVE  GatheredInv'
  <1>1. CASE Stop("error")
    BY <1>1 DEF Stop, GatheredInv
  <1>2. CASE ~ Stop("error")
    <2>1. /\ docs' \in (IF lists = 1 THEN {docs} ELSE Listings(found))
          /\ pc' = "rerank" /\ gathered' = gathered
          /\ gathered = found /\ (lists = 1 => Range(Ids(docs)) = found)
      BY <1>2 DEF Fuse, GatheredInv
    <2>2. found \subseteq Chunks
      BY DEF SearchInv, FoundInv
    <2>3. Range(Ids(docs')) = found
      BY <2>1, <2>2, ListingsHaveAll
    <2> QED BY <2>1, <2>3 DEF GatheredInv
  <1> QED BY <1>1, <1>2

(* Each step but RerankFails needs nothing of the rerank service.          *)
LEMMA OthersGather ==
  ASSUME SearchInv, GatheredInv,
         ListFiles \/ Rewrite \/ Ranked \/ Unranked \/ Finish
  PROVE  GatheredInv'
  <1>1. CASE ListFiles
    <2>1. pc' \in {"ok", "error", "rewrite"} /\ gathered' = {}
      BY <1>1 DEF ListFiles, Stop, GatheredInv
    <2> QED BY <2>1 DEF GatheredInv
  <1>2. CASE Rewrite
    <2>1. /\ pc' = "retrieve" /\ gathered' = {} /\ found' = {}
          /\ tried' = 0 /\ lists' = 0
      BY <1>2 DEF Rewrite, GatheredInv, SearchInv, FreshInv
    <2> QED BY <2>1, SMT DEF GatheredInv
  <1>3. CASE Ranked
    <2>1. pc' = "finish" /\ gathered' = {}
      BY <1>3 DEF Ranked
    <2> QED BY <2>1 DEF GatheredInv
  <1>4. CASE Unranked
    BY <1>4 DEF Unranked, GatheredInv
  <1>5. CASE Finish
    <2>1. Sound(docs)
      BY DEF SearchInv, ListsInv, FoundIn
    <2>2. /\ pc = "finish" /\ pc' = "ok" /\ gathered' = gathered /\ retrieved' = retrieved
          /\ minScore' = minScore /\ matched' = filterByMinScore(docs, minScore)
      BY <1>5 DEF Finish, request, rerank
    <2> QED BY <2>1, <2>2 DEF GatheredInv
  <1> QED BY <1>1, <1>2, <1>3, <1>4, <1>5

(* Unless an invalid index stops a rerank half way, every chunk that a     *)
(* query found is answered, below the threshold or gone for a twin, also   *)
(* when another query or the rerank failed.                                *)
THEOREM NothingFoundIsLost ==
  ASSUME ~InvalidIndex
  PROVE  Spec => []FoundIsAnswered
  <1>1. Init => GatheredInv
    BY DEF Init, GatheredInv
  <1>2. SearchInv /\ GatheredInv /\ [Next]_vars => GatheredInv'
    <2> SUFFICES ASSUME SearchInv, GatheredInv, [Next]_vars PROVE GatheredInv'
      OBVIOUS
    <2>1. ASSUME NEW u \in Users, NEW t \in Tenants, NEW p \in Projects, Search(u, t, p)
          PROVE  GatheredInv'
      BY <2>1 DEF Search, GatheredInv
    <2>2. CASE ListFiles \/ Rewrite \/ Ranked \/ Unranked \/ Finish
      BY <2>2, OthersGather
    <2>3. CASE Retrieve
      BY <2>3, RetrieveGathers
    <2>4. CASE Fuse
      BY <2>4, FuseGathers
    <2>5. CASE RerankFails
      <3>1. PICK r \in {<<{}, <<>>>>} : docs' = Scored(docs, r[1], r[2])
        BY <2>5 DEF RerankFails
      <3>2. docs' = Scored(docs, {}, <<>>)
        <4>1. r = <<{}, <<>>>>
          BY <3>1
        <4> QED BY <3>1, <4>1
      <3>3. docs \in Seq(Documents)
        BY DEF SearchInv, ListsInv, FoundIn, Sound
      <3>4. docs' = docs
        BY <3>2, <3>3 DEF Scored
      <3>5. /\ pc = "rerank" /\ pc' = "finish" /\ gathered' = gathered
            /\ retrieved' = docs
        BY <2>5 DEF RerankFails, Reranking
      <3> QED BY <3>4, <3>5 DEF GatheredInv
    <2>6. CASE UNCHANGED vars
      BY <2>6 DEF vars, request, access, retrieval, result, rerank, GatheredInv, Sound
    <2> QED BY <2>1, <2>2, <2>3, <2>4, <2>5, <2>6 DEF Next
  <1>3. SearchInv /\ GatheredInv => FoundIsAnswered
    <2> SUFFICES ASSUME SearchInv, GatheredInv, pc = "ok", NEW c \in gathered
                 PROVE  \E d \in Range(retrieved) :
                          /\ d.id = c
                          /\ d.score >= minScore /\ c \notin Answered =>
                               \E e \in Range(retrieved) : Twins(d, e) /\ e.score >= d.score
      BY DEF FoundIsAnswered
    <2>1. /\ Range(Ids(retrieved)) = gathered /\ Sound(retrieved)
          /\ matched = filterByMinScore(retrieved, minScore)
      BY DEF GatheredInv
    <2>2. PICK i \in DOMAIN retrieved : retrieved[i].id = c
      BY <2>1, IdsOfSound
    <2>3. /\ \A k \in DOMAIN matched : \E j \in DOMAIN retrieved : matched[k] = retrieved[j]
          /\ \A j \in DOMAIN retrieved : retrieved[j].score >= minScore =>
               \E k \in DOMAIN matched : matched[k] = retrieved[j]
      BY <2>1, FilteredList DEF Sound
    <2>4. \A j \in DOMAIN retrieved : retrieved[j] \in Range(retrieved)
      BY DEF Range
    <2>5. ASSUME retrieved[i].score >= minScore, c \notin Answered
          PROVE  \E e \in Range(retrieved) : Twins(retrieved[i], e) /\ e.score >= retrieved[i].score
      <3>1. retrieved[i] \in Matched
        BY <2>3, <2>5 DEF Matched, Range
      <3>2. PICK e \in Matched : Twins(retrieved[i], e) /\ e.score >= retrieved[i].score
        BY <3>1, <2>2, <2>5, OnlyForTwin DEF OnlyTwinsDropped
      <3>3. e \in Range(retrieved)
        BY <2>3, <2>4 DEF Matched, Range
      <3> QED BY <3>2, <3>3
    <2> QED BY <2>2, <2>4, <2>5
  <1> QED BY <1>1, <1>2, <1>3, Invariance, PTL DEF Spec
=============================================================================
