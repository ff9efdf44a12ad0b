---------------------------- MODULE KnowledgeSearch ----------------------------
(***************************************************************************)
(* One run after the other of the knowledge_search tool: InvokableRun of   *)
(* knowledge/tools.go, with UserFileIDs and Rerank of knowledge/service.go,*)
(* the query rewriter and the NVIDIA reranker.  Each step is one call to   *)
(* the database, the retriever or a model; other programs write the        *)
(* database meanwhile, so a query may find any rows.                       *)
(*                                                                         *)
(* External: the retriever returns at most Limit chunks of the files it is *)
(* told; fusion leaves a single list as it is and merges several into one  *)
(* of the union, with scores of its own.  Left out: wording, tracing, SQL  *)
(* text, HTTP details.                                                     *)
(***************************************************************************)
EXTENDS KnowledgeResults, SequencesExt

CONSTANTS
  Tools,         \* how the host may have configured the tool
  Chunks,
  Users, Tenants, Projects,  \* ids; each with "" for a header not sent
  FileIds,
  AskedLimits,   \* the limit argument: an integer, 0 when left out
  DefaultLimit, MaxLimit,  \* 10 and 50
  MaxRewrites,   \* LLMQueryRewriterConfig.MaxRewrites
  Scores,        \* levels
  AskedScores,   \* the min_score argument, 0 when left out
  defaultMinScore,
  InvalidIndex   \* whether the rerank service may return an invalid index

(* The tool and the service are each told of the rerank model, or not. *)
Configurations ==
  [service : BOOLEAN, rewriter : BOOLEAN,
   rerankModel : BOOLEAN, serviceRerankModel : BOOLEAN]

ASSUME ToolsAssumption == Tools \subseteq Configurations

ASSUME ChunksAssumption ==
  /\ Scores \subseteq Nat
  /\ IsFiniteSet(Chunks)
  /\ \A c \in Chunks : IsFiniteSet(WordsOf[c]) /\ IsFiniteSet(ParentWords[c])

ASSUME LimitAssumption ==
  /\ AskedLimits \subseteq Int /\ AskedScores \subseteq Nat
  /\ DefaultLimit \in Nat \ {0} /\ MaxLimit \in Nat /\ DefaultLimit <= MaxLimit
  /\ MaxRewrites \in Nat

Missing == ""

VARIABLES
  tool,
  pc,            \* the next call of the latest run, or how it ended
  caller,        \* its user, tenant and project
  limit, minScore,
  fileIDs,       \* the files it may search
  queries,       \* how many queries it asks,
  tried,         \* how many it has asked,
  lists,         \* how many of them returned a list,
  found,         \* and the chunks of the lists it has to fuse
  gathered,      \* every chunk its queries found, until a ranking replaces them
  docs,          \* the documents in hand
  answer,
  readable,      \* the files that were the caller's to read when listed
  rerankFailed,
  retrieved,     \* the fused list, when no ranking replaced it
  matched        \* what passed the threshold

request == <<caller, limit, minScore>>
access == <<fileIDs, readable>>
retrieval == <<queries, tried, lists, found>>
result == <<answer, matched>>
rerank == <<rerankFailed, retrieved>>

vars == <<tool, pc, request, access, retrieval, gathered, docs, result, rerank>>

-----------------------------------------------------------------------------
(* The database: a row per file and the members of each project.           *)

Rows == [tenant : Tenants \ {Missing}, user : Users \ {Missing}, project : Projects]

Databases ==
  [files : UNION {[F -> Rows] : F \in SUBSET FileIds},
   members : [Projects \ {Missing} -> SUBSET (Users \ {Missing})]]

IsMember(db, project, user) == user \in db.members[project]

SelectsBug(db, row, user, tenant, project) ==   \* without the parentheses
  IF project = Missing THEN row.user = user /\ row.tenant = tenant
  ELSE \/ row.project = project /\ row.tenant = tenant /\ row.user = user
       \/ IsMember(db, project, user)

(* The WHERE clauses of UserFileIDs. *)
Selects(db, row, user, tenant, project) ==
  IF project = Missing THEN row.user = user /\ row.tenant = tenant
  ELSE /\ row.project = project
       /\ row.tenant = tenant
       /\ row.user = user \/ IsMember(db, project, user)

-----------------------------------------------------------------------------
LimitOf(asked) ==
  IF asked <= 0 THEN DefaultLimit ELSE IF asked > MaxLimit THEN MaxLimit ELSE asked

MinScoreOf(asked) == IF asked <= 0 THEN defaultMinScore ELSE asked

(* Unreadable arguments and an empty query come before everything else.   *)
Search(user, tenant, project) ==
  /\ pc \in {"none", "ok", "error"}
  /\ caller' = [user |-> user, tenant |-> tenant, project |-> project]
  /\ \E asked \in AskedLimits : limit' = LimitOf(asked)
  /\ \E asked \in AskedScores : minScore' = MinScoreOf(asked)
  /\ fileIDs' = {} /\ readable' = {}
  /\ queries' = 1 /\ tried' = 0 /\ lists' = 0 /\ found' = {} /\ gathered' = {}
  /\ docs' = <<>> /\ answer' = <<>> /\ matched' = <<>>
  /\ rerankFailed' = FALSE /\ retrieved' = <<>>
  /\ \/ pc' = "error"
     \/ ~tool.service /\ pc' = "ok"
     \/ /\ tool.service /\ user # Missing /\ tenant # Missing
        /\ pc' = "list"
  /\ UNCHANGED tool

(* The files of a database that the caller may read. *)
Readable(db) ==
  {f \in DOMAIN db.files :
     LET row == db.files[f]
     IN  /\ row.tenant = caller.tenant
         /\ caller.project # Missing => row.project = caller.project
         /\ \/ row.user = caller.user
            \/ caller.project # Missing /\ caller.user \in db.members[caller.project]}

(* Results are only kept to the end of the step that uses them. *)
Stop(outcome) ==
  /\ pc' = outcome /\ docs' = <<>> /\ found' = {} /\ gathered' = {}
  /\ UNCHANGED <<tool, request, queries, tried, lists, result, rerank>>

ListFiles ==
  /\ pc = "list"
  /\ \/ Stop("error") /\ UNCHANGED access
     \/ \E db \in Databases :
          /\ fileIDs' = {f \in DOMAIN db.files :
                           Selects(db, db.files[f], caller.user, caller.tenant, caller.project)}
          /\ readable' = Readable(db)
          /\ pc' = IF fileIDs' = {} THEN "ok" ELSE "rewrite"
          /\ UNCHANGED <<tool, request, retrieval, gathered, docs, result, rerank>>

RewriteCountsBug == IF tool.rewriter THEN 0..MaxRewrites + 1 ELSE {0}  \* len(out) <= max

(* How many queries the rewriter may give: an error, a reply without       *)
(* choices and a reply without a usable line all leave the one.            *)
RewriteCounts == IF tool.rewriter THEN 0..MaxRewrites ELSE {0}

Rewrite ==
  /\ pc = "rewrite"
  /\ \E n \in RewriteCounts : queries' = 1 + n
  /\ pc' = "retrieve"
  /\ UNCHANGED <<tool, request, access, tried, lists, found, gathered, docs, result, rerank>>

(* What the retriever may find. *)
Hits == {S \in SUBSET {c \in Chunks : FileOf[c] \in fileIDs} : Cardinality(S) <= limit}

Listings(S) ==
  {[i \in DOMAIN order |-> Document(order[i], score[order[i]])] :
     order \in SetToSeqs(S), score \in [S -> Scores]}

GroupedBug(S) == S    \* every query's list under one key
Grouped(S) == found \cup S

(* The first query decides whether the run goes on; a rewrite's error is   *)
(* skipped.  With a second list only the union still counts.               *)
Retrieve ==
  /\ pc = "retrieve" /\ tried < queries
  /\ \/ tried = 0 /\ Stop("error")
     \/ /\ tried > 0 /\ tried' = tried + 1
        /\ UNCHANGED <<tool, pc, request, queries, lists, found, gathered, docs, result, rerank>>
     \/ \E S \in Hits :
          /\ \/ tried = 0 /\ docs' \in Listings(S)
             \/ tried > 0 /\ docs' = <<>>
          /\ tried' = tried + 1 /\ lists' = lists + 1
          /\ found' = Grouped(S) /\ gathered' = gathered \cup S
          /\ UNCHANGED <<tool, pc, request, queries, result, rerank>>
  /\ UNCHANGED access

Fuse ==
  /\ pc = "retrieve" /\ tried >= queries
  /\ \/ Stop("error")
     \/ /\ docs' \in (IF lists = 1 THEN {docs} ELSE Listings(found))
        /\ found' = {} /\ pc' = "rerank"
        /\ UNCHANGED <<tool, request, queries, tried, lists, gathered, result, rerank>>
  /\ UNCHANGED access

-----------------------------------------------------------------------------

(* The documents of S with new scores. *)
Scored(list, S, score) ==
  [i \in DOMAIN list |->
     IF list[i].id \in S THEN [list[i] EXCEPT !.score = score[list[i].id]]
     ELSE list[i]]

(* NvidiaReranker.Rerank writes each score into the metadata that the copy *)
(* shares with the document, in the service's order, until an invalid      *)
(* index ends it.                                                          *)
Rescorings(list) ==
  UNION {{<<S, score>> : score \in [S -> Scores]} : S \in SUBSET Range(Ids(list))}

(* Both the tool and the service are told of the model; the tool asks only *)
(* when it was, the service only answers when it was.                      *)
Reranking ==
  /\ pc = "rerank" /\ docs # <<>>
  /\ tool.rerankModel /\ tool.serviceRerankModel

RerankFails ==
  /\ Reranking
  /\ \E r \in (IF InvalidIndex THEN Rescorings(docs) ELSE {<<{}, <<>>>>}) :
       docs' = Scored(docs, r[1], r[2])
  /\ rerankFailed' = TRUE /\ retrieved' = docs /\ pc' = "finish"
  /\ UNCHANGED <<tool, request, access, retrieval, gathered, result>>

(* rerankResults: what the service ranked, best first, then placed. *)
Ranked ==
  /\ Reranking
  /\ \E r \in Rescorings(docs) :
       /\ r[1] # {}
       /\ \E order \in SetToSeqs(r[1]) :
            /\ \A i \in 2..Len(order) : r[2][order[i-1]] >= r[2][order[i]]
            /\ docs' = Place([i \in DOMAIN order |-> Document(order[i], r[2][order[i]])])
  /\ gathered' = {} /\ pc' = "finish"
  /\ UNCHANGED <<tool, request, access, retrieval, result, rerank>>

(* No rerank model, nothing to rank or nothing ranked. *)
Unranked ==
  /\ pc = "rerank" /\ pc' = "finish" /\ retrieved' = docs
  /\ UNCHANGED <<tool, request, access, retrieval, gathered, docs, result, rerankFailed>>

Finish ==
  /\ pc = "finish"
  /\ matched' = filterByMinScore(docs, minScore)
  /\ answer' = Finished(docs, minScore)
  /\ docs' = <<>> /\ pc' = "ok"
  /\ UNCHANGED <<tool, request, access, retrieval, gathered, rerank>>

-----------------------------------------------------------------------------

Init ==
  /\ tool \in Tools /\ pc = "none"
  /\ caller = [user |-> Missing, tenant |-> Missing, project |-> Missing]
  /\ limit = DefaultLimit /\ minScore = defaultMinScore
  /\ fileIDs = {} /\ readable = {}
  /\ queries = 1 /\ tried = 0 /\ lists = 0 /\ found = {} /\ gathered = {}
  /\ docs = <<>> /\ answer = <<>> /\ matched = <<>>
  /\ rerankFailed = FALSE /\ retrieved = <<>>

Next ==
  \/ \E u \in Users, t \in Tenants, p \in Projects : Search(u, t, p)
  \/ ListFiles \/ Rewrite \/ Retrieve \/ Fuse
  \/ RerankFails \/ Ranked \/ Unranked
  \/ Finish

Spec == Init /\ [][Next]_vars

-----------------------------------------------------------------------------

Answered == Range(Ids(answer))
Matched == Range(matched)

(* Counters stay in range, lists hold distinct chunks, and an answer has   *)
(* at most as many as all its queries could find together.                 *)
TypeOK ==
  /\ tool \in Tools
  /\ pc \in {"none", "list", "rewrite", "retrieve", "rerank", "finish", "ok", "error"}
  /\ limit \in 1..MaxLimit
  /\ queries \in 1..1 + MaxRewrites
  /\ tried \in 0..queries /\ lists \in 0..tried
  /\ fileIDs \subseteq FileIds /\ found \subseteq Chunks
  /\ \A list \in {docs, matched, answer} :
       IsInjective(Ids(list)) /\ Range(Ids(list)) \subseteq Chunks
  /\ Len(answer) <= (1 + MaxRewrites) * MaxLimit

(* Whatever is rewritten, retrieved and reranked, an answer only has       *)
(* chunks of files that the caller could read when they were listed: its   *)
(* own, or those of the project it asked about and is a member of, in its  *)
(* own tenant.                                                             *)
AnswersReadable == \A c \in Answered : FileOf[c] \in readable

(* Removing near-identical chunks never costs a file its best chunk.       *)
BestOfFileAnswered ==
  \A d \in Matched :
    \E e \in Matched : /\ e.id \in Answered /\ FileOf[e.id] = FileOf[d.id]
                       /\ e.score >= d.score

(* Text that reads the same to the model: more than four words of five.    *)
Twins(d, e) ==
  /\ d.id # e.id /\ FileOf[d.id] = FileOf[e.id]
  /\ LET all == WordsOf[d.id] \cup WordsOf[e.id]
         both == WordsOf[d.id] \cap WordsOf[e.id]
     IN  all = {} \/ 5 * Cardinality(both) > 4 * Cardinality(all)

(* Of two chunks of a file that read the same, no answer has both, in      *)
(* whatever order and chain of likenesses they were compared.              *)
NoTwinsAnswered ==
  \A d, e \in Matched : Twins(d, e) => ~{d.id, e.id} \subseteq Answered

(* A chunk that passed the threshold is only left out for another of its   *)
(* file that reads the same and scores no less; sections that share no     *)
(* more than their parent's text are all answered.                         *)
OnlyTwinsDropped ==
  \A d \in Matched :
    pc = "ok" /\ d.id \notin Answered =>
      \E e \in Matched : Twins(d, e) /\ e.score >= d.score

(* A chunk that any of the queries found comes into the fused list, and    *)
(* unless a ranking replaced that list it is answered if its score there   *)
(* passes the threshold, or goes for a twin that scores no less: neither a *)
(* query that failed nor a rerank that failed costs what others found.     *)
FoundIsAnswered ==
  pc = "ok" =>
    \A c \in gathered : \E d \in Range(retrieved) :
      /\ d.id = c
      /\ d.score >= minScore /\ c \notin Answered =>
           \E e \in Range(retrieved) : Twins(d, e) /\ e.score >= d.score

(* When reranking fails, the answer is the one there would have been       *)
(* without it: "rerank failed, using unranked results".                    *)
RerankFailureKeepsRetrieval ==
  pc = "ok" /\ rerankFailed => answer = Finished(retrieved, minScore)
=============================================================================
