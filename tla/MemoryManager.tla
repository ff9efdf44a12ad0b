---------------------------- MODULE MemoryManager ----------------------------
(***************************************************************************)
(* The memory Manager of memory/manager.go and memory/http.go above a      *)
(* MuninnStore: recall with its fallback, extraction in the background,    *)
(* profile facts, and the purge of old entries.  A manager operation is a  *)
(* sequence of store calls of one goroutine; between two of them, and      *)
(* within each, every other goroutine may run.  The memory tools of        *)
(* memory/tools.go call the store directly.                                *)
(*                                                                         *)
(* Left out: the text of prompts and answers.  The LLM behind the          *)
(* extractor is external: it fails, or finds any set of facts.             *)
(***************************************************************************)
EXTENDS MuninnStore, Integers

CONSTANTS
  Interfaces,   \* what a store may offer besides the methods of Store
  ToolCalls,    \* the calls that tools make directly in this instance
  Tasks,        \* the manager operations in this instance
  RecallLimit,  \* entries that Recall asks for (10 in the code)
  Ages          \* ages a purge may be given

(* A header may be absent, so the empty user and session can be among the  *)
(* callers; the manager passes them itself for profiles and for purges.    *)
(* Concepts are strings of bounded length, hence finitely many.            *)
ASSUME ManagerAssumption ==
  /\ Interfaces \subseteq SUBSET {"cognitive", "batch", "profile"}
  /\ Tasks \cap {"ingest", "profile", "purge"} # {} => Empty \in Sessions
  /\ "purge" \in Tasks => Empty \in Users
  /\ RecallLimit \in Limits
  /\ Ages \subseteq Nat
  /\ IsFiniteSet(Keys)

VARIABLES
  task,         \* goroutine -> the manager operation it is in, or finished
  optional,     \* the optional interfaces that NewManager found in the store
  profileFacts  \* <<tenant, user, concept>> ever handed to IngestProfile

managerVars == <<task, optional, profileFacts>>
allVars ==
  <<engrams, live, idCache, call, now, task, optional, profileFacts>>

NoTask ==
  [kind |-> "none", pc |-> "done", t |-> NoTenant, u |-> Empty, s |-> Empty,
   facts |-> {}, left |-> {}, age |-> 0, cutoff |-> 0, entries |-> <<>>, removed |-> 0,
   forgot |-> 0, answer |-> {}, reported |-> 0]

NewTask(kind, pc, t, u, s) ==
  [NoTask EXCEPT !.kind = kind, !.pc = pc, !.t = t, !.u = u, !.s = s]

Turn(w, m) == task' = [task EXCEPT ![w] = m]

Free(w, kind) ==
  task[w].pc = "done" /\ call[w].pc = "done" /\ kind \in Tasks

(* The store call that the operation waits for has returned. *)
Back(w, pc) == task[w].pc = pc /\ call[w].pc = "done"

StoreUnchanged == UNCHANGED <<engrams, live, idCache, call, now>>

Finished(m, answer, reported) ==
  [m EXCEPT !.pc = "done", !.answer = answer, !.reported = reported]

-----------------------------------------------------------------------------
(* Recall: an activation, and a search when it fails or finds nothing; a   *)
(* store that cannot activate is searched at once.                         *)

Recall(w, t, u, s) ==
  /\ Free(w, "recall")
  /\ \/ /\ "cognitive" \in optional
        /\ Activate(w, "recall", t, u, s, FALSE, RecallLimit)
        /\ Turn(w, NewTask("recall", "activated", t, u, s))
     \/ /\ "cognitive" \notin optional
        /\ Activate(w, "search", t, u, s, FALSE, RecallLimit)
        /\ Turn(w, NewTask("recall", "searched", t, u, s))
  /\ UNCHANGED <<optional, profileFacts>>

Activated(w) ==
  /\ Back(w, "activated")
  /\ call[w].outcome = "ok" /\ call[w].result # {}
  /\ Turn(w, Finished(task[w], call[w].result, Cardinality(call[w].result)))
  /\ StoreUnchanged
  /\ UNCHANGED <<optional, profileFacts>>

FallBackBug(w) ==    \* searches every user's memories
  LET m == task[w]
  IN  /\ Back(w, "activated")
      /\ call[w].outcome = "failed" \/ call[w].result = {}
      /\ Activate(w, "search", m.t, Empty, m.s, FALSE, RecallLimit)
      /\ Turn(w, [m EXCEPT !.pc = "searched"])
      /\ UNCHANGED <<optional, profileFacts>>

FallBack(w) ==
  LET m == task[w]
  IN  /\ Back(w, "activated")
      /\ call[w].outcome = "failed" \/ call[w].result = {}
      /\ Activate(w, "search", m.t, m.u, m.s, FALSE, RecallLimit)
      /\ Turn(w, [m EXCEPT !.pc = "searched"])
      /\ UNCHANGED <<optional, profileFacts>>

Searched(w) ==
  /\ Back(w, "searched")
  /\ LET found == IF call[w].outcome = "ok" THEN call[w].result ELSE {}
     IN  Turn(w, Finished(task[w], found, Cardinality(found)))
  /\ StoreUnchanged
  /\ UNCHANGED <<optional, profileFacts>>

-----------------------------------------------------------------------------
(* Facts extracted from a message, in a goroutine of their own.            *)

ExtractAndStoreAsync(w, t, u, s) ==
  /\ Free(w, "extract")
  /\ u # Empty
  /\ Turn(w, NewTask("extract", "extract", t, u, s))
  /\ StoreUnchanged
  /\ UNCHANGED <<optional, profileFacts>>

(* Facts go into one batch, or one by one into a store without batches;    *)
(* count is the number stored that the loop starts from.                   *)
StoreFacts(w, m, K, count) ==
  \/ /\ "batch" \in optional
     /\ SetBatch(w, m.t, m.u, m.s, K)
     /\ Turn(w, [m EXCEPT !.pc = "stored", !.facts = K])
  \/ /\ "batch" \notin optional
     /\ \E k \in K :
          /\ Set(w, m.t, m.u, m.s, k)
          /\ Turn(w, [m EXCEPT !.pc = "facts", !.facts = K,
                               !.left = K \ {k}, !.reported = count])

(* The extractor fails or finds nothing, or its facts are stored. *)
Extract(w) ==
  LET m == task[w]
  IN  /\ Back(w, "extract")
      /\ \/ /\ Turn(w, Finished(m, {}, 0))
            /\ StoreUnchanged
         \/ \E K \in (SUBSET Keys) \ {{}} :
              StoreFacts(w, m, K, Cardinality(K))
      /\ UNCHANGED <<optional, profileFacts>>

(* OnExtract hears of all the facts, or of none when the batch failed. *)
Report(w) ==
  IF call[w].outcome = "ok" THEN Cardinality(task[w].facts) ELSE 0

Stored(w) ==
  /\ Back(w, "stored")
  /\ Turn(w, Finished(task[w], {}, Report(w)))
  /\ StoreUnchanged
  /\ UNCHANGED <<optional, profileFacts>>

(* One by one, extraction takes a failed fact off the count of all facts,  *)
(* and ingestion adds a stored one to none.                                *)
CountedBug(m, outcome) ==    \* a failed fact is counted like a stored one
  IF m.kind = "ingest" THEN m.reported + 1 ELSE m.reported
Counted(m, outcome) ==
  CASE m.kind = "ingest" /\ outcome = "ok" -> m.reported + 1
    [] m.kind = "extract" /\ outcome # "ok" -> m.reported - 1
    [] OTHER -> m.reported

(* A fact was written, or refused: the loop goes on with the next one. *)
NextFact(w) ==
  LET m == task[w]
      count == Counted(m, call[w].outcome)
  IN  /\ Back(w, "facts")
      /\ \/ \E k \in m.left :
              /\ Set(w, m.t, m.u, m.s, k)
              /\ Turn(w, [m EXCEPT !.left = @ \ {k}, !.reported = count])
         \/ /\ m.left = {}
            /\ Turn(w, Finished(m, {}, count))
            /\ StoreUnchanged
      /\ UNCHANGED <<optional, profileFacts>>

(* Profile facts carry no session, and no profile tag either in a store    *)
(* that is no ProfileStore; a failure is only logged.                      *)
IngestProfile(w, t, u, K) ==
  LET m == NewTask("ingest", "stored", t, u, Empty)
  IN  /\ Free(w, "ingest")
      /\ K # {}
      /\ \/ /\ "profile" \in optional
            /\ SetProfile(w, t, u, K)
            /\ Turn(w, [m EXCEPT !.facts = K])
         \/ /\ "profile" \notin optional
            /\ StoreFacts(w, m, K, 0)
      /\ profileFacts' = profileFacts \cup {<<t, u, k>> : k \in K}
      /\ UNCHANGED optional

RecallProfile(w, t, u) ==
  /\ Free(w, "profile")
  /\ List(w, t, u, Empty, TRUE)
  /\ Turn(w, NewTask("profile", "searched", t, u, Empty))
  /\ UNCHANGED <<optional, profileFacts>>

-----------------------------------------------------------------------------
(* PurgeOlderThan: lists the whole tenant, takes the time, and deletes     *)
(* every entry older than that by its user, session and concept.           *)

PurgeOlderThan(w, t, age) ==
  /\ Free(w, "purge")
  /\ List(w, t, Empty, Empty, FALSE)
  /\ Turn(w, [NewTask("purge", "listed", t, Empty, Empty) EXCEPT !.age = age])
  /\ UNCHANGED <<optional, profileFacts>>

OlderBug(at, age, time) == at + age <= time    \* !After in place of Before

(* UpdatedAt.Before(cutoff): our clock against the server's stamp, and the *)
(* zero time is before any.                                                *)
Older(at, age, time) == at = NoStamp \/ at + age < time

PurgeCutoff(w) ==
  LET m == task[w]
  IN  /\ Back(w, "listed")
      /\ Turn(w, IF call[w].outcome = "ok"
                 THEN [m EXCEPT !.pc = "purge", !.cutoff = now]
                 ELSE Finished(m, {}, 0))
      /\ StoreUnchanged
      /\ UNCHANGED <<optional, profileFacts>>

DeleteEntryBug(w, m, e) ==    \* forgets by concept alone
  Delete(w, m.t, Empty, Empty, e.key)
ForgetEntryBug(w, m, e) ==    \* forgets behind the back of the store
  /\ live' = live \ {Head(m.entries)}
  /\ Return(w, "ok")
  /\ UNCHANGED <<engrams, idCache, now>>
DeleteEntry(w, m, e) == Delete(w, m.t, e.user, e.session, e.key)

PurgeEntry(w) ==
  LET m == task[w]
      e == engrams[Head(m.entries)]
  IN  /\ Back(w, "purge")
      /\ m.entries # <<>>
      /\ \/ /\ Older(e.at, m.age, m.cutoff)
            /\ DeleteEntry(w, m, e)
            /\ Turn(w, [m EXCEPT !.pc = "purging"])
         \/ /\ ~Older(e.at, m.age, m.cutoff)
            /\ StoreUnchanged
            /\ Turn(w, [m EXCEPT !.entries = Tail(@)])
      /\ UNCHANGED <<optional, profileFacts>>

RemovedBug(m, outcome) ==    \* takes a failed delete off the count
  IF outcome = "ok" THEN m.removed + 1 ELSE m.removed - 1
Removed(m, outcome) == IF outcome = "ok" THEN m.removed + 1 ELSE m.removed

PurgeCountedBug(w) ==    \* tries a failed delete again
  LET m == task[w]
  IN  /\ Back(w, "purging")
      /\ Turn(w, IF call[w].outcome = "ok"
                 THEN [m EXCEPT !.pc = "purge", !.entries = Tail(@),
                                !.removed = m.removed + 1]
                 ELSE [m EXCEPT !.pc = "purge"])
      /\ StoreUnchanged
      /\ UNCHANGED <<optional, profileFacts>>

PurgeCounted(w) ==
  LET m == task[w]
  IN  /\ Back(w, "purging")
      /\ Turn(w, [m EXCEPT !.pc = "purge", !.entries = Tail(@),
                           !.removed = Removed(m, call[w].outcome)])
      /\ StoreUnchanged
      /\ UNCHANGED <<optional, profileFacts>>

PurgeDone(w) ==
  /\ Back(w, "purge")
  /\ task[w].entries = <<>>
  /\ Turn(w, Finished(task[w], {}, 0))
  /\ StoreUnchanged
  /\ UNCHANGED <<optional, profileFacts>>

-----------------------------------------------------------------------------
(* A step inside a store call.  A purge keeps the entries in the order     *)
(* they were listed; forgot counts what it took away.                      *)

Handed(w) == call[w].items \ call'[w].items

Listed(w) ==
  IF task[w].pc = "listed" /\ Handed(w) # {}
  THEN Append(task[w].entries, CHOOSE id \in Handed(w) : TRUE)
  ELSE task[w].entries

CallStep(w) ==
  /\ Step(w)
  /\ Turn(w, [task[w] EXCEPT
                !.entries = Listed(w),
                !.forgot = IF task[w].kind = "purge" /\ live' # live
                           THEN @ + 1 ELSE @])
  /\ UNCHANGED <<optional, profileFacts>>

(* A tool is an operation of one store call. *)
ToolCall(w) ==
  /\ task[w].pc = "done"
  /\ Begin(w)
  /\ call'[w].op \in ToolCalls
  /\ Turn(w, NoTask)
  /\ UNCHANGED <<optional, profileFacts>>

Operation(w) ==
  \E t \in Tenants, u \in Users :
    \/ \E s \in Sessions : Recall(w, t, u, s) \/ ExtractAndStoreAsync(w, t, u, s)
    \/ \E K \in SUBSET Keys : IngestProfile(w, t, u, K)
    \/ RecallProfile(w, t, u)
    \/ \E age \in Ages : PurgeOlderThan(w, t, age)

Continue(w) ==
  \/ CallStep(w)
  \/ Activated(w) \/ FallBack(w) \/ Searched(w)
  \/ Extract(w) \/ Stored(w) \/ NextFact(w)
  \/ PurgeCutoff(w) \/ PurgeEntry(w) \/ PurgeCounted(w) \/ PurgeDone(w)

ManagerRestart ==
  /\ Restart
  /\ task' = [w \in Workers |-> NoTask]
  /\ UNCHANGED <<optional, profileFacts>>

ManagerInit ==
  /\ Init
  /\ task = [w \in Workers |-> NoTask]
  /\ optional \in Interfaces
  /\ profileFacts = {}

ManagerNext ==
  \/ \E w \in Workers : ToolCall(w) \/ Operation(w) \/ Continue(w)
  \/ Tick /\ UNCHANGED managerVars
  \/ ManagerRestart

ManagerSpec == ManagerInit /\ [][ManagerNext]_allVars

(* As for the store: whoever is in an operation keeps running. *)
ManagerLiveSpec ==
  ManagerSpec /\ \A w \in Workers : WF_allVars(Continue(w))

-----------------------------------------------------------------------------
(* Properties. *)

(* an operation that knows of the ids I *)
TaskType(I) ==
  [kind : {"none", "recall", "extract", "ingest", "profile", "purge"},
   pc : {"done", "activated", "searched", "extract", "stored", "facts",
         "listed", "purge", "purging"},
   t : Tenants \cup {NoTenant}, u : TagUsers, s : TagSessions,
   facts : SUBSET Keys, left : SUBSET Keys, age : Nat, cutoff : Nat,
   entries : Seq(I), removed : Nat, forgot : Nat,
   answer : SUBSET I, reported : Int]

(* Every manager operation keeps its type; the entries of a purge are      *)
(* engrams that the server has created.                                    *)
ManagerTypeOK ==
  /\ task \in [Workers -> TaskType(Ids)]
  /\ optional \in Interfaces
  /\ profileFacts \subseteq Tenants \X TagUsers \X Keys

(* What Recall and RecallProfile put into a prompt is what the caller's    *)
(* tenant, user and session may see, on the first path and on the          *)
(* fallback, with other goroutines writing and forgetting in between.      *)
RecallInScope ==
  \A w \in Workers :
    LET m == task[w]
    IN  \A id \in m.answer :
          engrams[id].vault = m.t /\ InScope(engrams[id], m.u, m.s, FALSE)

(* RecallProfile answers only concepts that IngestProfile was given for    *)
(* this user: facts extracted from a conversation cannot leak into it.     *)
ProfileRecallOnlyIngested ==
  \A w \in Workers :
    task[w].kind = "profile" =>
      \A id \in task[w].answer :
        <<task[w].t, engrams[id].user, engrams[id].key>> \in profileFacts

(* The server was given fact k under the user and session of operation m.  *)
Reached(m, k) ==
  \E id \in Ids : /\ engrams[id].vault = m.t /\ engrams[id].key = k
                  /\ engrams[id].user = m.u /\ engrams[id].session = m.s

(* OnExtract is never told of more facts than reached the server under the *)
(* caller's user and session: not by a batch that failed half way, and not *)
(* by a loop some of whose writes were refused.                            *)
ReportedAreStored ==
  \A w \in Workers :
    LET m == task[w]
    IN  m.kind \in {"extract", "ingest"} /\ m.pc = "done"
          => m.reported <= Cardinality({k \in m.facts : Reached(m, k)})

(* The goroutine whose purge takes id away in this step. *)
Purges(w, id) ==
  /\ task[w].kind = "purge" /\ call[w].pc = "forget"
  /\ call[w].id = id /\ id \in live \ live'

(* A purge forgets only engrams that, by the server's stamp, were older    *)
(* than the age it was given when it took the time.                        *)
PurgeSparesFresh ==
  [][\A w \in Workers : \A id \in live :
       Purges(w, id) =>
         Older(engrams[id].at, task[w].age, task[w].cutoff)]_allVars

(* As long as the tenant has each concept once, deleting by concept is     *)
(* deleting the entry that was listed, and what goes was stamped before    *)
(* the cutoff or not at all.                                               *)
OneEngramPerConcept ==
  \A i, j \in Ids :
    engrams[i].vault = engrams[j].vault /\ engrams[i].key = engrams[j].key => i = j

PurgeSparesFreshConcepts ==
  [][\A w \in Workers : \A id \in live :
       Purges(w, id) /\ OneEngramPerConcept =>
         engrams[id].at + task[w].age < task[w].cutoff
           \/ engrams[id].at = NoStamp]_allVars

(* A purge that goes through an entry of a user forgets nothing of another *)
(* user, and through an entry of a session nothing of another session; it  *)
(* keeps to the concept and the tenant.  An entry without a session, as    *)
(* profile facts are, is deleted without one: Delete then takes any        *)
(* session's engram of the concept, and so it is with the user.            *)
PurgeStaysWithEntry ==
  [][\A w \in Workers : \A id \in live :
       Purges(w, id) =>
         LET e == engrams[Head(task[w].entries)]
             f == engrams[id]
         IN  /\ f.vault = task[w].t /\ f.key = e.key
             /\ f.user = e.user \/ e.user = Empty
             /\ f.session = e.session \/ e.session = Empty]_allVars

(* The count a purge returns is the number of engrams it forgot, although  *)
(* other goroutines forget the same entries and pages repeat them: when no *)
(* answer is lost, and the server refuses to forget an engram twice.       *)
PurgeCountsForgotten ==
  \A w \in Workers :
    task[w].kind = "purge" /\ task[w].pc = "done"
      => task[w].removed = task[w].forgot

(* Every manager operation ends: no fallback or delete loop runs forever.  *)
OperationEnds ==
  \A w \in Workers : task[w].pc # "done" ~> task[w].pc = "done"

(* Seen from the store, the manager is one more caller: each of its steps  *)
(* is a call, a step of a call, or nothing.                                *)
CallsTheStore == Spec
=============================================================================
