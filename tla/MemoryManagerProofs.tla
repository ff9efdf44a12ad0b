------------------------- MODULE MemoryManagerProofs -------------------------
(***************************************************************************)
(* The manager above the store, for every value of the constants: each of  *)
(* its steps is one the store allows, so all that is proved of the store   *)
(* holds under the manager; and what it puts into a prompt is in scope.    *)
(***************************************************************************)
EXTENDS MemoryManager, MuninnStoreProofs

(* An operation over the engrams E: its type, its caller while it runs,    *)
(* and the scope of its answer.                                            *)
GoodTask(E, m) ==
  /\ m \in TaskType(DOMAIN E)
  /\ m.pc # "done" => m.t \in Tenants /\ m.u \in Users /\ m.s \in Sessions
  /\ m.pc \in {"listed", "purge", "purging"} => "purge" \in Tasks
  /\ m.pc = "purging" => m.entries # <<>>
  /\ \A id \in m.answer :
       E[id].vault = m.t /\ InScope(E[id], m.u, m.s, FALSE)

(* While its answer is under way, the store call has the operation's scope. *)
Linked(m, c) ==
  m.pc \in {"activated", "searched"} => c.t = m.t /\ c.u = m.u /\ c.s = m.s

GoodTasks(E, f, calls) ==
  /\ f \in [Workers -> TaskType(DOMAIN E)]
  /\ \A w \in Workers : GoodTask(E, f[w]) /\ Linked(f[w], calls[w])

MInv ==
  /\ IInv
  /\ GoodTasks(engrams, task, call)
  /\ optional \in Interfaces
  /\ profileFacts \subseteq Tenants \X TagUsers \X Keys

-----------------------------------------------------------------------------
(* The store under the manager. *)

LEMMA AnyCaller ==
  /\ Users \subseteq TagUsers /\ Sessions \subseteq TagSessions
  /\ Empty \in TagUsers /\ Empty \in TagSessions
BY DEF TagUsers, TagSessions

(* The callers that a profile operation and a purge stand for. *)
LEMMA NamelessCaller ==
  /\ Tasks \cap {"ingest", "profile", "purge"} # {} => Empty \in Sessions
  /\ "purge" \in Tasks => /\ Empty \in Users /\ Empty \in Sessions
                          /\ TagUsers = Users /\ TagSessions = Sessions
BY ManagerAssumption DEF TagUsers, TagSessions

LEMMA StepKeepsScope ==
  ASSUME IInv, NEW w \in Workers, Step(w)
  PROVE  /\ call'[w].t = call[w].t /\ call'[w].u = call[w].u
         /\ call'[w].s = call[w].s
         /\ \A v \in Workers \ {w} : call'[v] = call[v]
BY StepKeepsRequest DEF SameRequest

-----------------------------------------------------------------------------
(* Every step of the manager is a step of the store. *)

LEMMA StoreIdle ==
  ASSUME StoreUnchanged
  PROVE  UNCHANGED vars
BY DEF StoreUnchanged, vars

LEMMA BeginIsNext ==
  ASSUME NEW w \in Workers, Begin(w)
  PROVE  [Next]_vars
BY DEF Next

LEMMA NewTaskFields ==
  ASSUME NEW kind, NEW pc, NEW t, NEW u, NEW s
  PROVE  /\ NewTask(kind, pc, t, u, s).pc = pc
         /\ NewTask(kind, pc, t, u, s).t = t
         /\ NewTask(kind, pc, t, u, s).u = u
         /\ NewTask(kind, pc, t, u, s).s = s
BY DEF NewTask, NoTask

(* Facts go to the store by a call of its interface. *)
LEMMA StoreFactsBegins ==
  ASSUME NEW w \in Workers, NEW m, NEW K \in SUBSET Keys, NEW count,
         m.t \in Tenants, m.u \in Users, m.s \in Sessions,
         StoreFacts(w, m, K, count)
  PROVE  Begin(w)
<1>1. CASE SetBatch(w, m.t, m.u, m.s, K)
  BY <1>1 DEF Begin
<1>2. ASSUME NEW k \in K, Set(w, m.t, m.u, m.s, k) PROVE Begin(w)
  <2>1. k \in Keys
    OBVIOUS
  <2> QED  BY <1>2, <2>1 DEF Begin
<1> QED  BY <1>1, <1>2 DEF StoreFacts

LEMMA OperationCalls ==
  ASSUME NEW w \in Workers, Operation(w)
  PROVE  Begin(w) \/ UNCHANGED vars
<1>1. PICK t \in Tenants, u \in Users :
        \/ \E s \in Sessions : Recall(w, t, u, s) \/ ExtractAndStoreAsync(w, t, u, s)
        \/ \E K \in SUBSET Keys : IngestProfile(w, t, u, K)
        \/ RecallProfile(w, t, u)
        \/ \E age \in Ages : PurgeOlderThan(w, t, age)
  BY DEF Operation
<1>2. ASSUME NEW s \in Sessions, Recall(w, t, u, s) PROVE Begin(w)
  BY <1>2, ManagerAssumption DEF Recall, Begin
<1>3. ASSUME NEW s \in Sessions, ExtractAndStoreAsync(w, t, u, s)
      PROVE  UNCHANGED vars
  BY <1>3, StoreIdle DEF ExtractAndStoreAsync
<1>4. ASSUME NEW K \in SUBSET Keys, IngestProfile(w, t, u, K) PROVE Begin(w)
  <2> DEFINE m == NewTask("ingest", "stored", t, u, Empty)
  <2>1. Empty \in Sessions
    BY <1>4, NamelessCaller DEF IngestProfile, Free
  <2>2. SetProfile(w, t, u, K) \/ StoreFacts(w, m, K, 0)
    BY <1>4 DEF IngestProfile
  <2>3. m.t = t /\ m.u = u /\ m.s = Empty
    BY NewTaskFields
  <2> HIDE DEF m
  <2> QED  BY <2>1, <2>2, <2>3, StoreFactsBegins DEF Begin
<1>5. ASSUME RecallProfile(w, t, u) PROVE Begin(w)
  <2>1. Empty \in Sessions
    BY <1>5, NamelessCaller DEF RecallProfile, Free
  <2> QED  BY <1>5, <2>1 DEF RecallProfile, Begin
<1>6. ASSUME NEW age \in Ages, PurgeOlderThan(w, t, age) PROVE Begin(w)
  <2>1. Empty \in Users /\ Empty \in Sessions
    BY <1>6, NamelessCaller DEF PurgeOlderThan, Free
  <2> QED  BY <1>6, <2>1 DEF PurgeOlderThan, Begin
<1> QED  BY <1>1, <1>2, <1>3, <1>4, <1>5, <1>6

LEMMA TaskOf ==
  ASSUME MInv, NEW w \in Workers
  PROVE  /\ task[w] \in TaskType(DOMAIN engrams)
         /\ task[w].pc # "done" => /\ task[w].t \in Tenants
                                  /\ task[w].u \in Users /\ task[w].s \in Sessions
         /\ call[w] \in CallType(DOMAIN engrams)
         /\ SoundIn(engrams, call[w])
<1>1. task[w] \in TaskType(DOMAIN engrams)
  BY DEF MInv, GoodTasks
<1>2. task[w].pc # "done" => /\ task[w].t \in Tenants
                            /\ task[w].u \in Users /\ task[w].s \in Sessions
  BY DEF MInv, GoodTasks, GoodTask
<1>3. call[w] \in CallType(DOMAIN engrams) /\ SoundIn(engrams, call[w])
  BY DEF MInv, IInv, GoodCalls
<1> QED  BY <1>1, <1>2, <1>3

LEMMA HeadEntry ==
  ASSUME MInv, NEW w \in Workers, task[w].entries # <<>>
  PROVE  /\ engrams[Head(task[w].entries)] \in EngramType
         /\ Tail(task[w].entries) \in Seq(DOMAIN engrams)
<1>1. task[w].entries \in Seq(DOMAIN engrams)
  BY TaskOf DEF TaskType
<1>2. engrams \in Seq(EngramType)
  BY DEF MInv, IInv, GoodServer
<1>3. Head(task[w].entries) \in DOMAIN engrams /\ Tail(task[w].entries) \in Seq(DOMAIN engrams)
  <2> DEFINE q == task[w].entries
  <2>1. q \in Seq(DOMAIN engrams) /\ q # <<>>
    BY <1>1
  <2> HIDE DEF q
  <2>2. Head(q) \in DOMAIN engrams /\ Tail(q) \in Seq(DOMAIN engrams)
    BY <2>1, HeadTailProperties
  <2> QED  BY <2>2 DEF q
<1>4. \A i \in DOMAIN engrams : engrams[i] \in EngramType
  BY <1>2
<1> QED  BY <1>3, <1>4

LEMMA ContinueCalls ==
  ASSUME MInv, NEW w \in Workers, Continue(w)
  PROVE  Step(w) \/ Begin(w) \/ UNCHANGED vars
<1>1. CASE CallStep(w)
  BY <1>1 DEF CallStep
<1>2. CASE Activated(w) \/ Searched(w) \/ Stored(w) \/ PurgeCutoff(w)
           \/ PurgeCounted(w) \/ PurgeDone(w)
  BY <1>2, StoreIdle DEF Activated, Searched, Stored, PurgeCutoff, PurgeCounted, PurgeDone
<1>3. CASE FallBack(w)
  <2>1. /\ task[w].t \in Tenants /\ task[w].u \in Users /\ task[w].s \in Sessions
        /\ Activate(w, "search", task[w].t, task[w].u, task[w].s, FALSE, RecallLimit)
    BY <1>3, TaskOf DEF FallBack, Back
  <2>2. Begin(w)
    BY <2>1, ManagerAssumption DEF Begin
  <2> QED  BY <2>2
<1>4. CASE Extract(w)
  <2>1. task[w].t \in Tenants /\ task[w].u \in Users /\ task[w].s \in Sessions
    BY <1>4, TaskOf DEF Extract, Back
  <2>2. StoreUnchanged \/ \E K \in SUBSET Keys :
          StoreFacts(w, task[w], K, Cardinality(K))
    BY <1>4 DEF Extract
  <2>3. Begin(w) \/ StoreUnchanged
    BY <2>1, <2>2, StoreFactsBegins
  <2> QED  BY <2>3, StoreIdle
<1>6. CASE NextFact(w)
  <2>1. /\ task[w].t \in Tenants /\ task[w].u \in Users /\ task[w].s \in Sessions
        /\ task[w].left \subseteq Keys
    BY <1>6, TaskOf DEF NextFact, Back, TaskType
  <2>2. StoreUnchanged \/ \E k \in task[w].left :
          Set(w, task[w].t, task[w].u, task[w].s, k)
    BY <1>6 DEF NextFact
  <2>3. Begin(w) \/ StoreUnchanged
    BY <2>1, <2>2 DEF Begin
  <2> QED  BY <2>3, StoreIdle
<1>5. CASE PurgeEntry(w)
  <2> DEFINE e == engrams[Head(task[w].entries)]
  <2>1. task[w].t \in Tenants /\ e \in EngramType
    BY <1>5, TaskOf, HeadEntry DEF PurgeEntry, Back
  <2>2. e.user \in Users /\ e.session \in Sessions /\ e.key \in Keys
    <3>1. "purge" \in Tasks
      BY <1>5 DEF PurgeEntry, Back, MInv, GoodTasks, GoodTask
    <3> QED  BY <2>1, <3>1, NamelessCaller DEF EngramType
  <2>3. Delete(w, task[w].t, e.user, e.session, e.key) \/ StoreUnchanged
    BY <1>5 DEF PurgeEntry, DeleteEntry
  <2> HIDE DEF e
  <2>4. Begin(w) \/ StoreUnchanged
    BY <2>1, <2>2, <2>3 DEF Begin
  <2> QED  BY <2>4, StoreIdle
<1> QED  BY <1>1, <1>2, <1>3, <1>4, <1>5, <1>6 DEF Continue

LEMMA ManagerStepsStore ==
  ASSUME MInv, [ManagerNext]_allVars
  PROVE  [Next]_vars
<1>1. ASSUME NEW w \in Workers, ToolCall(w) PROVE [Next]_vars
  BY <1>1, BeginIsNext DEF ToolCall
<1>2. CASE Tick \/ ManagerRestart \/ UNCHANGED allVars
  BY <1>2 DEF ManagerRestart, Next, allVars, vars
<1>3. ASSUME NEW w \in Workers, Operation(w) \/ Continue(w) PROVE [Next]_vars
  <2>1. Step(w) \/ Begin(w) \/ UNCHANGED vars
    BY <1>3, OperationCalls, ContinueCalls
  <2> QED  BY <2>1 DEF Next
<1> QED  BY <1>1, <1>2, <1>3 DEF ManagerNext

-----------------------------------------------------------------------------
(* The invariant of the operations. *)

(* A goroutine whose own call did not move keeps a good operation while    *)
(* the server creates engrams.                                             *)
LEMMA TaskExtends ==
  ASSUME NEW E, NEW F, Extends(E, F), NEW m, GoodTask(E, m)
  PROVE  GoodTask(F, m)
<1>1. m \in TaskType(DOMAIN F)
  <2>1. DOMAIN E \subseteq DOMAIN F
    BY DEF Extends
  <2>2. m.entries \in Seq(DOMAIN F)
    BY <2>1 DEF GoodTask, TaskType
  <2> QED  BY <2>1, <2>2 DEF GoodTask, TaskType
<1>2. \A id \in m.answer : id \in DOMAIN E
  BY DEF GoodTask, TaskType
<1>3. \A id \in m.answer : F[id] = E[id]
  BY <1>2 DEF Extends
<1>4. \A id \in m.answer : F[id].vault = m.t /\ InScope(F[id], m.u, m.s, FALSE)
  <2> TAKE id \in m.answer
  <2>1. E[id].vault = m.t /\ InScope(E[id], m.u, m.s, FALSE)
    BY DEF GoodTask
  <2> QED  BY <2>1, <1>3
<1>5. /\ m.pc # "done" => m.t \in Tenants /\ m.u \in Users /\ m.s \in Sessions
      /\ m.pc \in {"listed", "purge", "purging"} => "purge" \in Tasks
      /\ m.pc = "purging" => m.entries # <<>>
  BY DEF GoodTask
<1> QED  BY <1>1, <1>4, <1>5 DEF GoodTask

(* A step of one goroutine that leaves its operation good. *)
LEMMA TaskStep ==
  ASSUME MInv, [Next]_vars, NEW w \in Workers, NEW m, Turn(w, m),
         GoodTask(engrams', m), Linked(m, call'[w]),
         \A v \in Workers \ {w} : call'[v] = call[v]
  PROVE  GoodTasks(engrams', task', call')
<1>1. Extends(engrams, engrams')
  BY ServerExtends DEF MInv
<1>2. task' \in [Workers -> TaskType(DOMAIN engrams')] /\ task'[w] = m
      /\ \A v \in Workers \ {w} : task'[v] = task[v]
  <2>1. \A v \in Workers : task[v] \in TaskType(DOMAIN engrams')
    BY <1>1, TaskExtends DEF MInv, GoodTasks, GoodTask
  <2>2. m \in TaskType(DOMAIN engrams')
    BY DEF GoodTask
  <2>3. task \in [Workers -> TaskType(DOMAIN engrams)]
    BY DEF MInv, GoodTasks
  <2> QED  BY <2>1, <2>2, <2>3 DEF Turn
<1>3. \A v \in Workers \ {w} : GoodTask(engrams', task'[v]) /\ Linked(task'[v], call'[v])
  <2>1. \A v \in Workers : GoodTask(engrams, task[v]) /\ Linked(task[v], call[v])
    BY DEF MInv, GoodTasks
  <2> QED  BY <1>1, <1>2, <2>1, TaskExtends
<1> QED  BY <1>2, <1>3 DEF GoodTasks

(* What a store call leaves in call when it begins. *)
LEMMA CallBegun ==
  ASSUME MInv, NEW w \in Workers, NEW d, Goto(w, d)
  PROVE  call'[w] = d /\ \A v \in Workers \ {w} : call'[v] = call[v]
BY DEF MInv, IInv, GoodCalls, Goto

LEMMA SetGoes ==
  ASSUME NEW w, NEW t, NEW u, NEW s, NEW k, Set(w, t, u, s, k)
  PROVE  \E d : Goto(w, d)
<1> DEFINE goes == \E d : Goto(w, d)
<1>1. ASSUME NEW d, Goto(w, d) PROVE goes
  BY <1>1
<1> HIDE DEF goes
<1>2. goes
  BY <1>1 DEF Set, Write
<1> QED  BY <1>2 DEF goes

LEMMA NewCallScope ==
  ASSUME NEW op, NEW t, NEW u, NEW s
  PROVE  LET d == NewCall(op, t, u, s)
         IN  d.t = t /\ d.u = u /\ d.s = s
BY DEF NewCall, Idle

Kinds == {"none", "recall", "extract", "ingest", "profile", "purge"}
StartPCs == {"activated", "searched", "extract", "stored", "listed"}

LEMMA NoTaskGood ==
  ASSUME NEW E
  PROVE  GoodTask(E, NoTask) /\ NoTask \in TaskType(DOMAIN E)
<1>1. <<>> \in Seq(DOMAIN E) /\ Empty \in TagUsers /\ Empty \in TagSessions
  BY EmptySeq DEF TagUsers, TagSessions
<1>2. NoTask \in TaskType(DOMAIN E)
  BY <1>1 DEF NoTask, TaskType
<1> QED  BY <1>2 DEF NoTask, GoodTask

LEMMA NewTaskGood ==
  ASSUME NEW E, NEW kind \in Kinds, NEW pc \in StartPCs, NEW t \in Tenants,
         NEW u \in Users, NEW s \in Sessions, pc = "listed" => "purge" \in Tasks
  PROVE  GoodTask(E, NewTask(kind, pc, t, u, s))
<1>1. NewTask(kind, pc, t, u, s) \in TaskType(DOMAIN E)
  BY NoTaskGood, AnyCaller DEF NewTask, TaskType, Kinds, StartPCs
<1>2. /\ NewTask(kind, pc, t, u, s).answer = {}
      /\ NewTask(kind, pc, t, u, s).pc \notin {"purge", "purging"}
  BY DEF NewTask, NoTask, StartPCs
<1> QED  BY <1>1, <1>2, NewTaskFields DEF GoodTask

LEMMA TaskNames ==
  /\ \A kind \in {"recall", "extract", "ingest", "profile", "purge"} : kind \in Kinds
  /\ \A pc \in {"activated", "searched", "extract", "stored", "listed"} : pc \in StartPCs
BY DEF Kinds, StartPCs

LEMMA FinishedGood ==
  ASSUME NEW E, NEW m, GoodTask(E, m), NEW n \in Int
  PROVE  GoodTask(E, Finished(m, {}, n)) /\ Finished(m, {}, n).pc = "done"
BY DEF GoodTask, Finished, TaskType

(* Facts on their way to the store, by a batch or by the first of them. *)
LEMMA StoreFactsKeeps ==
  ASSUME MInv, [Next]_vars, NEW w \in Workers, NEW m, NEW K \in SUBSET Keys,
         NEW count \in Int, GoodTask(engrams', m), m.pc \in {"stored", "extract"},
         StoreFacts(w, m, K, count)
  PROVE  GoodTasks(engrams', task', call')
<1>1. CASE SetBatch(w, m.t, m.u, m.s, K) /\ Turn(w, [m EXCEPT !.pc = "stored", !.facts = K])
  <2> DEFINE n == [m EXCEPT !.pc = "stored", !.facts = K]
  <2>1. \A v \in Workers \ {w} : call'[v] = call[v]
    BY <1>1, CallBegun DEF SetBatch, WriteBatch
  <2>2. GoodTask(engrams', n) /\ n.pc = "stored"
    BY DEF GoodTask, TaskType
  <2>3. Turn(w, n)
    BY <1>1
  <2> HIDE DEF n
  <2> QED  BY <2>1, <2>2, <2>3, TaskStep DEF Linked
<1>2. ASSUME NEW k \in K, Set(w, m.t, m.u, m.s, k),
             Turn(w, [m EXCEPT !.pc = "facts", !.facts = K, !.left = K \ {k},
                               !.reported = count])
      PROVE  GoodTasks(engrams', task', call')
  <2> DEFINE L == K \ {k}
             n == [m EXCEPT !.pc = "facts", !.facts = K, !.left = L,
                            !.reported = count]
  <2>1. \A v \in Workers \ {w} : call'[v] = call[v]
    BY <1>2, SetGoes, CallBegun
  <2>2. GoodTask(engrams', n) /\ n.pc = "facts"
    <3>1. L \in SUBSET Keys
      OBVIOUS
    <3> HIDE DEF L
    <3> QED  BY <3>1 DEF GoodTask, TaskType
  <2>3. Turn(w, n)
    BY <1>2
  <2> HIDE DEF n
  <2> QED  BY <2>1, <2>2, <2>3, TaskStep DEF Linked
<1> QED  BY <1>1, <1>2 DEF StoreFacts

(* Operations that begin with a store call. *)
LEMMA OperationKeeps ==
  ASSUME MInv, [Next]_vars, NEW w \in Workers, Operation(w)
  PROVE  GoodTasks(engrams', task', call')
<1>1. PICK t \in Tenants, u \in Users :
        \/ \E s \in Sessions : Recall(w, t, u, s) \/ ExtractAndStoreAsync(w, t, u, s)
        \/ \E K \in SUBSET Keys : IngestProfile(w, t, u, K)
        \/ RecallProfile(w, t, u)
        \/ \E age \in Ages : PurgeOlderThan(w, t, age)
  BY DEF Operation
<1>3. ASSUME NEW s \in Sessions, Recall(w, t, u, s)
      PROVE  GoodTasks(engrams', task', call')
  <2>1. PICK op \in {"recall", "search"}, pc \in {"activated", "searched"} :
          /\ Activate(w, op, t, u, s, FALSE, RecallLimit)
          /\ Turn(w, NewTask("recall", pc, t, u, s))
    BY <1>3 DEF Recall
  <2> DEFINE m == NewTask("recall", pc, t, u, s)
  <2>2. GoodTask(engrams', m) /\ m.t = t /\ m.u = u /\ m.s = s
    BY NewTaskGood, NewTaskFields, TaskNames
  <2>3. PICK d : Goto(w, d) /\ d.t = t /\ d.u = u /\ d.s = s
    <3> DEFINE c == [NewCall(op, t, u, s) EXCEPT
                       !.tag = FALSE, !.limit = RecallLimit]
               d(A) == [NewCall(op, t, u, s) EXCEPT
                          !.tag = FALSE, !.limit = RecallLimit, !.pc = "items",
                          !.items = A]
    <3>1. Goto(w, Returned(c, "failed")) \/ \E A : Goto(w, d(A))
      BY <2>1 DEF Activate
    <3>2. \A A : d(A).t = t /\ d(A).u = u /\ d(A).s = s
      BY DEF NewCall, Idle
    <3>3. LET r == Returned(c, "failed") IN r.t = t /\ r.u = u /\ r.s = s
      BY DEF NewCall, Idle, Returned
    <3> QED  BY <3>1, <3>2, <3>3
  <2>4. Turn(w, m)
    BY <2>1
  <2> HIDE DEF m
  <2>5. Linked(m, call'[w]) /\ \A v \in Workers \ {w} : call'[v] = call[v]
    BY <2>2, <2>3, CallBegun DEF Linked
  <2> QED  BY <2>2, <2>4, <2>5, TaskStep
<1>4. ASSUME NEW s \in Sessions, ExtractAndStoreAsync(w, t, u, s)
      PROVE  GoodTasks(engrams', task', call')
  <2> DEFINE m == NewTask("extract", "extract", t, u, s)
  <2>2. GoodTask(engrams', m) /\ m.pc = "extract"
    BY NewTaskGood, NewTaskFields, TaskNames
  <2>3. Turn(w, m) /\ call' = call
    BY <1>4 DEF ExtractAndStoreAsync, StoreUnchanged
  <2> HIDE DEF m
  <2> QED  BY <2>2, <2>3, TaskStep DEF Linked
<1>5. ASSUME NEW K \in SUBSET Keys, IngestProfile(w, t, u, K)
      PROVE  GoodTasks(engrams', task', call')
  <2> DEFINE n == NewTask("ingest", "stored", t, u, Empty)
             m == [n EXCEPT !.facts = K]
  <2>0. Empty \in Sessions
    BY <1>5, NamelessCaller DEF IngestProfile, Free
  <2>1. \A E : GoodTask(E, n)
    BY <2>0, NewTaskGood, TaskNames
  <2>2. n.pc = "stored" /\ n.t = t /\ n.u = u /\ n.s = Empty
    BY NewTaskFields
  <2>3. (SetProfile(w, t, u, K) /\ Turn(w, m)) \/ StoreFacts(w, n, K, 0)
    BY <1>5 DEF IngestProfile
  <2> HIDE DEF n
  <2>4. CASE SetProfile(w, t, u, K) /\ Turn(w, m)
    <3>1. \A v \in Workers \ {w} : call'[v] = call[v]
      BY <2>4, CallBegun DEF SetProfile, WriteBatch
    <3>2. GoodTask(engrams', m) /\ m.pc = "stored"
      BY <2>1, <2>2 DEF GoodTask, TaskType
    <3> HIDE DEF m
    <3> QED  BY <2>4, <3>1, <3>2, TaskStep DEF Linked
  <2>5. CASE StoreFacts(w, n, K, 0)
    BY <2>1, <2>2, <2>5, StoreFactsKeeps
  <2> QED  BY <2>3, <2>4, <2>5
<1>6. ASSUME RecallProfile(w, t, u)
      PROVE  GoodTasks(engrams', task', call')
  <2> DEFINE m == NewTask("profile", "searched", t, u, Empty)
             d == [NewCall("list", t, u, Empty) EXCEPT
                     !.tag = TRUE, !.pc = "page", !.atStart = live]
  <2>0. Empty \in Sessions
    BY <1>6, NamelessCaller DEF RecallProfile, Free
  <2>1. GoodTask(engrams', m) /\ m.t = t /\ m.u = u /\ m.s = Empty
    BY <2>0, NewTaskGood, NewTaskFields, TaskNames
  <2>2. Turn(w, m) /\ Goto(w, d)
    BY <1>6 DEF RecallProfile, List
  <2>3. d.t = t /\ d.u = u /\ d.s = Empty
    BY DEF NewCall, Idle
  <2> HIDE DEF m, d
  <2>4. Linked(m, call'[w]) /\ \A v \in Workers \ {w} : call'[v] = call[v]
    BY <2>1, <2>2, <2>3, CallBegun DEF Linked
  <2> QED  BY <2>1, <2>2, <2>4, TaskStep
<1>7. ASSUME NEW age \in Ages, PurgeOlderThan(w, t, age)
      PROVE  GoodTasks(engrams', task', call')
  <2> DEFINE n == NewTask("purge", "listed", t, Empty, Empty)
             m == [n EXCEPT !.age = age]
  <2>0. "purge" \in Tasks /\ Empty \in Users /\ Empty \in Sessions
    BY <1>7, NamelessCaller DEF PurgeOlderThan, Free
  <2>1. GoodTask(engrams', n) /\ n.pc = "listed"
    BY <2>0, NewTaskGood, NewTaskFields, TaskNames
  <2>2. Turn(w, m) /\ \A v \in Workers \ {w} : call'[v] = call[v]
    BY <1>7, CallBegun DEF PurgeOlderThan, List
  <2> HIDE DEF n
  <2>3. GoodTask(engrams', m) /\ m.pc = "listed"
    BY <2>1, ManagerAssumption DEF GoodTask, TaskType
  <2> HIDE DEF m
  <2> QED  BY <2>2, <2>3, TaskStep DEF Linked
<1> QED  BY <1>1, <1>3, <1>4, <1>5, <1>6, <1>7

(* The answer of a store call belongs to the operation that waited for it. *)
LEMMA AnswerGood ==
  ASSUME MInv, NEW w \in Workers, task[w].pc \in {"activated", "searched"},
         NEW A \in SUBSET call[w].result
  PROVE  GoodTask(engrams, Finished(task[w], A, Cardinality(A)))
<1> DEFINE m == task[w]
           c == call[w]
           d == Finished(m, A, Cardinality(A))
<1>1. m \in TaskType(DOMAIN engrams) /\ c \in CallType(DOMAIN engrams)
  BY TaskOf
<1>2. c.t = m.t /\ c.u = m.u /\ c.s = m.s
  BY DEF MInv, GoodTasks, Linked
<1>3. A \subseteq DOMAIN engrams
  BY <1>1 DEF CallType
<1>4. Cardinality(A) \in Nat
  <2>1. engrams \in Seq(EngramType)
    BY DEF MInv, IInv, GoodServer
  <2>2. DOMAIN engrams = 1..Len(engrams) /\ Len(engrams) \in Nat
    BY <2>1
  <2>3. IsFiniteSet(DOMAIN engrams)
    BY <2>2, FS_Interval
  <2> QED  BY <1>3, <2>3, FS_Subset, FS_CardinalityType
<1>5. \A id \in A : engrams[id].vault = m.t /\ InScope(engrams[id], m.u, m.s, FALSE)
  <2> TAKE id \in A
  <2>1. id \in c.items \cup c.result
    OBVIOUS
  <2>2. engrams[id].vault = c.t /\ InScope(engrams[id], c.u, c.s, c.tag)
    BY <2>1, TaskOf DEF SoundIn
  <2> QED  BY <1>2, <2>2 DEF InScope
<1>6. /\ d.pc = "done" /\ d.answer = A /\ d.t = m.t /\ d.u = m.u /\ d.s = m.s
      /\ d \in TaskType(DOMAIN engrams)
  <2> DEFINE n == Cardinality(A)
  <2>1. n \in Int
    BY <1>4
  <2>2. m \in TaskType(DOMAIN engrams) /\ d = Finished(m, A, n)
    BY <1>1
  <2> HIDE DEF n, m, c, d
  <2> QED  BY <1>3, <2>1, <2>2 DEF Finished, TaskType
<1> QED  BY <1>5, <1>6 DEF GoodTask

(* A step that only the operation sees. *)
LEMMA OwnStep ==
  ASSUME MInv, [Next]_vars, NEW w \in Workers, NEW m, Turn(w, m),
         GoodTask(engrams, m), StoreUnchanged,
         m.pc \notin {"activated", "searched"}
  PROVE  GoodTasks(engrams', task', call')
<1>1. GoodTask(engrams', m) /\ call' = call
  BY DEF StoreUnchanged
<1> QED  BY <1>1, TaskStep DEF Linked

LEMMA CallStepKeeps ==
  ASSUME MInv, [Next]_vars, NEW w \in Workers, CallStep(w)
  PROVE  GoodTasks(engrams', task', call')
<1> DEFINE m == task[w]
           d == [m EXCEPT !.entries = Listed(w),
                          !.forgot = IF task[w].kind = "purge" /\ live' # live
                                     THEN @ + 1 ELSE @]
<1>1. /\ call'[w].t = call[w].t /\ call'[w].u = call[w].u /\ call'[w].s = call[w].s
      /\ \A v \in Workers \ {w} : call'[v] = call[v]
  BY StepKeepsScope DEF CallStep, MInv
<1>2. Listed(w) \in Seq(DOMAIN engrams)
  <2>1. m.entries \in Seq(DOMAIN engrams)
    BY TaskOf DEF TaskType
  <2>2. Handed(w) \subseteq DOMAIN engrams
    BY TaskOf DEF Handed, CallType
  <2> DEFINE id == CHOOSE i \in Handed(w) : TRUE
             q == m.entries
  <2>3. CASE Handed(w) # {}
    <3>1. id \in DOMAIN engrams
      BY <2>2, <2>3
    <3> HIDE DEF id, q
    <3>2. Append(q, id) \in Seq(DOMAIN engrams)
      BY <2>1, <3>1, AppendProperties DEF q
    <3> QED  BY <2>1, <3>2 DEF Listed, id, q
  <2>4. CASE Handed(w) = {}
    BY <2>1, <2>4 DEF Listed
  <2> QED  BY <2>3, <2>4
<1>3. d \in TaskType(DOMAIN engrams) /\ d.pc = m.pc /\ d.answer = m.answer
      /\ d.t = m.t /\ d.u = m.u /\ d.s = m.s
  <2>1. m \in TaskType(DOMAIN engrams)
    BY TaskOf
  <2> DEFINE n == IF task[w].kind = "purge" /\ live' # live
                  THEN m.forgot + 1 ELSE m.forgot
             q == Listed(w)
  <2>2. n \in Nat
    BY <2>1 DEF TaskType
  <2>3. d = [m EXCEPT !.entries = q, !.forgot = n]
    OBVIOUS
  <2>4. q \in Seq(DOMAIN engrams)
    BY <1>2
  <2> HIDE DEF m, n, d, q
  <2> QED  BY <2>1, <2>2, <2>3, <2>4 DEF TaskType
<1>4. GoodTask(engrams, m) /\ Linked(m, call[w])
  BY DEF MInv, GoodTasks
<1>5. Turn(w, d)
  BY DEF CallStep
<1> HIDE DEF d
<1>6. GoodTask(engrams, d)
  <2>1. m.pc = "purging" => d.entries = m.entries
    BY TaskOf DEF Listed, TaskType, d
  <2> HIDE DEF m
  <2> QED  BY <1>3, <1>4, <2>1 DEF GoodTask
<1>7. GoodTask(engrams', d)
  BY <1>6, TaskExtends, ServerExtends DEF MInv
<1>8. Linked(d, call'[w])
  BY <1>1, <1>3, <1>4 DEF Linked
<1> QED  BY <1>1, <1>5, <1>7, <1>8, TaskStep

LEMMA FallBackKeeps ==
  ASSUME MInv, [Next]_vars, NEW w \in Workers, FallBack(w)
  PROVE  GoodTasks(engrams', task', call')
<1> DEFINE m == task[w]
           n == [m EXCEPT !.pc = "searched"]
           new == NewCall("search", m.t, m.u, m.s)
           sent(A) == [new EXCEPT !.tag = FALSE, !.limit = RecallLimit,
                                  !.pc = "items", !.items = A]
           lost == Returned([new EXCEPT !.tag = FALSE, !.limit = RecallLimit],
                            "failed")
<1>1. Turn(w, n) /\ engrams' = engrams
  BY DEF FallBack, Activate
<1>2. Goto(w, lost) \/ \E A : Goto(w, sent(A))
  BY DEF FallBack, Activate
<1>3. lost.t = m.t /\ lost.u = m.u /\ lost.s = m.s
  BY DEF NewCall, Idle, Returned
<1>4. \A A : sent(A).t = m.t /\ sent(A).u = m.u /\ sent(A).s = m.s
  BY DEF NewCall, Idle
<1>5. PICK d : Goto(w, d) /\ d.t = m.t /\ d.u = m.u /\ d.s = m.s
  BY <1>2, <1>3, <1>4
<1>6. GoodTask(engrams, m) /\ m.pc = "activated"
  BY DEF MInv, GoodTasks, FallBack, Back
<1>7. GoodTask(engrams', n) /\ n.t = m.t /\ n.u = m.u /\ n.s = m.s
  BY <1>1, <1>6 DEF GoodTask, TaskType
<1> HIDE DEF n
<1>8. Linked(n, call'[w]) /\ \A v \in Workers \ {w} : call'[v] = call[v]
  BY <1>5, <1>7, CallBegun DEF Linked
<1> QED  BY <1>1, <1>7, <1>8, TaskStep

LEMMA ExtractKeeps ==
  ASSUME MInv, [Next]_vars, NEW w \in Workers, Extract(w)
  PROVE  GoodTasks(engrams', task', call')
<1> DEFINE m == task[w]
<1>1. GoodTask(engrams, m)
  BY DEF MInv, GoodTasks
<1>2. CASE Turn(w, Finished(m, {}, 0)) /\ StoreUnchanged
  BY <1>1, <1>2, FinishedGood, OwnStep
<1>3. ASSUME NEW K \in SUBSET Keys, StoreFacts(w, m, K, Cardinality(K))
      PROVE  GoodTasks(engrams', task', call')
  <2>1. m.pc = "extract"
    BY DEF Extract, Back
  <2>2. GoodTask(engrams', m)
    BY <1>1, TaskExtends, ServerExtends DEF MInv
  <2>3. Cardinality(K) \in Int
    BY ManagerAssumption, FS_Subset, FS_CardinalityType
  <2> HIDE DEF m
  <2> QED  BY <1>3, <2>1, <2>2, <2>3, StoreFactsKeeps
<1> QED  BY <1>2, <1>3 DEF Extract

LEMMA NextFactKeeps ==
  ASSUME MInv, [Next]_vars, NEW w \in Workers, NextFact(w)
  PROVE  GoodTasks(engrams', task', call')
<1> DEFINE m == task[w]
           count == Counted(m, call[w].outcome)
<1>1. GoodTask(engrams, m) /\ m.pc = "facts"
  BY DEF MInv, GoodTasks, NextFact, Back
<1>2. count \in Int
  BY <1>1 DEF Counted, GoodTask, TaskType
<1>3. \/ Turn(w, Finished(m, {}, count)) /\ StoreUnchanged
      \/ \E k \in m.left :
           /\ Set(w, m.t, m.u, m.s, k)
           /\ Turn(w, [m EXCEPT !.left = @ \ {k}, !.reported = count])
  BY DEF NextFact
<1> HIDE DEF count
<1>4. CASE Turn(w, Finished(m, {}, count)) /\ StoreUnchanged
  BY <1>1, <1>2, <1>4, FinishedGood, OwnStep
<1>5. ASSUME NEW k \in m.left, Set(w, m.t, m.u, m.s, k),
             Turn(w, [m EXCEPT !.left = @ \ {k}, !.reported = count])
      PROVE  GoodTasks(engrams', task', call')
  <2> DEFINE L == m.left \ {k}
             n == [m EXCEPT !.left = L, !.reported = count]
  <2>1. \A v \in Workers \ {w} : call'[v] = call[v]
    BY <1>5, SetGoes, CallBegun
  <2>2. GoodTask(engrams', m)
    BY <1>1, TaskExtends, ServerExtends DEF MInv
  <2>3. L \in SUBSET Keys
    BY <1>1 DEF GoodTask, TaskType
  <2>4. Turn(w, n)
    BY <1>5
  <2> HIDE DEF L, m
  <2>5. GoodTask(engrams', n) /\ n.pc = "facts"
    BY <1>1, <1>2, <2>2, <2>3 DEF GoodTask, TaskType
  <2> HIDE DEF n
  <2> QED  BY <2>1, <2>4, <2>5, TaskStep DEF Linked
<1> QED  BY <1>3, <1>4, <1>5

LEMMA PurgeEntryKeeps ==
  ASSUME MInv, [Next]_vars, NEW w \in Workers, PurgeEntry(w)
  PROVE  GoodTasks(engrams', task', call')
<1> DEFINE m == task[w]
<1>1. GoodTask(engrams, m) /\ m.pc = "purge"
  BY DEF MInv, GoodTasks, PurgeEntry, Back
<1>2. ASSUME NEW e, DeleteEntry(w, m, e), Turn(w, [m EXCEPT !.pc = "purging"])
      PROVE  GoodTasks(engrams', task', call')
  <2> DEFINE n == [m EXCEPT !.pc = "purging"]
  <2>1. engrams' = engrams /\ \A v \in Workers \ {w} : call'[v] = call[v]
    BY <1>2, CallBegun DEF DeleteEntry, Delete
  <2>2. GoodTask(engrams', n) /\ n.pc = "purging"
    <3>1. m.entries # <<>>
      BY DEF PurgeEntry
    <3> QED  BY <1>1, <2>1, <3>1 DEF GoodTask, TaskType
  <2> HIDE DEF n
  <2>3. Turn(w, n)
    BY <1>2 DEF n
  <2> QED  BY <2>1, <2>2, <2>3, TaskStep DEF Linked
<1>3. CASE StoreUnchanged /\ Turn(w, [m EXCEPT !.entries = Tail(@)])
  <2> DEFINE q == Tail(m.entries)
             n == [m EXCEPT !.entries = q]
  <2>1. q \in Seq(DOMAIN engrams)
    BY HeadEntry DEF PurgeEntry
  <2> HIDE DEF q
  <2>2. GoodTask(engrams, n) /\ n.pc = "purge"
    BY <1>1, <2>1 DEF GoodTask, TaskType
  <2>3. Turn(w, n)
    BY <1>3 DEF q
  <2> HIDE DEF n
  <2> QED  BY <1>3, <2>2, <2>3, OwnStep
<1> QED  BY <1>2, <1>3 DEF PurgeEntry

LEMMA ContinueKeeps ==
  ASSUME MInv, [Next]_vars, NEW w \in Workers, Continue(w)
  PROVE  GoodTasks(engrams', task', call')
<1> DEFINE m == task[w]
<1>1. GoodTask(engrams, m) /\ m \in TaskType(DOMAIN engrams)
  BY TaskOf DEF MInv, GoodTasks
<1>2. CASE Activated(w)
  <2>1. /\ m.pc = "activated" /\ StoreUnchanged
        /\ Turn(w, Finished(m, call[w].result, Cardinality(call[w].result)))
    BY <1>2 DEF Activated, Back
  <2>2. Finished(m, call[w].result, Cardinality(call[w].result)).pc = "done"
    BY <1>1 DEF Finished, TaskType
  <2> QED  BY <2>1, <2>2, AnswerGood, OwnStep
<1>3. CASE Searched(w)
  <2>1. PICK A \in SUBSET call[w].result :
          Turn(w, Finished(m, A, Cardinality(A)))
    BY <1>3 DEF Searched
  <2>2. m.pc = "searched" /\ StoreUnchanged
    BY <1>3 DEF Searched, Back
  <2>3. Finished(m, A, Cardinality(A)).pc = "done"
    BY <1>1 DEF Finished, TaskType
  <2> QED  BY <2>1, <2>2, <2>3, AnswerGood, OwnStep
<1>4. CASE Stored(w)
  <2>1. Report(w) \in Int
    <3>1. m.facts \in SUBSET Keys
      BY <1>1 DEF TaskType
    <3>2. Cardinality(m.facts) \in Nat
      BY <3>1, ManagerAssumption, FS_Subset, FS_CardinalityType
    <3> QED  BY <3>2 DEF Report
  <2>2. Turn(w, Finished(m, {}, Report(w))) /\ StoreUnchanged
    BY <1>4 DEF Stored
  <2> QED  BY <1>1, <2>1, <2>2, FinishedGood, OwnStep
<1>5. CASE PurgeCutoff(w)
  <2> DEFINE n == [m EXCEPT !.pc = "purge", !.cutoff = now]
  <2>1. GoodTask(engrams, n) /\ n.pc = "purge"
    <3>1. now \in Nat
      BY DEF MInv, IInv
    <3>2. m.pc = "listed"
      BY <1>5 DEF PurgeCutoff, Back
    <3> QED  BY <1>1, <3>1, <3>2 DEF GoodTask, TaskType
  <2>2. (Turn(w, n) \/ Turn(w, Finished(m, {}, 0))) /\ StoreUnchanged
    BY <1>5 DEF PurgeCutoff
  <2> HIDE DEF n
  <2> QED  BY <1>1, <2>1, <2>2, FinishedGood, OwnStep
<1>6. CASE PurgeCounted(w)
  <2> DEFINE q == Tail(m.entries)
             r == Removed(m, call[w].outcome)
             n == [m EXCEPT !.pc = "purge", !.entries = q, !.removed = r]
  <2>1. Turn(w, n) /\ StoreUnchanged /\ m.pc = "purging"
    BY <1>6 DEF PurgeCounted, Back
  <2>2. q \in Seq(DOMAIN engrams)
    BY <1>1, <2>1, HeadEntry DEF GoodTask
  <2>3. r \in Nat
    BY <1>1 DEF Removed, TaskType
  <2> HIDE DEF q, r
  <2>4. GoodTask(engrams, n) /\ n.pc = "purge"
    BY <1>1, <2>1, <2>2, <2>3 DEF GoodTask, TaskType
  <2> HIDE DEF n
  <2> QED  BY <2>1, <2>4, OwnStep
<1>7. CASE PurgeDone(w)
  BY <1>1, <1>7, FinishedGood, OwnStep DEF PurgeDone
<1> QED  BY <1>2, <1>3, <1>4, <1>5, <1>6, <1>7, CallStepKeeps, FallBackKeeps,
            ExtractKeeps, NextFactKeeps, PurgeEntryKeeps DEF Continue

-----------------------------------------------------------------------------
(* Every step of the manager keeps the invariant. *)

(* A call that begins is a step of its own goroutine. *)
LEMMA BeginGoes ==
  ASSUME NEW w \in Workers, Begin(w)
  PROVE  \E d : Goto(w, d)
<1> DEFINE goes == \E d : Goto(w, d)
<1>1. ASSUME NEW d, Goto(w, d) PROVE goes
  BY <1>1
<1> HIDE DEF goes
<1>2. ASSUME NEW t, NEW u, NEW s, NEW k, NEW tag, Write(w, t, u, s, k, tag)
      PROVE  goes
  BY <1>1, <1>2 DEF Write
<1>3. ASSUME NEW t, NEW u, NEW s, NEW k, Get(w, t, u, s, k) \/ Delete(w, t, u, s, k)
      PROVE  goes
  BY <1>1, <1>3 DEF Get, Delete
<1>4. ASSUME NEW op, NEW t, NEW u, NEW s, NEW tag, NEW limit,
             Activate(w, op, t, u, s, tag, limit)
      PROVE  goes
  BY <1>1, <1>4 DEF Activate
<1>5. ASSUME NEW t, NEW u, NEW s, NEW tag, List(w, t, u, s, tag) PROVE goes
  BY <1>1, <1>5 DEF List
<1>6. ASSUME NEW t, NEW u, NEW s, NEW K, NEW tag, WriteBatch(w, t, u, s, K, tag)
      PROVE  goes
  BY <1>1, <1>6 DEF WriteBatch
<1> QED  BY <1>2, <1>3, <1>4, <1>5, <1>6
         DEF Begin, Set, SaveTurn, SetBatch, SetProfile, goes

LEMMA ProfileFactsKeep ==
  ASSUME MInv, [ManagerNext]_allVars
  PROVE  profileFacts' \subseteq Tenants \X TagUsers \X Keys
<1>1. profileFacts \subseteq Tenants \X TagUsers \X Keys
  BY DEF MInv
<1>2. ASSUME NEW w \in Workers, Operation(w)
      PROVE  profileFacts' \subseteq Tenants \X TagUsers \X Keys
  <2>1. ASSUME NEW t \in Tenants, NEW u \in Users, NEW K \in SUBSET Keys,
               IngestProfile(w, t, u, K)
        PROVE  profileFacts' \subseteq Tenants \X TagUsers \X Keys
    BY <1>1, <2>1, AnyCaller DEF IngestProfile
  <2>2. ASSUME UNCHANGED profileFacts
        PROVE  profileFacts' \subseteq Tenants \X TagUsers \X Keys
    BY <1>1, <2>2
  <2> QED  BY <1>2, <2>1, <2>2
           DEF Operation, Recall, ExtractAndStoreAsync, RecallProfile, PurgeOlderThan
<1>3. ASSUME NEW w \in Workers, ToolCall(w) \/ Continue(w)
      PROVE  UNCHANGED profileFacts
  BY <1>3 DEF ToolCall, Continue, CallStep, Activated, FallBack, Searched,
     Extract, Stored, NextFact, PurgeCutoff, PurgeEntry, PurgeCounted, PurgeDone
<1>4. CASE (Tick /\ UNCHANGED managerVars) \/ ManagerRestart \/ UNCHANGED allVars
  BY <1>1, <1>4 DEF ManagerRestart, managerVars, allVars
<1> QED  BY <1>1, <1>2, <1>3, <1>4 DEF ManagerNext

LEMMA ManagerKeeps ==
  ASSUME MInv, [ManagerNext]_allVars
  PROVE  MInv'
<1>1. [Next]_vars
  BY ManagerStepsStore
<1>2. IInv'
  BY <1>1, NextKeeps DEF MInv
<1>3. GoodTasks(engrams', task', call')
  <2>1. ASSUME NEW w \in Workers, ToolCall(w)
        PROVE  GoodTasks(engrams', task', call')
    <3>1. Turn(w, NoTask) /\ \A v \in Workers \ {w} : call'[v] = call[v]
      <4>1. PICK d : Goto(w, d)
        BY <2>1, BeginGoes DEF ToolCall
      <4> QED  BY <2>1, <4>1, CallBegun DEF ToolCall
    <3>2. NoTask.pc = "done"
      BY DEF NoTask
    <3> QED  BY <1>1, <3>1, <3>2, NoTaskGood, TaskStep DEF Linked
  <2>2. CASE (Tick /\ UNCHANGED managerVars) \/ UNCHANGED allVars
    BY <2>2 DEF Tick, managerVars, allVars, MInv
  <2>3. CASE ManagerRestart
    BY <2>3, NoTaskGood DEF ManagerRestart, GoodTasks, Linked, NoTask
  <2> QED  BY <1>1, <2>1, <2>2, <2>3, OperationKeeps, ContinueKeeps DEF ManagerNext
<1>4. optional' \in Interfaces
  <2>1. ASSUME NEW w \in Workers, ToolCall(w) \/ Operation(w) \/ Continue(w)
        PROVE  UNCHANGED optional
    BY <2>1 DEF ToolCall, Operation, Recall, ExtractAndStoreAsync, IngestProfile,
       RecallProfile, PurgeOlderThan, Continue, CallStep, Activated, FallBack,
       Searched, Extract, Stored, NextFact, PurgeCutoff, PurgeEntry, PurgeCounted,
       PurgeDone
  <2>2. CASE (Tick /\ UNCHANGED managerVars) \/ ManagerRestart \/ UNCHANGED allVars
    BY <2>2 DEF ManagerRestart, managerVars, allVars, MInv
  <2> QED  BY <2>1, <2>2 DEF MInv, ManagerNext
<1> QED  BY <1>2, <1>3, <1>4, ProfileFactsKeep DEF MInv

-----------------------------------------------------------------------------
(* Purges.  While a purge deletes an entry its call carries the scope and  *)
(* the concept of that entry, and what it forgot is what it counted, but   *)
(* for an engram whose delete has not returned yet: unless an answer was   *)
(* lost, or the server let an engram be forgotten twice.                   *)

NoneLost == "transport" \notin Faults /\ "twice" \notin Faults

Uncounted(m, c) ==
  IF m.pc = "purging" /\ (c.pc = "drop" \/ (c.pc = "done" /\ c.outcome = "ok"))
  THEN 1 ELSE 0

(* The call c deletes the entry at the head of the purge m. *)
Deletes(E, m, c) ==
  LET e == E[Head(m.entries)]
  IN  c.t = m.t /\ c.u = e.user /\ c.s = e.session /\ c.k = e.key

PurgeSound(E, m, c) ==
  /\ m.pc \in {"listed", "purge", "purging"} => m.kind = "purge"
  /\ m.kind = "purge" =>
       /\ m.pc \in {"done", "listed", "purge", "purging"}
       /\ m.pc \in {"done", "purge"} => c.pc = "done"
       /\ m.pc = "listed" => c.op = "list" /\ c.pc \in {"done", "page", "items"}
       /\ m.pc = "purging" =>
            c.op = "delete" /\ c.pc \in {"done", "activate", "forget", "drop"}
       /\ m.pc = "purging" /\ c.pc # "done" => Deletes(E, m, c)
       /\ NoneLost => m.forgot = m.removed + Uncounted(m, c)

PurgesSound == \A w \in Workers : PurgeSound(engrams, task[w], call[w])

(* An operation that is no purge. *)
LEMMA NoPurge ==
  ASSUME NEW E, NEW m, NEW c, m.kind # "purge",
         m.pc \notin {"listed", "purge", "purging"}
  PROVE  PurgeSound(E, m, c)
BY DEF PurgeSound

(* Of the calls, a step of a goroutine moves its own. *)
LEMMA OwnCall ==
  ASSUME MInv, NEW w \in Workers, Begin(w) \/ Step(w) \/ UNCHANGED vars
  PROVE  \A v \in Workers \ {w} : call'[v] = call[v]
<1>1. CASE Begin(w)
  BY <1>1, BeginGoes, CallBegun
<1>2. CASE Step(w)
  BY <1>2, StepKeepsScope DEF MInv
<1>3. CASE UNCHANGED vars
  BY <1>3 DEF vars
<1> QED  BY <1>1, <1>2, <1>3

LEMMA OthersStay ==
  ASSUME MInv, NEW w \in Workers, Operation(w) \/ Continue(w) \/ ToolCall(w)
  PROVE  [Next]_vars /\ \A v \in Workers \ {w} : call'[v] = call[v]
<1>1. Step(w) \/ Begin(w) \/ UNCHANGED vars
  BY OperationCalls, ContinueCalls DEF ToolCall
<1> QED  BY <1>1, OwnCall DEF Next

(* An operation stays of its kind. *)
LEMMA KindStays ==
  ASSUME MInv, NEW w \in Workers, Continue(w)
  PROVE  \E n : Turn(w, n) /\ n.kind = task[w].kind
<1> DEFINE m == task[w]
           goal == \E n : Turn(w, n) /\ n.kind = m.kind
<1>1. m \in TaskType(DOMAIN engrams)
  BY TaskOf
<1>2. ASSUME NEW n, Turn(w, n), n.kind = m.kind PROVE goal
  BY <1>2
<1>3. \A A, n : Finished(m, A, n).kind = m.kind
  BY <1>1 DEF Finished, TaskType
<1> HIDE DEF goal
<1>4. ASSUME Activated(w) \/ Searched(w) \/ Stored(w) \/ PurgeDone(w) PROVE goal
  <2>1. \E A, n : Turn(w, Finished(m, A, n))
    BY <1>4 DEF Activated, Searched, Stored, PurgeDone
  <2> QED  BY <1>2, <1>3, <2>1
<1>5. ASSUME FallBack(w) PROVE goal
  <2> DEFINE n == [m EXCEPT !.pc = "searched"]
  <2>1. Turn(w, n) /\ n.kind = m.kind
    BY <1>1, <1>5 DEF FallBack, TaskType
  <2> HIDE DEF n
  <2> QED  BY <1>2, <2>1
<1>6. ASSUME Extract(w) \/ NextFact(w) PROVE goal
  <2> DEFINE sent(K) == [m EXCEPT !.pc = "stored", !.facts = K]
             looped(K, L, n) == [m EXCEPT !.pc = "facts", !.facts = K, !.left = L,
                                          !.reported = n]
             next(L, n) == [m EXCEPT !.left = L, !.reported = n]
  <2>1. \/ \E A, n : Turn(w, Finished(m, A, n))
        \/ \E K : Turn(w, sent(K))
        \/ \E K, L, n : Turn(w, looped(K, L, n))
        \/ \E L, n : Turn(w, next(L, n))
    BY <1>6 DEF Extract, StoreFacts, NextFact
  <2>2. \A K, L, n : /\ sent(K).kind = m.kind /\ next(L, n).kind = m.kind
                     /\ looped(K, L, n).kind = m.kind
    BY <1>1 DEF TaskType
  <2> HIDE DEF sent, looped, next
  <2> QED  BY <1>2, <1>3, <2>1, <2>2
<1>7. ASSUME PurgeCutoff(w) PROVE goal
  <2> DEFINE n == [m EXCEPT !.pc = "purge", !.cutoff = now]
  <2>1. (Turn(w, n) \/ Turn(w, Finished(m, {}, 0))) /\ n.kind = m.kind
    BY <1>1, <1>7 DEF PurgeCutoff, TaskType
  <2> HIDE DEF n
  <2> QED  BY <1>2, <1>3, <2>1
<1>8. ASSUME PurgeEntry(w) PROVE goal
  <2> DEFINE n == [m EXCEPT !.pc = "purging"]
             x == [m EXCEPT !.entries = Tail(@)]
  <2>1. (Turn(w, n) \/ Turn(w, x)) /\ n.kind = m.kind /\ x.kind = m.kind
    BY <1>1, <1>8 DEF PurgeEntry, TaskType
  <2> HIDE DEF n, x
  <2> QED  BY <1>2, <2>1
<1>9. ASSUME PurgeCounted(w) PROVE goal
  <2> DEFINE n == [m EXCEPT !.pc = "purge", !.entries = Tail(@),
                            !.removed = Removed(m, call[w].outcome)]
  <2>1. Turn(w, n) /\ n.kind = m.kind
    BY <1>1, <1>9 DEF PurgeCounted, TaskType
  <2> HIDE DEF n
  <2> QED  BY <1>2, <2>1
<1>10. ASSUME CallStep(w) PROVE goal
  <2> DEFINE n == [m EXCEPT !.entries = Listed(w),
                            !.forgot = IF task[w].kind = "purge" /\ live' # live
                                       THEN @ + 1 ELSE @]
  <2>1. Turn(w, n) /\ n.kind = m.kind
    BY <1>1, <1>10 DEF CallStep, TaskType
  <2> HIDE DEF n
  <2> QED  BY <1>2, <2>1
<1>11. goal
  BY <1>4, <1>5, <1>6, <1>7, <1>8, <1>9, <1>10 DEF Continue
<1> QED  BY <1>11 DEF goal

(* A call that returned makes no step. *)
LEMMA DoneRests ==
  ASSUME NEW w, call[w].pc = "done"
  PROVE  ~ Step(w)
BY DEF Step, CacheOwn, Read, ActivateKey, Forget, DropCache, ListPage, CacheItem,
       ItemsDone, SendChunk, ServeItem, ReceiveResults, CacheResult, NextChunk,
       RequestFails

LEMMA PurgeTurn ==
  ASSUME MInv, PurgesSound, [Next]_vars, NEW w \in Workers, NEW m, Turn(w, m),
         PurgeSound(engrams', m, call'[w]),
         \A v \in Workers \ {w} : call'[v] = call[v]
  PROVE  PurgesSound'
<1>1. Extends(engrams, engrams')
  BY ServerExtends DEF MInv
<1>2. task'[w] = m /\ \A v \in Workers \ {w} : task'[v] = task[v]
  BY DEF MInv, GoodTasks, Turn
<1>3. ASSUME NEW v \in Workers \ {w} PROVE PurgeSound(engrams', task[v], call[v])
  <2>1. PurgeSound(engrams, task[v], call[v])
    BY DEF PurgesSound
  <2>2. task[v].pc = "purging" => Head(task[v].entries) \in DOMAIN engrams
    <3> SUFFICES ASSUME task[v].pc = "purging"
                 PROVE  Head(task[v].entries) \in DOMAIN engrams
      OBVIOUS
    <3> DEFINE q == task[v].entries
    <3>1. q # <<>> /\ q \in Seq(DOMAIN engrams)
      BY TaskOf DEF MInv, GoodTasks, GoodTask, TaskType
    <3> HIDE DEF q
    <3>2. Head(q) \in DOMAIN engrams
      BY <3>1, HeadTailProperties
    <3> QED  BY <3>2 DEF q
  <2>3. /\ task[v].pc = "purging" /\ Deletes(engrams, task[v], call[v])
           => Deletes(engrams', task[v], call[v])
    BY <1>1, <2>2 DEF Deletes, Extends
  <2> QED  BY <2>1, <2>3 DEF PurgeSound
<1> QED  BY <1>2, <1>3 DEF PurgesSound

(* A step of a delete that has looked its id up. *)
LEMMA DeleteStep ==
  ASSUME IInv, NEW w \in Workers, Step(w), call[w].op = "delete",
         call[w].pc \in {"activate", "forget", "drop"}
  PROVE  LET c == call[w]
             d == call'[w]
         IN  /\ d.op = "delete" /\ d.t = c.t /\ d.u = c.u /\ d.s = c.s /\ d.k = c.k
             /\ \/ c.pc = "activate" /\ live' = live /\ d.pc = "forget"
                \/ /\ c.pc \in {"activate", "forget"} /\ live' = live
                   /\ d.pc = "done" /\ d.outcome # "ok"
                \/ c.pc = "forget" /\ live' # live /\ d.pc = "drop"
                \/ c.pc = "drop" /\ live' = live /\ d.pc = "done" /\ d.outcome = "ok"
                \/ "twice" \in Faults /\ c.pc = "forget" /\ d.pc = "drop"
                \/ "transport" \in Faults /\ d.pc = "done"
<1> DEFINE c == call[w]
           same(d) == /\ d.op = "delete" /\ d.t = c.t /\ d.u = c.u /\ d.s = c.s
                      /\ d.k = c.k
<1>1. c \in CallType(DOMAIN engrams)
  BY CallAt DEF GoodCall
<1>2. \A d : Goto(w, d) => call'[w] = d
  BY DEF Goto, IInv, GoodCalls
<1>3. ASSUME NEW outcome
      PROVE  /\ same(Returned(c, outcome)) /\ Returned(c, outcome).pc = "done"
             /\ Returned(c, outcome).outcome = outcome
  BY <1>1 DEF Returned, CallType
<1>4. ASSUME NEW outcome, Return(w, outcome)
      PROVE  same(call'[w]) /\ call'[w].pc = "done" /\ call'[w].outcome = outcome
  <2>1. call'[w] = Returned(c, outcome)
    BY <1>2, <1>4 DEF Return
  <2> QED  BY <1>3, <2>1
<1>5. CASE ActivateKey(w)
  <2> DEFINE d(id) == [c EXCEPT !.id = id, !.pc = "forget"]
  <2>1. c.pc = "activate" /\ live' = live
    BY <1>5 DEF ActivateKey
  <2>2. Return(w, "notFound") \/ \E id : Goto(w, d(id))
    BY <1>5 DEF ActivateKey
  <2>3. \A id : same(d(id)) /\ d(id).pc = "forget"
    BY <1>1 DEF CallType
  <2> HIDE DEF d
  <2>4. CASE \E id : Goto(w, d(id))
    <3>1. same(call'[w]) /\ call'[w].pc = "forget"
      BY <1>2, <2>3, <2>4
    <3> QED  BY <2>1, <3>1
  <2>5. CASE Return(w, "notFound")
    <3>1. same(call'[w]) /\ call'[w].pc = "done" /\ call'[w].outcome = "notFound"
      BY <1>4, <2>5
    <3> QED  BY <2>1, <3>1
  <2> QED  BY <2>2, <2>4, <2>5
<1>6. CASE Forget(w)
  <2> DEFINE d == [c EXCEPT !.pc = "drop"]
  <2>1. c.pc = "forget" /\ live' = live \ {c.id}
    BY <1>6 DEF Forget
  <2>2. \/ (c.id \in live \/ "twice" \in Faults) /\ Goto(w, d)
        \/ c.id \notin live /\ Return(w, "missing")
        \/ "transport" \in Faults /\ Return(w, "failed")
    BY <1>6 DEF Forget
  <2>3. same(d) /\ d.pc = "drop"
    BY <1>1 DEF CallType
  <2> HIDE DEF d
  <2>4. CASE (c.id \in live \/ "twice" \in Faults) /\ Goto(w, d)
    <3>1. (live' # live \/ "twice" \in Faults) /\ call'[w] = d
      BY <1>2, <2>1, <2>4
    <3> QED  BY <2>1, <2>3, <3>1
  <2>5. CASE c.id \notin live /\ Return(w, "missing")
    <3>1. live' = live
      BY <2>1, <2>5
    <3>2. same(call'[w]) /\ call'[w].pc = "done" /\ call'[w].outcome = "missing"
      BY <1>4, <2>5
    <3> QED  BY <2>1, <3>1, <3>2
  <2>6. CASE "transport" \in Faults /\ Return(w, "failed")
    <3>1. same(call'[w]) /\ call'[w].pc = "done"
      BY <1>4, <2>6
    <3> QED  BY <2>6, <3>1
  <2> QED  BY <2>2, <2>4, <2>5, <2>6
<1>7. CASE DropCache(w)
  <2>1. c.pc = "drop" /\ live' = live /\ Return(w, "ok")
    BY <1>7 DEF DropCache
  <2>2. same(call'[w]) /\ call'[w].pc = "done" /\ call'[w].outcome = "ok"
    BY <1>4, <2>1
  <2> QED  BY <2>1, <2>2
<1>8. CASE RequestFails(w)
  <2>1. "transport" \in Faults /\ Return(w, "failed")
    BY <1>8 DEF RequestFails
  <2>2. same(call'[w]) /\ call'[w].pc = "done"
    BY <1>4, <2>1
  <2> QED  BY <2>1, <2>2
<1>9. ActivateKey(w) \/ Forget(w) \/ DropCache(w) \/ RequestFails(w)
  BY DEF Step, CacheOwn, Read, ListPage, CacheItem, ItemsDone, SendChunk,
     ServeItem, ReceiveResults, CacheResult, NextChunk
<1> QED  BY <1>5, <1>6, <1>7, <1>8, <1>9

LEMMA ListStep ==
  ASSUME IInv, NEW w \in Workers, Step(w), call[w].op = "list",
         call[w].pc \in {"page", "items"}
  PROVE  /\ call'[w].op = "list" /\ call'[w].pc \in {"done", "page", "items"}
         /\ live' = live
<1> DEFINE c == call[w]
           lists(d) == d.op = "list" /\ d.pc \in {"done", "page", "items"}
<1>1. c \in CallType(DOMAIN engrams)
  BY CallAt DEF GoodCall
<1>2. \A d : Goto(w, d) /\ lists(d) => lists(call'[w])
  BY DEF Goto, IInv, GoodCalls
<1>3. \A outcome : lists(Returned(c, outcome))
  BY <1>1 DEF Returned, CallType
<1>4. ASSUME NEW outcome, Return(w, outcome) PROVE lists(call'[w])
  BY <1>2, <1>3, <1>4 DEF Return
<1>5. CASE ListPage(w)
  <2> DEFINE d(I, full, n) ==
        [c EXCEPT !.pc = "items", !.items = I, !.full = full, !.total = n]
  <2>1. live' = live /\ \E I, full, n : Goto(w, d(I, full, n))
    BY <1>5 DEF ListPage
  <2>2. \A I, full, n : lists(d(I, full, n))
    BY <1>1 DEF CallType
  <2> HIDE DEF d
  <2>3. lists(call'[w])
    BY <1>2, <2>1, <2>2
  <2> QED  BY <2>1, <2>3
<1>6. CASE CacheItem(w)
  <2> DEFINE d(id) == [c EXCEPT !.items = @ \ {id}, !.count = @ + 1,
                                !.result = @ \cup {id}]
  <2>1. live' = live /\ c.pc = "items" /\ \E id : Goto(w, d(id))
    BY <1>6 DEF CacheItem
  <2>2. \A id : lists(d(id))
    BY <1>1, <2>1 DEF CallType
  <2> HIDE DEF d
  <2>3. lists(call'[w])
    BY <1>2, <2>1, <2>2
  <2> QED  BY <2>1, <2>3
<1>7. CASE ItemsDone(w)
  <2> DEFINE d(off) == [c EXCEPT !.pc = "page", !.off = off]
  <2>1. live' = live /\ (Return(w, "ok") \/ \E off : Goto(w, d(off)))
    BY <1>7 DEF ItemsDone
  <2>2. \A off : lists(d(off))
    BY <1>1 DEF CallType
  <2> HIDE DEF d
  <2>3. lists(call'[w])
    BY <1>2, <1>4, <2>1, <2>2
  <2> QED  BY <2>1, <2>3
<1>8. CASE RequestFails(w)
  <2>1. live' = live /\ Return(w, "failed")
    BY <1>8 DEF RequestFails
  <2> QED  BY <1>4, <2>1
<1>9. ListPage(w) \/ CacheItem(w) \/ ItemsDone(w) \/ RequestFails(w)
  BY DEF Step, CacheOwn, Read, ActivateKey, Forget, DropCache, SendChunk,
     ServeItem, ReceiveResults, CacheResult, NextChunk
<1> QED  BY <1>5, <1>6, <1>7, <1>8, <1>9

LEMMA CallStepPurges ==
  ASSUME MInv, PurgesSound, [Next]_vars, NEW w \in Workers, CallStep(w)
  PROVE  PurgesSound'
<1> DEFINE m == task[w]
           c == call[w]
           n == IF m.kind = "purge" /\ live' # live THEN m.forgot + 1 ELSE m.forgot
           q == Listed(w)
           d == [m EXCEPT !.entries = q, !.forgot = n]
<1>1. m \in TaskType(DOMAIN engrams) /\ PurgeSound(engrams, m, c) /\ IInv
  BY TaskOf DEF PurgesSound, MInv
<1>2. Step(w) /\ Turn(w, d)
  BY DEF CallStep
<1>3. \A v \in Workers \ {w} : call'[v] = call[v]
  BY <1>2, OwnCall
<1>4. m.pc = "purging" => q = m.entries
  BY DEF Listed
<1> HIDE DEF q
<1>5. /\ d.kind = m.kind /\ d.pc = m.pc /\ d.t = m.t /\ d.removed = m.removed
      /\ d.entries = q /\ d.forgot = n
      /\ m.removed \in Nat /\ m.forgot \in Nat
  BY <1>1 DEF TaskType
<1> DEFINE after == call'[w]
<1> HIDE DEF d
<1>6. PurgeSound(engrams', d, after)
  <2>1. CASE m.kind # "purge"
    <3>1. d.kind # "purge" /\ d.pc \notin {"listed", "purge", "purging"}
      BY <1>1, <1>5, <2>1 DEF PurgeSound
    <3> QED  BY <3>1, NoPurge
  <2>2. CASE m.kind = "purge" /\ m.pc = "listed"
    <3>1. c.op = "list" /\ c.pc \in {"page", "items"}
      <4>1. c.op = "list" /\ c.pc \in {"done", "page", "items"}
        BY <1>1, <2>2 DEF PurgeSound
      <4>2. c.pc # "done"
        BY <1>2 DEF Step, CacheOwn, Read, ActivateKey, Forget, DropCache, ListPage,
           CacheItem, ItemsDone, SendChunk, ServeItem, ReceiveResults, CacheResult,
           NextChunk, RequestFails
      <4> QED  BY <4>1, <4>2
    <3>2. after.op = "list" /\ after.pc \in {"done", "page", "items"} /\ live' = live
      BY <1>1, <1>2, <3>1, ListStep
    <3>3. Uncounted(d, after) = 0 /\ Uncounted(m, c) = 0 /\ d.forgot = m.forgot
      BY <1>5, <2>2, <3>2 DEF Uncounted
    <3> HIDE DEF m, c, n, after
    <3> QED  BY <1>1, <1>5, <2>2, <3>2, <3>3 DEF PurgeSound
  <2>3. CASE m.kind = "purge" /\ m.pc # "listed"
    <3>1. c.pc # "done"
      BY <1>2 DEF Step, CacheOwn, Read, ActivateKey, Forget, DropCache, ListPage,
         CacheItem, ItemsDone, SendChunk, ServeItem, ReceiveResults, CacheResult,
         NextChunk, RequestFails
    <3>2. /\ m.pc = "purging" /\ c.op = "delete"
          /\ c.pc \in {"activate", "forget", "drop"} /\ Deletes(engrams, m, c)
          /\ NoneLost => m.forgot = m.removed + Uncounted(m, c)
      BY <1>1, <2>3, <3>1 DEF PurgeSound
    <3>3. /\ after.op = "delete" /\ after.t = c.t /\ after.u = c.u /\ after.s = c.s
          /\ after.k = c.k
          /\ \/ c.pc = "activate" /\ live' = live /\ after.pc = "forget"
             \/ /\ c.pc \in {"activate", "forget"} /\ live' = live
                /\ after.pc = "done" /\ after.outcome # "ok"
             \/ c.pc = "forget" /\ live' # live /\ after.pc = "drop"
             \/ /\ c.pc = "drop" /\ live' = live
                /\ after.pc = "done" /\ after.outcome = "ok"
             \/ "twice" \in Faults /\ c.pc = "forget" /\ after.pc = "drop"
             \/ "transport" \in Faults /\ after.pc = "done"
      BY <1>1, <1>2, <3>2, DeleteStep
    <3>4. NoneLost => d.forgot = d.removed + Uncounted(d, after)
      <4> SUFFICES ASSUME NoneLost
                   PROVE  d.forgot = d.removed + Uncounted(d, after)
        OBVIOUS
      <4>1. d.pc = "purging" /\ n = IF live' # live THEN m.forgot + 1 ELSE m.forgot
        BY <1>5, <2>3, <3>2
      <4> HIDE DEF m, c, n, after
      <4>2. CASE c.pc = "forget" /\ live' # live /\ after.pc = "drop"
        <5>1. Uncounted(m, c) = 0 /\ Uncounted(d, after) = 1
          BY <4>1, <4>2 DEF Uncounted
        <5> QED  BY <1>5, <3>2, <4>1, <4>2, <5>1
      <4>3. CASE c.pc # "forget" \/ live' = live
        <5>1. live' = live
          BY <3>3, <4>3 DEF NoneLost
        <5>2. Uncounted(m, c) = Uncounted(d, after)
          BY <3>2, <3>3, <4>1, <4>3 DEF Uncounted, NoneLost
        <5> QED  BY <1>5, <3>2, <4>1, <5>1, <5>2
      <4> QED  BY <3>3, <4>2, <4>3 DEF NoneLost
    <3>5. after.pc # "done" => Deletes(engrams', d, after)
      <4> SUFFICES ASSUME after.pc # "done" PROVE Deletes(engrams', d, after)
        OBVIOUS
      <4>1. engrams' = engrams
        BY <1>2, <3>2 DEF Step, CacheOwn, Read, ActivateKey, Forget, DropCache,
           ListPage, CacheItem, ItemsDone, SendChunk, ServeItem, ReceiveResults,
           CacheResult, NextChunk, RequestFails
      <4> QED  BY <1>4, <1>5, <3>2, <3>3, <4>1 DEF Deletes
    <3> HIDE DEF m, c, n, after
    <3> QED  BY <1>5, <2>3, <3>2, <3>3, <3>4, <3>5 DEF PurgeSound
  <2> QED  BY <2>1, <2>2, <2>3
<1> QED  BY <1>2, <1>3, <1>6, PurgeTurn

(* The operations that are no purge stay none. *)
LEMMA OthersContinue ==
  ASSUME MInv, PurgesSound, [Next]_vars, NEW w \in Workers,
         \A v \in Workers \ {w} : call'[v] = call[v],
         \/ Activated(w) \/ FallBack(w) \/ Searched(w)
         \/ Extract(w) \/ Stored(w) \/ NextFact(w)
  PROVE  PurgesSound'
<1> DEFINE m == task[w]
           goal == PurgesSound'
<1>1. m \in TaskType(DOMAIN engrams)
  BY TaskOf
<1>2. m.kind # "purge"
  <2>1. m.pc \in {"activated", "searched", "extract", "stored", "facts"}
    BY DEF Activated, FallBack, Searched, Extract, Stored, NextFact, Back
  <2>2. PurgeSound(engrams, m, call[w])
    BY DEF PurgesSound
  <2> QED  BY <2>1, <2>2 DEF PurgeSound
<1>3. ASSUME NEW n, Turn(w, n), n.kind = m.kind,
             n.pc \notin {"listed", "purge", "purging"}
      PROVE  goal
  <2>1. PurgeSound(engrams', n, call'[w])
    BY <1>2, <1>3, NoPurge
  <2> QED  BY <1>3, <2>1, PurgeTurn
<1>4. ASSUME NEW answer, NEW reported, Turn(w, Finished(m, answer, reported))
      PROVE  goal
  <2> DEFINE n == Finished(m, answer, reported)
  <2>1. n.kind = m.kind /\ n.pc = "done"
    BY <1>1 DEF Finished, TaskType
  <2> HIDE DEF n, goal
  <2> QED  BY <1>3, <1>4, <2>1 DEF n
<1> HIDE DEF goal
<1>5. ASSUME NEW K, NEW count, StoreFacts(w, m, K, count) PROVE goal
  <2> DEFINE a == [m EXCEPT !.pc = "stored", !.facts = K]
             b(k) == [m EXCEPT !.pc = "facts", !.facts = K, !.left = K \ {k},
                               !.reported = count]
  <2>1. a.kind = m.kind /\ a.pc = "stored" /\ \A k : b(k).kind = m.kind /\ b(k).pc = "facts"
    BY <1>1 DEF TaskType
  <2>2. Turn(w, a) \/ \E k : Turn(w, b(k))
    BY <1>5 DEF StoreFacts
  <2> HIDE DEF a, b
  <2> QED  BY <1>3, <2>1, <2>2
<1>6. CASE Activated(w) \/ Searched(w) \/ Stored(w)
  <2>1. \E answer, reported : Turn(w, Finished(m, answer, reported))
    BY <1>6 DEF Activated, Searched, Stored
  <2> QED  BY <1>4, <2>1 DEF goal
<1>7. CASE FallBack(w)
  <2> DEFINE n == [m EXCEPT !.pc = "searched"]
  <2>1. n.kind = m.kind /\ n.pc = "searched" /\ Turn(w, n)
    BY <1>1, <1>7 DEF FallBack, TaskType
  <2> HIDE DEF n
  <2> QED  BY <1>3, <2>1 DEF goal
<1>8. CASE Extract(w)
  <2>1. Turn(w, Finished(m, {}, 0)) \/ \E K, count : StoreFacts(w, m, K, count)
    BY <1>8 DEF Extract
  <2> QED  BY <1>4, <1>5, <2>1 DEF goal
<1>9. CASE NextFact(w)
  <2> DEFINE n(k, count) == [m EXCEPT !.left = @ \ {k}, !.reported = count]
  <2>1. \A k, count : n(k, count).kind = m.kind /\ n(k, count).pc = m.pc
    BY <1>1 DEF TaskType
  <2>2. /\ m.pc = "facts"
        /\ \/ \E k, count : Turn(w, n(k, count))
           \/ \E count : Turn(w, Finished(m, {}, count))
    BY <1>9 DEF NextFact, Back
  <2> HIDE DEF n
  <2> QED  BY <1>3, <1>4, <2>1, <2>2 DEF goal
<1> QED  BY <1>6, <1>7, <1>8, <1>9

(* A purge between its calls. *)
LEMMA PurgeContinues ==
  ASSUME MInv, PurgesSound, [Next]_vars, NEW w \in Workers,
         \A v \in Workers \ {w} : call'[v] = call[v],
         PurgeCutoff(w) \/ PurgeEntry(w) \/ PurgeCounted(w) \/ PurgeDone(w)
  PROVE  PurgesSound'
<1> DEFINE m == task[w]
           c == call[w]
           after == call'[w]
<1>1. /\ m \in TaskType(DOMAIN engrams) /\ PurgeSound(engrams, m, c)
      /\ m.removed \in Nat /\ m.forgot \in Nat
  BY TaskOf DEF PurgesSound, TaskType
<1>2. m.kind = "purge" /\ c.pc = "done"
  BY <1>1 DEF PurgeCutoff, PurgeEntry, PurgeCounted, PurgeDone, Back, PurgeSound
<1>3. NoneLost => m.forgot = m.removed + Uncounted(m, c)
  BY <1>1, <1>2 DEF PurgeSound
<1>4. ASSUME NEW n, Turn(w, n), StoreUnchanged, n.kind = "purge",
             n.pc \in {"done", "purge"}, n.removed \in Nat,
             NoneLost => n.forgot = n.removed
      PROVE  PurgesSound'
  <2>1. after = c /\ engrams' = engrams
    BY <1>4 DEF StoreUnchanged
  <2>2. Uncounted(n, after) = 0
    BY <1>4 DEF Uncounted
  <2>3. NoneLost => n.forgot = n.removed + Uncounted(n, after)
    BY <1>4, <2>2
  <2> HIDE DEF m, c, after
  <2>4. PurgeSound(engrams', n, after)
    BY <1>2, <1>4, <2>1, <2>3 DEF PurgeSound
  <2> QED  BY <1>4, <2>4, PurgeTurn DEF after
<1>5. m.pc # "purging" => Uncounted(m, c) = 0
  BY DEF Uncounted
<1>6. ASSUME NEW answer, m.pc \in {"listed", "purge"}, StoreUnchanged,
             Turn(w, Finished(m, answer, 0))
      PROVE  PurgesSound'
  <2> DEFINE n == Finished(m, answer, 0)
  <2>1. /\ n.kind = "purge" /\ n.pc = "done"
        /\ n.removed = m.removed /\ n.forgot = m.forgot
    BY <1>1, <1>2 DEF Finished, TaskType
  <2>2. Turn(w, n)
    BY <1>6
  <2> HIDE DEF n
  <2> QED  BY <1>1, <1>3, <1>4, <1>5, <1>6, <2>1, <2>2
<1>7. CASE PurgeCutoff(w)
  <2> DEFINE n == [m EXCEPT !.pc = "purge", !.cutoff = now]
  <2>1. m.pc = "listed" /\ StoreUnchanged /\ (Turn(w, n) \/ Turn(w, Finished(m, {}, 0)))
    BY <1>7 DEF PurgeCutoff, Back
  <2>2. /\ n.kind = "purge" /\ n.pc = "purge"
        /\ n.removed = m.removed /\ n.forgot = m.forgot
    BY <1>1, <1>2 DEF TaskType
  <2> HIDE DEF n
  <2>3. CASE Turn(w, n)
    BY <1>1, <1>3, <1>4, <1>5, <2>1, <2>2, <2>3
  <2> QED  BY <1>6, <2>1, <2>3
<1>8. CASE PurgeDone(w)
  BY <1>6, <1>8 DEF PurgeDone, Back
<1>9. CASE PurgeCounted(w)
  <2> DEFINE q == Tail(m.entries)
             r == Removed(m, c.outcome)
             n == [m EXCEPT !.pc = "purge", !.entries = q, !.removed = r]
  <2>1. m.pc = "purging" /\ StoreUnchanged /\ Turn(w, n)
    BY <1>9 DEF PurgeCounted, Back
  <2>2. r \in Nat /\ r = m.removed + Uncounted(m, c)
    BY <1>1, <1>2, <2>1 DEF Removed, Uncounted
  <2> HIDE DEF q, r
  <2>3. /\ n.kind = "purge" /\ n.pc = "purge"
        /\ n.removed = r /\ n.forgot = m.forgot
    BY <1>1, <1>2 DEF TaskType
  <2> HIDE DEF n
  <2> QED  BY <1>3, <1>4, <2>1, <2>2, <2>3
<1>10. CASE PurgeEntry(w)
  <2> DEFINE e == engrams[Head(m.entries)]
             n == [m EXCEPT !.pc = "purging"]
             q == Tail(m.entries)
             next == [m EXCEPT !.entries = q]
  <2>1. /\ m.pc = "purge"
        /\ \/ DeleteEntry(w, m, e) /\ Turn(w, n)
           \/ StoreUnchanged /\ Turn(w, next)
    BY <1>10 DEF PurgeEntry, Back
  <2>2. CASE DeleteEntry(w, m, e) /\ Turn(w, n)
    <3> DEFINE d(id, pc) ==
          [NewCall("delete", m.t, e.user, e.session) EXCEPT
             !.k = e.key, !.id = id, !.pc = pc]
    <3>1. engrams' = engrams /\ \E id : \E pc \in {"forget", "activate"} : Goto(w, d(id, pc))
      BY <2>2 DEF DeleteEntry, Delete
    <3>2. PICK id : \E pc \in {"forget", "activate"} : after = d(id, pc)
      BY <3>1, CallBegun
    <3>3. /\ after.op = "delete" /\ after.pc \in {"forget", "activate"}
          /\ after.t = m.t /\ after.u = e.user /\ after.s = e.session
          /\ after.k = e.key
      BY <3>2 DEF NewCall, Idle
    <3>4. /\ n.kind = "purge" /\ n.pc = "purging" /\ n.t = m.t
          /\ n.entries = m.entries
          /\ n.removed = m.removed /\ n.forgot = m.forgot
      BY <1>1, <1>2 DEF TaskType
    <3> HIDE DEF n, after, d
    <3>5. Deletes(engrams', n, after)
      BY <3>1, <3>3, <3>4 DEF Deletes
    <3>6. Uncounted(n, after) = 0
      BY <3>3 DEF Uncounted
    <3>7. NoneLost => n.forgot = n.removed + Uncounted(n, after)
      BY <1>1, <1>3, <1>5, <2>1, <3>4, <3>6
    <3> HIDE DEF m, c, e
    <3>8. PurgeSound(engrams', n, after)
      BY <3>3, <3>4, <3>5, <3>7 DEF PurgeSound
    <3> QED  BY <2>2, <3>8, PurgeTurn DEF after
  <2>3. CASE StoreUnchanged /\ Turn(w, next)
    <3> HIDE DEF q
    <3>1. /\ next.kind = "purge" /\ next.pc = "purge"
          /\ next.removed = m.removed /\ next.forgot = m.forgot
      BY <1>1, <1>2, <2>1 DEF TaskType
    <3> HIDE DEF next
    <3> QED  BY <1>1, <1>3, <1>4, <1>5, <2>1, <2>3, <3>1
  <2> QED  BY <2>1, <2>2, <2>3
<1> QED  BY <1>7, <1>8, <1>9, <1>10

(* An operation begins: a purge with a listing, the others as no purge. *)
LEMMA OperationBegins ==
  ASSUME MInv, PurgesSound, [Next]_vars, NEW w \in Workers,
         \A v \in Workers \ {w} : call'[v] = call[v], Operation(w)
  PROVE  PurgesSound'
<1> DEFINE goal == PurgesSound'
<1>1. ASSUME NEW n, Turn(w, n), n.kind # "purge",
             n.pc \notin {"listed", "purge", "purging"}
      PROVE  goal
  BY <1>1, NoPurge, PurgeTurn
<1>2. ASSUME NEW kind, NEW pc, NEW t, NEW u, NEW s
      PROVE  LET n == NewTask(kind, pc, t, u, s)
             IN  n.kind = kind /\ n.pc = pc /\ n.removed = 0 /\ n.forgot = 0
                 /\ n = [n EXCEPT !.kind = kind]
  BY DEF NewTask, NoTask
<1>3. ASSUME NEW t, NEW age, PurgeOlderThan(w, t, age) PROVE goal
  <2> DEFINE n == [NewTask("purge", "listed", t, Empty, Empty) EXCEPT !.age = age]
             d == [NewCall("list", t, Empty, Empty) EXCEPT
                     !.tag = FALSE, !.pc = "page", !.atStart = live]
             after == call'[w]
  <2>1. n.kind = "purge" /\ n.pc = "listed" /\ n.removed = 0 /\ n.forgot = 0
    BY DEF NewTask, NoTask
  <2>2. Goto(w, d) /\ Turn(w, n)
    BY <1>3 DEF PurgeOlderThan, List
  <2>3. after = d
    BY <2>2, CallBegun
  <2>4. after.op = "list" /\ after.pc = "page"
    BY <2>3 DEF NewCall, Idle
  <2> HIDE DEF n, d, after
  <2>5. Uncounted(n, after) = 0
    BY <2>1 DEF Uncounted
  <2>6. PurgeSound(engrams', n, after)
    BY <2>1, <2>4, <2>5 DEF PurgeSound
  <2> QED  BY <2>2, <2>6, PurgeTurn DEF after
<1> HIDE DEF goal
<1>4. ASSUME NEW kind, NEW pc, NEW t, NEW u, NEW s,
             Turn(w, NewTask(kind, pc, t, u, s)), kind # "purge",
             pc \notin {"listed", "purge", "purging"}
      PROVE  goal
  <2> DEFINE n == NewTask(kind, pc, t, u, s)
  <2>1. n.kind = kind /\ n.pc = pc
    BY <1>2
  <2> HIDE DEF n
  <2> QED  BY <1>1, <1>4, <2>1 DEF n
<1>5. ASSUME NEW t, NEW u, NEW K, IngestProfile(w, t, u, K) PROVE goal
  <2> DEFINE m == NewTask("ingest", "stored", t, u, Empty)
             a == [m EXCEPT !.facts = K]
             b == [m EXCEPT !.pc = "stored", !.facts = K]
             f(k) == [m EXCEPT !.pc = "facts", !.facts = K, !.left = K \ {k},
                               !.reported = 0]
  <2>1. /\ a.kind = "ingest" /\ a.pc = "stored"
        /\ b.kind = "ingest" /\ b.pc = "stored"
        /\ \A k : f(k).kind = "ingest" /\ f(k).pc = "facts"
    BY DEF NewTask, NoTask
  <2>2. Turn(w, a) \/ Turn(w, b) \/ \E k : Turn(w, f(k))
    BY <1>5 DEF IngestProfile, StoreFacts
  <2> HIDE DEF a, b, f
  <2> QED  BY <1>1, <2>1, <2>2
<1>6. ASSUME NEW t, NEW u, NEW s,
             Recall(w, t, u, s) \/ ExtractAndStoreAsync(w, t, u, s) \/ RecallProfile(w, t, u)
      PROVE  goal
  <2>1. \E kind \in {"recall", "extract", "profile"} :
          \E pc \in {"activated", "searched", "extract"}, r \in {s, Empty} :
            Turn(w, NewTask(kind, pc, t, u, r))
    BY <1>6 DEF Recall, ExtractAndStoreAsync, RecallProfile
  <2> QED  BY <1>4, <2>1
<1>7. goal
  BY <1>3, <1>5, <1>6 DEF Operation
<1> QED  BY <1>7 DEF goal

LEMMA PurgesKeep ==
  ASSUME MInv, PurgesSound, [ManagerNext]_allVars
  PROVE  PurgesSound'
<1>1. [Next]_vars
  BY ManagerStepsStore
<1>2. ASSUME NEW w \in Workers, ToolCall(w) \/ Operation(w) \/ Continue(w)
      PROVE  \A v \in Workers \ {w} : call'[v] = call[v]
  <2>1. Begin(w) \/ Step(w) \/ UNCHANGED vars
    BY <1>2, OperationCalls, ContinueCalls DEF ToolCall
  <2> QED  BY <2>1, OwnCall
<1>3. NoTask.kind # "purge" /\ NoTask.pc \notin {"listed", "purge", "purging"}
  BY DEF NoTask
<1>4. ASSUME NEW w \in Workers, ToolCall(w) PROVE PurgesSound'
  BY <1>1, <1>2, <1>3, <1>4, NoPurge, PurgeTurn DEF ToolCall
<1>5. ASSUME NEW w \in Workers, Operation(w) PROVE PurgesSound'
  BY <1>1, <1>2, <1>5, OperationBegins
<1>6. ASSUME NEW w \in Workers, Continue(w) PROVE PurgesSound'
  <2>1. \A v \in Workers \ {w} : call'[v] = call[v]
    BY <1>2, <1>6
  <2> QED  BY <1>1, <1>6, <2>1, CallStepPurges, OthersContinue, PurgeContinues
           DEF Continue
<1>7. CASE (Tick /\ UNCHANGED managerVars) \/ UNCHANGED allVars
  BY <1>7 DEF Tick, managerVars, allVars, PurgesSound
<1>8. CASE ManagerRestart
  BY <1>3, <1>8, NoPurge DEF ManagerRestart, PurgesSound
<1> QED  BY <1>4, <1>5, <1>6, <1>7, <1>8 DEF ManagerNext

-----------------------------------------------------------------------------
(* What a purge aims at: entries of its tenant, and only old ones.  The    *)
(* listing brings in engrams of the vault it lists; the entry at the head  *)
(* was found older than the cutoff before its Delete began.                *)

AimSound(E, m, c) ==
  m.kind = "purge" =>
    /\ m.pc = "listed" => c.t = m.t
    /\ \A i \in DOMAIN m.entries : E[m.entries[i]].vault = m.t
    /\ m.pc = "purging" => Older(E[Head(m.entries)].at, m.age, m.cutoff)

AimsSound == \A w \in Workers : AimSound(engrams, task[w], call[w])

LEMMA EntriesKnown ==
  ASSUME NEW E, NEW m, GoodTask(E, m)
  PROVE  /\ \A i \in DOMAIN m.entries : m.entries[i] \in DOMAIN E
         /\ m.entries # <<>> => /\ Head(m.entries) \in DOMAIN E
                               /\ 1 \in DOMAIN m.entries
                               /\ m.entries[1] = Head(m.entries)
         /\ m.pc = "purging" => m.entries # <<>>
<1> DEFINE q == m.entries
<1>1. q \in Seq(DOMAIN E) /\ (m.pc = "purging" => q # <<>>)
  BY DEF GoodTask, TaskType
<1> HIDE DEF q
<1>2. \A i \in DOMAIN q : q[i] \in DOMAIN E
  BY <1>1
<1>3. q # <<>> => Head(q) \in DOMAIN E /\ 1 \in DOMAIN q /\ q[1] = Head(q)
  BY <1>1, HeadTailProperties
<1> QED  BY <1>1, <1>2, <1>3 DEF q

LEMMA TailEntries ==
  ASSUME NEW S, NEW q \in Seq(S), q # <<>>
  PROVE  \A i \in DOMAIN Tail(q) : \E j \in DOMAIN q : Tail(q)[i] = q[j]
<1>1. /\ Tail(q) \in Seq(S) /\ Len(Tail(q)) = Len(q) - 1
      /\ \A i \in 1 .. Len(Tail(q)) : Tail(q)[i] = q[i + 1]
  BY HeadTailProperties
<1>2. DOMAIN Tail(q) = 1 .. Len(Tail(q)) /\ DOMAIN q = 1 .. Len(q) /\ Len(q) \in Nat
  BY <1>1
<1> TAKE i \in DOMAIN Tail(q)
<1>3. i + 1 \in DOMAIN q /\ Tail(q)[i] = q[i + 1]
  BY <1>1, <1>2
<1> QED  BY <1>3

LEMMA AimExtends ==
  ASSUME NEW E, NEW F, Extends(E, F), NEW m, NEW c, GoodTask(E, m),
         AimSound(E, m, c)
  PROVE  AimSound(F, m, c)
<1>1. \A i \in DOMAIN m.entries : F[m.entries[i]] = E[m.entries[i]]
  BY EntriesKnown DEF Extends
<1>2. m.pc = "purging" => F[Head(m.entries)] = E[Head(m.entries)]
  BY EntriesKnown DEF Extends
<1> QED  BY <1>1, <1>2 DEF AimSound

LEMMA AimPut ==
  ASSUME MInv, AimsSound, [Next]_vars, NEW w \in Workers, NEW n, Turn(w, n),
         AimSound(engrams', n, call'[w]),
         \A v \in Workers \ {w} : call'[v] = call[v]
  PROVE  AimsSound'
<1>1. Extends(engrams, engrams')
  BY ServerExtends DEF MInv
<1>2. task'[w] = n /\ \A v \in Workers \ {w} : task'[v] = task[v]
  BY DEF MInv, GoodTasks, Turn
<1>3. \A v \in Workers \ {w} : AimSound(engrams', task[v], call[v])
  BY <1>1, AimExtends DEF AimsSound, MInv, GoodTasks
<1> QED  BY <1>2, <1>3 DEF AimsSound

(* An operation that is no purge aims at nothing. *)
LEMMA NoAim ==
  ASSUME NEW E, NEW n, NEW c, n.kind # "purge"
  PROVE  AimSound(E, n, c)
BY DEF AimSound

LEMMA OperationAims ==
  ASSUME MInv, AimsSound, NEW w \in Workers, Operation(w)
  PROVE  AimsSound'
<1> DEFINE goal == \E n : Turn(w, n) /\ AimSound(engrams', n, call'[w])
<1>1. [Next]_vars /\ \A v \in Workers \ {w} : call'[v] = call[v]
  BY OthersStay
<1>2. ASSUME NEW n, Turn(w, n), n.kind # "purge" PROVE goal
  BY <1>2, NoAim
<1>3. ASSUME NEW t, NEW age, PurgeOlderThan(w, t, age) PROVE goal
  <2> DEFINE n == [NewTask("purge", "listed", t, Empty, Empty) EXCEPT !.age = age]
             d == [NewCall("list", t, Empty, Empty) EXCEPT
                     !.tag = FALSE, !.pc = "page", !.atStart = live]
  <2>1. n.pc = "listed" /\ n.t = t /\ n.entries = <<>>
    BY DEF NewTask, NoTask
  <2>2. d.t = t
    BY DEF NewCall, Idle
  <2>3. Goto(w, d) /\ Turn(w, n)
    BY <1>3 DEF PurgeOlderThan, List
  <2> HIDE DEF n, d
  <2>4. call'[w] = d
    BY <2>3, CallBegun
  <2>5. AimSound(engrams', n, call'[w])
    BY <2>1, <2>2, <2>4 DEF AimSound
  <2> QED  BY <2>3, <2>5
<1> HIDE DEF goal
<1>4. ASSUME NEW kind, NEW pc, NEW t, NEW u, NEW s, kind # "purge",
             Turn(w, NewTask(kind, pc, t, u, s))
      PROVE  goal
  <2> DEFINE n == NewTask(kind, pc, t, u, s)
  <2>1. n.kind = kind
    BY DEF NewTask, NoTask
  <2> HIDE DEF n
  <2> QED  BY <1>2, <1>4, <2>1 DEF n
<1>5. ASSUME NEW t, NEW u, NEW K, IngestProfile(w, t, u, K) PROVE goal
  <2> DEFINE m == NewTask("ingest", "stored", t, u, Empty)
             a == [m EXCEPT !.facts = K]
             b == [m EXCEPT !.pc = "stored", !.facts = K]
             f(k) == [m EXCEPT !.pc = "facts", !.facts = K, !.left = K \ {k},
                               !.reported = 0]
  <2>1. a.kind = "ingest" /\ b.kind = "ingest" /\ \A k : f(k).kind = "ingest"
    BY DEF NewTask, NoTask
  <2>2. Turn(w, a) \/ Turn(w, b) \/ \E k : Turn(w, f(k))
    BY <1>5 DEF IngestProfile, StoreFacts
  <2> HIDE DEF a, b, f
  <2> QED  BY <1>2, <2>1, <2>2
<1>6. ASSUME NEW t, NEW u, NEW s,
             Recall(w, t, u, s) \/ ExtractAndStoreAsync(w, t, u, s) \/ RecallProfile(w, t, u)
      PROVE  goal
  <2>1. \E kind \in {"recall", "extract", "profile"} :
          \E pc \in {"activated", "searched", "extract"}, r \in {s, Empty} :
            Turn(w, NewTask(kind, pc, t, u, r))
    BY <1>6 DEF Recall, ExtractAndStoreAsync, RecallProfile
  <2> QED  BY <1>4, <2>1
<1>7. goal
  BY <1>3, <1>5, <1>6 DEF Operation
<1> QED  BY <1>1, <1>7, AimPut DEF goal

(* A step of the listing call brings in entries of the vault it lists. *)
LEMMA CallStepAims ==
  ASSUME MInv, AimsSound, NEW w \in Workers, CallStep(w)
  PROVE  AimsSound'
<1> DEFINE m == task[w]
           c == call[w]
           q == Listed(w)
           f == IF m.kind = "purge" /\ live' # live THEN m.forgot + 1 ELSE m.forgot
           n == [m EXCEPT !.entries = q, !.forgot = f]
<1>1. [Next]_vars /\ \A v \in Workers \ {w} : call'[v] = call[v]
  BY OthersStay DEF Continue
<1>2. Extends(engrams, engrams')
  BY <1>1, ServerExtends DEF MInv
<1>3. /\ m \in TaskType(DOMAIN engrams) /\ c \in CallType(DOMAIN engrams)
      /\ SoundIn(engrams, c) /\ GoodTask(engrams, m)
  BY TaskOf DEF MInv, GoodTasks
<1>4. AimSound(engrams', m, c)
  BY <1>2, <1>3, AimExtends DEF AimsSound
<1>5. call'[w].t = c.t
  BY StepKeepsScope DEF CallStep, MInv
<1>6. Turn(w, n)
  BY DEF CallStep
<1>7. m.kind = "purge" => \A i \in DOMAIN q : engrams'[q[i]].vault = m.t
  <2> SUFFICES ASSUME m.kind = "purge"
               PROVE  \A i \in DOMAIN q : engrams'[q[i]].vault = m.t
    OBVIOUS
  <2> DEFINE p == m.entries
             id == CHOOSE x \in Handed(w) : TRUE
  <2>1. p \in Seq(DOMAIN engrams) /\ \A i \in DOMAIN p : engrams'[p[i]].vault = m.t
    BY <1>3, <1>4 DEF TaskType, AimSound
  <2>2. CASE m.pc = "listed" /\ Handed(w) # {}
    <3>1. id \in c.items
      BY <2>2 DEF Handed
    <3>2. id \in DOMAIN engrams /\ engrams[id].vault = c.t
      BY <1>3, <3>1 DEF CallType, SoundIn
    <3>3. engrams'[id].vault = m.t
      BY <1>2, <1>4, <2>2, <3>2 DEF Extends, AimSound
    <3>4. q = Append(p, id)
      BY <2>2 DEF Listed
    <3> HIDE DEF p, id, q
    <3>5. /\ DOMAIN q = 1 .. Len(p) + 1 /\ q[Len(p) + 1] = id
          /\ \A i \in 1 .. Len(p) : q[i] = p[i]
          /\ DOMAIN p = 1 .. Len(p) /\ Len(p) \in Nat
      BY <2>1, <3>2, <3>4, AppendProperties
    <3> QED  BY <2>1, <3>3, <3>5
  <2>3. CASE ~ (m.pc = "listed" /\ Handed(w) # {})
    BY <2>1, <2>3 DEF Listed
  <2> QED  BY <2>2, <2>3
<1>8. m.pc = "purging" => q = m.entries
  BY DEF Listed
<1> HIDE DEF q, f
<1>9. /\ n.kind = m.kind /\ n.pc = m.pc /\ n.t = m.t /\ n.entries = q
      /\ n.age = m.age /\ n.cutoff = m.cutoff
  BY <1>3 DEF TaskType
<1> HIDE DEF n, m, c
<1>10. AimSound(engrams', n, call'[w])
  BY <1>4, <1>5, <1>7, <1>8, <1>9 DEF AimSound, c
<1> QED  BY <1>1, <1>6, <1>10, AimPut

(* Between its calls a purge drops entries from the front, and deletes an  *)
(* entry only once it was found old.                                       *)
LEMMA PurgeAims ==
  ASSUME MInv, AimsSound, NEW w \in Workers,
         PurgeCutoff(w) \/ PurgeEntry(w) \/ PurgeCounted(w) \/ PurgeDone(w)
  PROVE  AimsSound'
<1> DEFINE m == task[w]
           c == call[w]
           goal == \E n : Turn(w, n) /\ AimSound(engrams', n, call'[w])
<1>1. [Next]_vars /\ \A v \in Workers \ {w} : call'[v] = call[v]
  BY OthersStay DEF Continue
<1>2. /\ m \in TaskType(DOMAIN engrams) /\ GoodTask(engrams, m)
      /\ AimSound(engrams, m, c)
  BY TaskOf DEF MInv, GoodTasks, AimsSound
<1>3. engrams' = engrams
  BY DEF PurgeCutoff, PurgeEntry, DeleteEntry, Delete, PurgeCounted, PurgeDone,
         StoreUnchanged
<1> HIDE DEF m
<1>4. ASSUME NEW n, Turn(w, n), n.kind = m.kind, n.t = m.t,
             n.pc \in {"done", "purge"}, n.entries = m.entries
      PROVE  goal
  <2>1. AimSound(engrams', n, call'[w])
    BY <1>2, <1>3, <1>4 DEF AimSound
  <2> QED  BY <1>4, <2>1
<1>5. ASSUME NEW n, Turn(w, n), n.kind = m.kind, n.t = m.t, n.pc = "purge",
             m.entries # <<>>, n.entries = Tail(m.entries)
      PROVE  goal
  <2> DEFINE q == m.entries
  <2>1. q \in Seq(DOMAIN engrams)
    BY <1>2 DEF TaskType
  <2> HIDE DEF q
  <2>2. \A i \in DOMAIN Tail(q) : \E j \in DOMAIN q : Tail(q)[i] = q[j]
    BY <1>5, <2>1, TailEntries DEF q
  <2>3. AimSound(engrams', n, call'[w])
    BY <1>2, <1>3, <1>5, <2>2 DEF AimSound, q
  <2> QED  BY <1>5, <2>3
<1>6. ASSUME NEW n, Turn(w, n), n.kind = m.kind, n.t = m.t, n.pc = "purging",
             n.entries = m.entries, n.age = m.age, n.cutoff = m.cutoff,
             Older(engrams[Head(m.entries)].at, m.age, m.cutoff)
      PROVE  goal
  <2>1. AimSound(engrams', n, call'[w])
    BY <1>2, <1>3, <1>6 DEF AimSound
  <2> QED  BY <1>6, <2>1
<1> HIDE DEF goal
<1>7. ASSUME Turn(w, Finished(m, {}, 0)) PROVE goal
  <2> DEFINE n == Finished(m, {}, 0)
  <2>1. n.kind = m.kind /\ n.t = m.t /\ n.pc = "done" /\ n.entries = m.entries
    BY <1>2 DEF Finished, TaskType
  <2> HIDE DEF n
  <2> QED  BY <1>4, <1>7, <2>1 DEF n
<1>8. ASSUME PurgeCutoff(w) PROVE goal
  <2> DEFINE n == [m EXCEPT !.pc = "purge", !.cutoff = now]
  <2>1. n.kind = m.kind /\ n.t = m.t /\ n.pc = "purge" /\ n.entries = m.entries
    BY <1>2 DEF TaskType
  <2>2. Turn(w, n) \/ Turn(w, Finished(m, {}, 0))
    BY <1>8 DEF PurgeCutoff, m
  <2> HIDE DEF n
  <2> QED  BY <1>4, <1>7, <2>1, <2>2
<1>9. ASSUME PurgeEntry(w) PROVE goal
  <2> DEFINE n == [m EXCEPT !.pc = "purging"]
             q == Tail(m.entries)
             x == [m EXCEPT !.entries = q]
  <2>1. /\ m.pc = "purge" /\ m.entries # <<>>
        /\ \/ Older(engrams[Head(m.entries)].at, m.age, m.cutoff) /\ Turn(w, n)
           \/ Turn(w, x)
    BY <1>9 DEF PurgeEntry, Back, m
  <2>2. /\ n.kind = m.kind /\ n.t = m.t /\ n.pc = "purging"
        /\ n.entries = m.entries /\ n.age = m.age /\ n.cutoff = m.cutoff
    BY <1>2 DEF TaskType
  <2> HIDE DEF q
  <2>3. x.kind = m.kind /\ x.t = m.t /\ x.pc = m.pc /\ x.entries = q
    BY <1>2 DEF TaskType
  <2> HIDE DEF n, x
  <2> QED  BY <1>5, <1>6, <2>1, <2>2, <2>3 DEF q
<1>10. ASSUME PurgeCounted(w) PROVE goal
  <2> DEFINE q == Tail(m.entries)
             r == Removed(m, call[w].outcome)
             n == [m EXCEPT !.pc = "purge", !.entries = q, !.removed = r]
  <2>1. m.pc = "purging" /\ Turn(w, n)
    BY <1>10 DEF PurgeCounted, Back, m
  <2>2. m.entries # <<>>
    BY <1>2, <2>1, EntriesKnown
  <2> HIDE DEF q, r
  <2>3. n.kind = m.kind /\ n.t = m.t /\ n.pc = "purge" /\ n.entries = q
    BY <1>2 DEF TaskType
  <2> HIDE DEF n
  <2> QED  BY <1>5, <2>1, <2>2, <2>3 DEF q
<1>11. ASSUME PurgeDone(w) PROVE goal
  BY <1>7, <1>11 DEF PurgeDone, m
<1>12. goal
  BY <1>8, <1>9, <1>10, <1>11
<1> QED  BY <1>1, <1>12, AimPut DEF goal

LEMMA AimsKeep ==
  ASSUME MInv, PurgesSound, AimsSound, [ManagerNext]_allVars
  PROVE  AimsSound'
<1>1. ASSUME NEW w \in Workers, ToolCall(w) PROVE AimsSound'
  <2>1. [Next]_vars /\ \A v \in Workers \ {w} : call'[v] = call[v]
    BY <1>1, OthersStay
  <2>2. Turn(w, NoTask) /\ NoTask.kind # "purge"
    BY <1>1 DEF ToolCall, NoTask
  <2> QED  BY <2>1, <2>2, NoAim, AimPut
<1>2. ASSUME NEW w \in Workers,
             \/ Activated(w) \/ FallBack(w) \/ Searched(w)
             \/ Extract(w) \/ Stored(w) \/ NextFact(w)
      PROVE  AimsSound'
  <2>1. task[w].kind # "purge"
    <3>1. task[w].pc \in {"activated", "searched", "extract", "stored", "facts"}
      BY <1>2 DEF Activated, FallBack, Searched, Extract, Stored, NextFact, Back
    <3> QED  BY <3>1 DEF PurgesSound, PurgeSound
  <2>2. PICK n : Turn(w, n) /\ n.kind = task[w].kind
    BY <1>2, KindStays DEF Continue
  <2>3. [Next]_vars /\ \A v \in Workers \ {w} : call'[v] = call[v]
    BY <1>2, OthersStay DEF Continue
  <2> QED  BY <2>1, <2>2, <2>3, NoAim, AimPut
<1>3. ASSUME NEW w \in Workers, Continue(w) PROVE AimsSound'
  BY <1>2, <1>3, CallStepAims, PurgeAims DEF Continue
<1>4. CASE (Tick /\ UNCHANGED managerVars) \/ UNCHANGED allVars
  BY <1>4 DEF Tick, managerVars, allVars, AimsSound
<1>5. CASE ManagerRestart
  <2>1. NoTask.kind # "purge"
    BY DEF NoTask
  <2> QED  BY <1>5, <2>1, NoAim DEF ManagerRestart, AimsSound
<1> QED  BY <1>1, <1>3, <1>4, <1>5, OperationAims DEF ManagerNext

-----------------------------------------------------------------------------
(* The theorems. *)

THEOREM ManagerInvariance == ManagerSpec => []MInv
<1>1. ManagerInit => MInv
  <2> SUFFICES ASSUME ManagerInit PROVE MInv
    OBVIOUS
  <2>1. IInv
    BY InitKeeps DEF ManagerInit
  <2>2. /\ task = [w \in Workers |-> NoTask] /\ profileFacts = {}
        /\ optional \in Interfaces
    BY DEF ManagerInit
  <2>3. \A c : Linked(NoTask, c)
    BY DEF Linked, NoTask
  <2>4. GoodTasks(engrams, task, call)
    BY <2>2, <2>3, NoTaskGood DEF GoodTasks
  <2> QED  BY <2>1, <2>2, <2>4 DEF MInv
<1>2. MInv /\ [ManagerNext]_allVars => MInv'
  BY ManagerKeeps
<1> QED  BY <1>1, <1>2, PTL DEF ManagerSpec

LEMMA PurgeInvariance == ManagerSpec => [](MInv /\ PurgesSound)
<1>1. ManagerInit => PurgesSound
  <2>1. NoTask.kind # "purge" /\ NoTask.pc \notin {"listed", "purge", "purging"}
    BY DEF NoTask
  <2> QED  BY <2>1, NoPurge DEF ManagerInit, PurgesSound
<1>2. MInv /\ PurgesSound /\ [ManagerNext]_allVars => PurgesSound'
  BY PurgesKeep
<1> QED  BY <1>1, <1>2, ManagerInvariance, PTL DEF ManagerSpec

(* The manager implements a caller of the store: whatever it does, for any *)
(* number of goroutines, is a behaviour that MuninnStore describes, so the *)
(* theorems about the cache, the answers and the deletes hold above it.    *)
THEOREM ManagerIsACaller == ManagerSpec => CallsTheStore
<1>1. ManagerInit => Init
  BY DEF ManagerInit
<1>2. MInv /\ [ManagerNext]_allVars => [Next]_vars
  BY ManagerStepsStore
<1> QED  BY <1>1, <1>2, ManagerInvariance, PTL DEF ManagerSpec, Spec, CallsTheStore

THEOREM CacheIsSoundUnderManager == ManagerSpec => [](CacheSound /\ InFlightSound)
BY ManagerIsACaller, CacheIsSound, PTL DEF CallsTheStore

(* Every manager operation keeps its type, in particular a purge only      *)
(* holds engrams that the server created.                                  *)
THEOREM ManagerTypeCorrect == ManagerSpec => []ManagerTypeOK
<1>1. MInv => ManagerTypeOK
  BY DEF MInv, GoodTasks, ManagerTypeOK, Ids
<1> QED  BY <1>1, ManagerInvariance, PTL

(* What Recall and RecallProfile put into a prompt is in the scope of the  *)
(* operation, on the first path and on the fallback, whatever the other    *)
(* goroutines do meanwhile.                                                *)
THEOREM RecallStaysInScope == ManagerSpec => []RecallInScope
<1>1. MInv => RecallInScope
  BY DEF MInv, GoodTasks, GoodTask, RecallInScope
<1> QED  BY <1>1, ManagerInvariance, PTL

(* A purge forgets only engrams of the tenant it was given, with the       *)
(* concept of the old entry it is deleting, nothing of another user than   *)
(* the entry's and nothing of another session than the entry's -- an entry *)
(* without user or session is deleted without one, whoever it belongs to:  *)
(* whatever id the cache or an activation hands to its Delete, and         *)
(* whatever the other goroutines did since the entry was listed.           *)
THEOREM PurgeStays == ManagerSpec => PurgeStaysWithEntry
<1> DEFINE stays(w, id) ==
             LET e == engrams[Head(task[w].entries)]
                 f == engrams[id]
             IN  /\ f.vault = task[w].t /\ f.key = e.key
                 /\ f.user = e.user \/ e.user = Empty
                 /\ f.session = e.session \/ e.session = Empty
           A == \A w \in Workers : \A id \in live :
                  Purges(w, id) => stays(w, id)
<1>1. MInv /\ PurgesSound => A
  <2> SUFFICES ASSUME MInv, PurgesSound, NEW w \in Workers, NEW id \in live,
                      Purges(w, id)
               PROVE  stays(w, id)
    OBVIOUS
  <2>1. task[w].kind = "purge" /\ call[w].pc = "forget" /\ call[w].id = id
    BY DEF Purges
  <2>2. Deletes(engrams, task[w], call[w])
    BY <2>1 DEF PurgesSound, PurgeSound
  <2>3. InFlightSound
    BY IInvMeaning DEF MInv
  <2>4. Fits(id, call[w].t, call[w].u, call[w].s, call[w].k)
    BY <2>1, <2>3 DEF InFlightSound, CallSound
  <2> QED  BY <2>2, <2>4 DEF Deletes, Fits, InScope
<1> QED  BY <1>1, PurgeInvariance, PTL DEF PurgeStaysWithEntry

(* The number a purge returns is the number of engrams it made the server  *)
(* forget, however many goroutines delete the same entries, as long as no  *)
(* answer of the server is lost and it refuses to forget an engram twice.  *)
THEOREM PurgeCounts ==
  ASSUME "transport" \notin Faults, "twice" \notin Faults
  PROVE  ManagerSpec => []PurgeCountsForgotten
<1>1. MInv /\ PurgesSound => PurgeCountsForgotten
  <2> SUFFICES ASSUME MInv, PurgesSound, NEW w \in Workers,
                      task[w].kind = "purge", task[w].pc = "done"
               PROVE  task[w].removed = task[w].forgot
    BY DEF PurgeCountsForgotten
  <2>1. task[w].forgot = task[w].removed + Uncounted(task[w], call[w])
    BY DEF PurgesSound, PurgeSound, NoneLost
  <2>2. Uncounted(task[w], call[w]) = 0 /\ task[w].removed \in Nat
    BY TaskOf DEF Uncounted, TaskType
  <2> QED  BY <2>1, <2>2
<1> QED  BY <1>1, PurgeInvariance, PTL

(* As long as the tenant has each concept once, a purge forgets only what  *)
(* the server had stamped before the cutoff or not at all: the Delete      *)
(* goes by concept, and then the concept leads to the entry that was       *)
(* listed, however the other goroutines and the clock move in between.     *)
THEOREM PurgeSparesFreshEntries == ManagerSpec => PurgeSparesFreshConcepts
<1> DEFINE A == \A w \in Workers : \A id \in live :
                  Purges(w, id) /\ OneEngramPerConcept =>
                    engrams[id].at + task[w].age < task[w].cutoff
                      \/ engrams[id].at = NoStamp
<1>1. MInv /\ PurgesSound /\ AimsSound => A
  <2> SUFFICES ASSUME MInv, PurgesSound, AimsSound, OneEngramPerConcept,
                      NEW w \in Workers, NEW id \in live, Purges(w, id)
               PROVE  \/ engrams[id].at + task[w].age < task[w].cutoff
                      \/ engrams[id].at = NoStamp
    OBVIOUS
  <2> DEFINE h == Head(task[w].entries)
  <2>1. task[w].kind = "purge" /\ call[w].pc = "forget" /\ call[w].id = id
    BY DEF Purges
  <2>2. task[w].pc = "purging" /\ Deletes(engrams, task[w], call[w])
    BY <2>1 DEF PurgesSound, PurgeSound
  <2>3. InFlightSound
    BY IInvMeaning DEF MInv
  <2>4. Fits(id, call[w].t, call[w].u, call[w].s, call[w].k)
    BY <2>1, <2>3 DEF InFlightSound, CallSound
  <2>5. GoodTask(engrams, task[w]) /\ AimSound(engrams, task[w], call[w])
    BY DEF MInv, GoodTasks, AimsSound
  <2>6. h \in Ids /\ engrams[h].vault = task[w].t
    BY <2>1, <2>2, <2>5, EntriesKnown DEF AimSound, Ids
  <2>7. id = h
    BY <2>2, <2>4, <2>6 DEF Fits, Deletes, OneEngramPerConcept
  <2>8. Older(engrams[h].at, task[w].age, task[w].cutoff)
    BY <2>1, <2>2, <2>5 DEF AimSound
  <2> QED  BY <2>7, <2>8 DEF Older
<1>2. ManagerInit => AimsSound
  <2>1. NoTask.kind # "purge"
    BY DEF NoTask
  <2> QED  BY <2>1, NoAim DEF ManagerInit, AimsSound
<1>3. MInv /\ PurgesSound /\ AimsSound /\ [ManagerNext]_allVars => AimsSound'
  BY AimsKeep
<1> QED  BY <1>1, <1>2, <1>3, PurgeInvariance, PTL
         DEF ManagerSpec, PurgeSparesFreshConcepts
=============================================================================
