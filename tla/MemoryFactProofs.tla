--------------------------- MODULE MemoryFactProofs ---------------------------
(***************************************************************************)
(* What becomes of facts, for every value of the constants: OnExtract is   *)
(* never told of more facts than reached the server under the caller's     *)
(* user and session, and a profile recall answers only concepts that       *)
(* IngestProfile was given for that user.                                  *)
(***************************************************************************)
EXTENDS MemoryManagerProofs

-----------------------------------------------------------------------------
(* The inductive invariants.  A call knows what it made the server store;  *)
(* an operation knows which call stores its facts, and how far its loop    *)
(* over them is.                                                           *)

StoredIn(E, t, u, s, k) ==
  \E id \in DOMAIN E : /\ E[id].vault = t /\ E[id].key = k
                       /\ E[id].user = u /\ E[id].session = s

WriteSound(E, c) ==
  /\ c.op = "batch" => \A k \in c.stored : StoredIn(E, c.t, c.u, c.s, k)
  /\ c.op = "set" =>
       /\ c.pc \in {"cache", "done"}
       /\ c.pc = "cache" \/ c.outcome = "ok" => StoredIn(E, c.t, c.u, c.s, c.k)

WritesSound == \A w \in Workers : WriteSound(engrams, call[w])

(* The facts of m among K that reached the server. *)
Arrived(E, m, K) == {k \in K : StoredIn(E, m.t, m.u, m.s, k)}

(* One by one: the fact c.k is on its way, those in left are still to come.*)
LoopSound(E, m, c) ==
  LET arrived == Cardinality(Arrived(E, m, m.facts \ (m.left \cup {c.k})))
  IN  /\ c.op = "set" /\ c.t = m.t /\ c.u = m.u /\ c.s = m.s
      /\ m.left \subseteq m.facts /\ c.k \in m.facts \ m.left
      /\ m.kind = "ingest" => m.reported <= arrived
      /\ m.kind = "extract" => m.reported <= arrived + Cardinality(m.left) + 1

FactSound(E, m, c) ==
  m.kind \in {"extract", "ingest"} =>
    /\ m.pc \in {"done", "extract", "stored", "facts"}
    /\ m.pc = "extract" => m.kind = "extract"
    /\ m.pc = "stored" =>
         /\ c.op = "batch" /\ c.keys = m.facts
         /\ c.t = m.t /\ c.u = m.u /\ c.s = m.s
    /\ m.pc = "facts" => LoopSound(E, m, c)
    /\ m.pc = "done" => m.reported <= Cardinality(Arrived(E, m, m.facts))

FactsSound == \A w \in Workers : FactSound(engrams, task[w], call[w])

(* Where a profile tag may come from: from IngestProfile (P holds what it  *)
(* was given), or from the prefix of the concept.                          *)
Explained(P, t, u, k) == k \in ProfileKeys \/ <<t, u, k>> \in P

ProfileEngrams(E, P) ==
  \A id \in DOMAIN E :
    E[id].profile => Explained(P, E[id].vault, E[id].user, E[id].key)

ProfileCall(P, c) ==
  /\ InBatch(c) => c.op = "batch"
  /\ c.op = "batch" /\ c.tag => \A k \in c.keys : Explained(P, c.t, c.u, k)

(* A profile recall lists by the tag, and answers what it listed. *)
ProfileTask(E, m, c) ==
  m.kind = "profile" =>
    /\ m.pc \in {"done", "searched"}
    /\ m.pc = "searched" => c.tag
    /\ \A id \in m.answer : E[id].profile

ProfileSound ==
  /\ ProfileEngrams(engrams, profileFacts)
  /\ \A w \in Workers : /\ ProfileCall(profileFacts, call[w])
                        /\ ProfileTask(engrams, task[w], call[w])

-----------------------------------------------------------------------------
(* What a call made the server store. *)

LEMMA StoredExtends ==
  ASSUME NEW E, NEW F, Extends(E, F), NEW t, NEW u, NEW s, NEW k,
         StoredIn(E, t, u, s, k)
  PROVE  StoredIn(F, t, u, s, k)
BY DEF Extends, StoredIn

LEMMA WriteExtends ==
  ASSUME NEW E, NEW F, Extends(E, F), NEW c, WriteSound(E, c)
  PROVE  WriteSound(F, c)
BY StoredExtends DEF WriteSound

LEMMA WritePut ==
  ASSUME IInv, WritesSound, [Next]_vars, NEW w \in Workers,
         WriteSound(engrams', call'[w]), \A v \in Workers \ {w} : call'[v] = call[v]
  PROVE  WritesSound'
<1>1. ASSUME NEW v \in Workers PROVE WriteSound(engrams', call'[v])
  BY ServerExtends, WriteExtends DEF WritesSound
<1> QED  BY <1>1 DEF WritesSound

LEMMA WriteStores ==
  ASSUME IInv, NEW t \in Tenants, NEW u \in TagUsers, NEW s \in TagSessions,
         NEW k \in Keys, NEW tag \in BOOLEAN, NEW id,
         ServerWrites(t, u, s, k, tag, id)
  PROVE  StoredIn(engrams', t, u, s, k)
<1>1. FitsIn(engrams', id, t, u, s, k) /\ Exact(engrams', id, u, s)
  BY Written, WrittenLive
<1> QED  BY <1>1 DEF StoredIn, FitsIn, Exact

(* A write either failed, or its engram waits to be cached. *)
LEMMA WriteBegins ==
  ASSUME IInv, NEW w \in Workers, NEW t \in Tenants, NEW u \in TagUsers,
         NEW s \in TagSessions, NEW k \in Keys, NEW tag \in BOOLEAN,
         Write(w, t, u, s, k, tag)
  PROVE  /\ call'[w].op = "set" /\ call'[w].t = t /\ call'[w].u = u
         /\ call'[w].s = s /\ call'[w].k = k
         /\ WriteSound(engrams', call'[w])
         /\ \A v \in Workers \ {w} : call'[v] = call[v]
<1> DEFINE c == [NewCall("set", t, u, s) EXCEPT !.k = k]
           d(id) == [c EXCEPT !.pc = "cache", !.id = id]
           failed == Returned(c, "failed")
           mine(x) == x.op = "set" /\ x.t = t /\ x.u = u /\ x.s = s /\ x.k = k
           goal == /\ mine(call'[w]) /\ WriteSound(engrams', call'[w])
                   /\ \A v \in Workers \ {w} : call'[v] = call[v]
<1>1. mine(failed) /\ failed.pc = "done" /\ failed.outcome = "failed"
  BY DEF Returned, NewCall, Idle
<1>2. \A id : mine(d(id)) /\ d(id).pc = "cache"
  BY DEF NewCall, Idle
<1>3. \/ Goto(w, failed)
      \/ \E id : ServerWrites(t, u, s, k, tag, id) /\ Goto(w, d(id))
  BY DEF Write
<1> HIDE DEF c, d, failed
<1>4. CASE Goto(w, failed)
  <2>1. call'[w] = failed /\ \A v \in Workers \ {w} : call'[v] = call[v]
    BY <1>4, CallGoes
  <2>2. WriteSound(engrams', failed)
    BY <1>1 DEF WriteSound
  <2> QED  BY <1>1, <2>1, <2>2
<1>5. ASSUME NEW id, ServerWrites(t, u, s, k, tag, id), Goto(w, d(id))
      PROVE  goal
  <2>1. call'[w] = d(id) /\ \A v \in Workers \ {w} : call'[v] = call[v]
    BY <1>5, CallGoes
  <2>2. StoredIn(engrams', t, u, s, k)
    BY <1>5, WriteStores
  <2>3. mine(d(id)) /\ d(id).pc = "cache"
    BY <1>2
  <2>4. WriteSound(engrams', d(id))
    BY <2>2, <2>3 DEF WriteSound
  <2> QED  BY <2>1, <2>3, <2>4
<1> QED  BY <1>3, <1>4, <1>5

LEMMA BeginWrites ==
  ASSUME IInv, WritesSound, NEW w \in Workers, Begin(w)
  PROVE  WritesSound'
<1> DEFINE goal == WriteSound(engrams', call'[w])
<1>1. ASSUME NEW d, Goto(w, d), d.op # "set", d.op = "batch" => d.stored = {}
      PROVE  goal
  <2>1. call'[w] = d
    BY <1>1, CallGoes
  <2> QED  BY <1>1, <2>1 DEF WriteSound
<1> HIDE DEF goal
<1>2. PICK t \in Tenants, u \in Users, s \in Sessions :
    \/ \E k \in Keys : Set(w, t, u, s, k) \/ SaveTurn(w, t, u, s, k)
                         \/ Get(w, t, u, s, k) \/ Delete(w, t, u, s, k)
    \/ \E op \in {"search", "recall"}, tag \in BOOLEAN, limit \in Limits :
         Activate(w, op, t, u, s, tag, limit)
    \/ \E tag \in BOOLEAN : List(w, t, u, s, tag)
    \/ \E K \in SUBSET Keys : SetBatch(w, t, u, s, K) \/ SetProfile(w, t, u, K)
  BY DEF Begin
<1>3. ASSUME NEW k \in Keys, Set(w, t, u, s, k) \/ SaveTurn(w, t, u, s, k)
      PROVE  goal
  <2>1. \E tag \in BOOLEAN : Write(w, t, u, s, k, tag)
    BY <1>3, TagIsBoolean DEF Set, SaveTurn
  <2>2. u \in TagUsers /\ s \in TagSessions
    BY DEF TagUsers, TagSessions
  <2> QED  BY <2>1, <2>2, WriteBegins DEF goal
<1>4. ASSUME NEW k, Get(w, t, u, s, k) \/ Delete(w, t, u, s, k) PROVE goal
  <2> DEFINE d(op, id, pc) == [NewCall(op, t, u, s) EXCEPT !.k = k, !.id = id, !.pc = pc]
  <2>1. \A op \in {"get", "delete"} : \A id, pc : d(op, id, pc).op \notin {"set", "batch"}
    BY DEF NewCall, Idle
  <2>2. \E op \in {"get", "delete"} : \E id, pc : Goto(w, d(op, id, pc))
    BY <1>4 DEF Get, Delete
  <2> HIDE DEF d
  <2> QED  BY <1>1, <2>1, <2>2
<1>5. ASSUME NEW op, NEW tag, NEW limit, Activate(w, op, t, u, s, tag, limit)
      PROVE  goal
  <2> DEFINE c == [NewCall(op, t, u, s) EXCEPT !.tag = tag, !.limit = limit]
             d(A) == [c EXCEPT !.pc = "items", !.items = A]
             failed == Returned(c, "failed")
  <2>1. op \in {"search", "recall"}
    BY <1>5 DEF Activate
  <2>2. failed.op \notin {"set", "batch"} /\ \A A : d(A).op \notin {"set", "batch"}
    BY <2>1 DEF Returned, NewCall, Idle
  <2>3. Goto(w, failed) \/ \E A : Goto(w, d(A))
    BY <1>5 DEF Activate
  <2> HIDE DEF c, d, failed
  <2> QED  BY <1>1, <2>2, <2>3
<1>6. ASSUME NEW tag, List(w, t, u, s, tag) PROVE goal
  <2> DEFINE d == [NewCall("list", t, u, s) EXCEPT !.tag = tag, !.pc = "page", !.atStart = live]
  <2>1. d.op = "list" /\ Goto(w, d)
    BY <1>6 DEF List, NewCall, Idle
  <2> HIDE DEF d
  <2> QED  BY <1>1, <2>1
<1>7. ASSUME NEW r, NEW K, NEW tag, WriteBatch(w, t, u, r, K, tag) PROVE goal
  <2> DEFINE d == [NewCall("batch", t, u, r) EXCEPT !.tag = tag, !.keys = K, !.pc = "send"]
  <2>1. d.op = "batch" /\ d.stored = {} /\ Goto(w, d)
    BY <1>7 DEF WriteBatch, NewCall, Idle
  <2> HIDE DEF d
  <2> QED  BY <1>1, <2>1
<1>8. goal
  BY <1>2, <1>3, <1>4, <1>5, <1>6, <1>7 DEF SetBatch, SetProfile
<1>9. [Next]_vars /\ \A v \in Workers \ {w} : call'[v] = call[v]
  BY BeginOpens DEF Next
<1> QED  BY <1>8, <1>9, WritePut DEF goal

(* One item of a batch: refused, or stored and counted as stored. *)
LEMMA ServeItemWrites ==
  ASSUME IInv, BatchesSound, WritesSound, NEW w \in Workers, ServeItem(w)
  PROVE  WriteSound(engrams', call'[w])
<1> DEFINE c == call[w]
           d(k, id, err) ==
             [c EXCEPT !.chunk = @ \ {k}, !.answers = @ \cup {Answer(k, id, err)},
                       !.stored = IF err THEN @ ELSE @ \cup {k}]
           goal == WriteSound(engrams', call'[w])
<1>1. /\ GoodCall(engrams, c) /\ c.pc = "serve" /\ WriteSound(engrams, c)
  BY CallAt DEF ServeItem, WritesSound
<1>2. /\ c \in CallType(DOMAIN engrams) /\ c.op # "set"
      /\ c.t \in Tenants /\ c.u \in TagUsers /\ c.s \in TagSessions
      /\ c.chunk \in SUBSET Keys /\ c.tag \in BOOLEAN
  BY <1>1 DEF GoodCall, SoundIn, CallType, WriteSound
<1> DEFINE same(e) == e.op = c.op /\ e.t = c.t /\ e.u = c.u /\ e.s = c.s
<1>3. \A k, id : /\ same(d(k, id, TRUE)) /\ d(k, id, TRUE).stored = c.stored
                 /\ same(d(k, id, FALSE))
                 /\ d(k, id, FALSE).stored = c.stored \cup {k}
  BY <1>2 DEF CallType
<1>4. Extends(engrams, engrams')
  BY ServerExtends DEF Next, Step
<1>5. WriteSound(engrams', c)
  BY <1>1, <1>4, WriteExtends
<1> DEFINE silent(k) == [c EXCEPT !.chunk = @ \ {k}]
<1>9. \A k : same(silent(k)) /\ silent(k).stored = c.stored
  BY <1>2 DEF CallType
<1>6. \/ \E k \in c.chunk : Goto(w, d(k, NoId, TRUE))
      \/ \E k \in c.chunk : Goto(w, silent(k))
      \/ \E k \in c.chunk : \E id : /\ ServerWrites(c.t, c.u, c.s, k, Tagged(k, c.tag), id)
                                   /\ \E i : Goto(w, d(k, i, FALSE))
  BY DEF ServeItem
<1> HIDE DEF d, c, silent
<1>10. ASSUME NEW k \in c.chunk, Goto(w, silent(k)) PROVE goal
  <2> DEFINE e == silent(k)
  <2>1. call'[w] = e
    BY <1>10, CallGoes
  <2>2. same(e) /\ e.stored = c.stored
    BY <1>9
  <2> HIDE DEF e
  <2> QED  BY <1>2, <1>5, <2>1, <2>2 DEF WriteSound
<1>7. ASSUME NEW k \in c.chunk, Goto(w, d(k, NoId, TRUE)) PROVE goal
  <2> DEFINE e == d(k, NoId, TRUE)
  <2>1. call'[w] = e
    BY <1>7, CallGoes
  <2>2. same(e) /\ e.stored = c.stored
    BY <1>3
  <2> HIDE DEF e
  <2> QED  BY <1>2, <1>5, <2>1, <2>2 DEF WriteSound
<1>8. ASSUME NEW k \in c.chunk, NEW id, NEW i,
             ServerWrites(c.t, c.u, c.s, k, Tagged(k, c.tag), id), Goto(w, d(k, i, FALSE))
      PROVE  goal
  <2> DEFINE e == d(k, i, FALSE)
  <2>1. call'[w] = e
    BY <1>8, CallGoes
  <2>2. Tagged(k, c.tag) \in BOOLEAN /\ k \in Keys
    BY <1>2, TagIsBoolean
  <2>3. StoredIn(engrams', c.t, c.u, c.s, k)
    BY <1>2, <1>8, <2>2, WriteStores
  <2>4. same(e) /\ e.stored = c.stored \cup {k}
    BY <1>3
  <2> HIDE DEF e
  <2> QED  BY <1>2, <1>5, <2>1, <2>3, <2>4 DEF WriteSound
<1> QED  BY <1>6, <1>7, <1>8, <1>10

(* The only step of a write call caches its id. *)
LEMMA SetStepWrites ==
  ASSUME IInv, WritesSound, NEW w \in Workers, Step(w), call[w].op = "set"
  PROVE  WriteSound(engrams', call'[w])
<1> DEFINE c == call[w]
           d == [Returned(c, "ok") EXCEPT
                   !.result = IF c.op = "get" THEN {c.id} ELSE {}]
<1>1. WriteSound(engrams, c) /\ c \in CallType(DOMAIN engrams)
  BY CallAt DEF WritesSound, GoodCall
<1>2. CacheOwn(w)
  BY <1>1 DEF WriteSound, Step, CacheOwn, Read, ActivateKey, Forget, DropCache,
              ListPage, CacheItem, ItemsDone, SendChunk, ServeItem,
              ReceiveResults, CacheResult, NextChunk, RequestFails
<1>3. c.pc = "cache" /\ Goto(w, d)
  BY <1>2 DEF CacheOwn
<1>4. d.op = "set" /\ d.pc = "done"
  BY <1>1 DEF Returned, CallType
<1> HIDE DEF d
<1>5. call'[w] = d
  BY <1>3, CallGoes
<1>6. StoredIn(engrams', c.t, c.u, c.s, c.k)
  <2>1. Extends(engrams, engrams')
    BY ServerExtends DEF Next
  <2> QED  BY <1>1, <1>3, <2>1, StoredExtends DEF WriteSound
<1>7. SameRequest(c, d)
  BY <1>5, StepKeepsRequest
<1> QED  BY <1>4, <1>5, <1>6, <1>7 DEF WriteSound, SameRequest

(* Every other step of a batch keeps what is stored. *)
LEMMA BatchStepKeeps ==
  ASSUME IInv, BatchesSound, NEW w \in Workers, Step(w), ~ServeItem(w),
         call[w].op = "batch"
  PROVE  call'[w].stored = call[w].stored
<1> DEFINE c == call[w]
           goal == call'[w].stored = call[w].stored
<1>1. BatchSound(c) /\ c \in CallType(DOMAIN engrams)
  BY CallAt DEF BatchesSound, GoodCall
<1>2. ASSUME NEW d, Goto(w, d), d.stored = c.stored PROVE goal
  BY <1>2, CallGoes
<1>3. \A outcome : Returned(c, outcome).stored = c.stored
  BY <1>1 DEF Returned, CallType
<1>4. ASSUME NEW outcome, Return(w, outcome) PROVE goal
  BY <1>2, <1>3, <1>4 DEF Return
<1> HIDE DEF goal, c
<1>5. SendChunk(w) \/ ReceiveResults(w) \/ CacheResult(w) \/ NextChunk(w) \/ RequestFails(w)
  BY <1>1 DEF BatchSound, Step, CacheOwn, Read, ActivateKey, Forget, DropCache,
              ListPage, CacheItem, ItemsDone, c
<1>6. ASSUME SendChunk(w) PROVE goal
  <2> DEFINE d(C) == [c EXCEPT !.pc = "serve", !.chunk = C, !.sent = Sent(c, C)]
  <2>1. \A C : d(C).stored = c.stored
    BY <1>1 DEF CallType
  <2>2. Return(w, "ok") \/ \E C : Goto(w, d(C))
    BY <1>6 DEF SendChunk, c
  <2> HIDE DEF d
  <2> QED  BY <1>2, <1>4, <2>1, <2>2
<1>7. ASSUME ReceiveResults(w) \/ NextChunk(w) PROVE goal
  <2> DEFINE d(pc) == [c EXCEPT !.pc = pc]
  <2>1. \A pc : d(pc).stored = c.stored
    BY <1>1 DEF CallType
  <2>2. \E pc : Goto(w, d(pc))
    BY <1>7 DEF ReceiveResults, NextChunk, c
  <2> HIDE DEF d
  <2> QED  BY <1>2, <2>1, <2>2
<1>8. ASSUME CacheResult(w) PROVE goal
  <2> DEFINE d(a) == [c EXCEPT !.answers = @ \ {a}]
  <2>1. \A a : d(a).stored = c.stored
    BY <1>1 DEF CallType
  <2>2. Return(w, "failed") \/ \E a : Goto(w, d(a))
    BY <1>8 DEF CacheResult, c
  <2> HIDE DEF d
  <2> QED  BY <1>2, <1>4, <2>1, <2>2
<1>9. ASSUME RequestFails(w) PROVE goal
  BY <1>4, <1>9 DEF RequestFails
<1>10. goal
  BY <1>5, <1>6, <1>7, <1>8, <1>9
<1> QED  BY <1>10 DEF goal

LEMMA StepWrites ==
  ASSUME IInv, BatchesSound, WritesSound, NEW w \in Workers, Step(w)
  PROVE  WritesSound'
<1> DEFINE c == call[w]
           d == call'[w]
<1>1. [Next]_vars /\ Extends(engrams, engrams')
  BY ServerExtends DEF Next
<1>2. WriteSound(engrams', c)
  BY <1>1, WriteExtends DEF WritesSound
<1>3. SameRequest(c, d) /\ \A v \in Workers \ {w} : call'[v] = call[v]
  BY StepKeepsRequest
<1>4. WriteSound(engrams', d)
  <2>1. CASE c.op = "set"
    BY <2>1, SetStepWrites
  <2>2. CASE ServeItem(w)
    BY <2>2, ServeItemWrites
  <2>3. CASE c.op = "batch" /\ ~ServeItem(w)
    <3>1. d.stored = c.stored
      BY <2>3, BatchStepKeeps
    <3> QED  BY <1>2, <1>3, <2>3, <3>1 DEF WriteSound, SameRequest
  <2>4. CASE c.op \notin {"set", "batch"}
    BY <1>3, <2>4 DEF WriteSound, SameRequest
  <2> QED  BY <2>1, <2>2, <2>3, <2>4
<1> QED  BY <1>1, <1>3, <1>4, WritePut

LEMMA WritesKeep ==
  ASSUME IInv, BatchesSound, WritesSound, [Next]_vars
  PROVE  WritesSound'
<1>1. CASE Tick \/ UNCHANGED vars
  BY <1>1 DEF Tick, vars, WritesSound
<1>2. CASE Restart
  BY <1>2 DEF Restart, WritesSound, WriteSound, Idle
<1> QED  BY <1>1, <1>2, BeginWrites, StepWrites DEF Next

-----------------------------------------------------------------------------
(* Counting the facts that arrived. *)

LEMMA ArrivedGrows ==
  ASSUME NEW E, NEW F, Extends(E, F), NEW m, NEW n,
         n.t = m.t /\ n.u = m.u /\ n.s = m.s,
         NEW K, NEW L \in SUBSET Keys, K \subseteq L
  PROVE  /\ Cardinality(Arrived(E, m, K)) \in Nat
         /\ Cardinality(Arrived(F, n, L)) \in Nat
         /\ Cardinality(Arrived(E, m, K)) <= Cardinality(Arrived(F, n, L))
<1> DEFINE A == Arrived(E, m, K)
           B == Arrived(F, n, L)
<1>1. A \subseteq B
  BY StoredExtends DEF Arrived
<1>2. IsFiniteSet(B)
  <2>1. B \subseteq Keys
    BY DEF Arrived
  <2> QED  BY <2>1, ManagerAssumption, FS_Subset
<1> HIDE DEF A, B
<1>3. IsFiniteSet(A) /\ Cardinality(A) <= Cardinality(B)
  BY <1>1, <1>2, FS_Subset
<1> QED  BY <1>2, <1>3, FS_CardinalityType DEF A, B

(* One more fact that arrived is one more to count. *)
LEMMA ArrivedOne ==
  ASSUME NEW E, NEW m, NEW K \in SUBSET Keys, NEW k \in K,
         StoredIn(E, m.t, m.u, m.s, k)
  PROVE  Cardinality(Arrived(E, m, K)) = Cardinality(Arrived(E, m, K \ {k})) + 1
<1> DEFINE A == Arrived(E, m, K \ {k})
           B == Arrived(E, m, K)
<1>1. B = A \cup {k} /\ k \notin A /\ A \subseteq Keys
  BY DEF Arrived
<1> HIDE DEF A, B
<1>2. IsFiniteSet(A)
  BY <1>1, ManagerAssumption, FS_Subset
<1> QED  BY <1>1, <1>2, FS_AddElement DEF A, B

LEMMA FactsFinite ==
  ASSUME NEW K \in SUBSET Keys
  PROVE  IsFiniteSet(K) /\ Cardinality(K) \in Nat
BY ManagerAssumption, FS_Subset, FS_CardinalityType

-----------------------------------------------------------------------------
(* Every step keeps FactsSound. *)

SameFacts(m, n) ==
  /\ n.kind = m.kind /\ n.pc = m.pc /\ n.t = m.t /\ n.u = m.u /\ n.s = m.s
  /\ n.facts = m.facts /\ n.left = m.left /\ n.reported = m.reported

(* An operation keeps its count while its call runs and others write. *)
LEMMA FactCarries ==
  ASSUME NEW E, NEW F, Extends(E, F), NEW m \in TaskType(DOMAIN E), NEW n,
         SameFacts(m, n), NEW c, NEW d, SameRequest(c, d), FactSound(E, m, c)
  PROVE  FactSound(F, n, d)
<1> SUFFICES ASSUME m.kind \in {"extract", "ingest"}
             PROVE  FactSound(F, n, d)
  BY DEF FactSound, SameFacts
<1> DEFINE arrived == m.facts \ (m.left \cup {c.k})
<1>1. m.facts \in SUBSET Keys /\ m.left \in SUBSET Keys /\ m.reported \in Int
  BY DEF TaskType
<1>2. /\ Cardinality(Arrived(E, m, m.facts)) \in Nat
      /\ Cardinality(Arrived(F, n, m.facts)) \in Nat
      /\ Cardinality(Arrived(E, m, m.facts)) <= Cardinality(Arrived(F, n, m.facts))
  BY <1>1, ArrivedGrows DEF SameFacts
<1>3. /\ Cardinality(Arrived(E, m, arrived)) \in Nat
      /\ Cardinality(Arrived(F, n, arrived)) \in Nat
      /\ Cardinality(Arrived(E, m, arrived)) <= Cardinality(Arrived(F, n, arrived))
  <2>1. arrived \in SUBSET Keys
    BY <1>1
  <2> HIDE DEF arrived
  <2> QED  BY <2>1, ArrivedGrows DEF SameFacts
<1>4. Cardinality(m.left) \in Nat
  BY <1>1, FactsFinite
<1>5. m.pc = "facts" => LoopSound(F, n, d)
  <2> SUFFICES ASSUME m.pc = "facts" PROVE LoopSound(F, n, d)
    OBVIOUS
  <2>1. LoopSound(E, m, c)
    BY DEF FactSound
  <2>2. /\ d.op = "set" /\ d.t = n.t /\ d.u = n.u /\ d.s = n.s
        /\ n.left \subseteq n.facts /\ d.k \in n.facts \ n.left
    BY <2>1 DEF LoopSound, SameFacts, SameRequest
  <2>3. n.facts \ (n.left \cup {d.k}) = arrived
    BY DEF SameFacts, SameRequest
  <2>4. /\ m.kind = "ingest" => m.reported <= Cardinality(Arrived(E, m, arrived))
        /\ m.kind = "extract" =>
             m.reported <= Cardinality(Arrived(E, m, arrived)) + Cardinality(m.left) + 1
    BY <2>1 DEF LoopSound
  <2> HIDE DEF arrived
  <2>5. /\ m.kind = "ingest" => m.reported <= Cardinality(Arrived(F, n, arrived))
        /\ m.kind = "extract" =>
             m.reported <= Cardinality(Arrived(F, n, arrived)) + Cardinality(m.left) + 1
    BY <1>1, <1>3, <1>4, <2>4
  <2> QED  BY <2>2, <2>3, <2>5 DEF LoopSound, SameFacts
<1>6. m.pc = "done" => n.reported <= Cardinality(Arrived(F, n, n.facts))
  <2>1. m.pc = "done" => m.reported <= Cardinality(Arrived(E, m, m.facts))
    BY DEF FactSound
  <2>2. m.pc = "done" => m.reported <= Cardinality(Arrived(F, n, m.facts))
    BY <1>1, <1>2, <2>1
  <2> QED  BY <2>2 DEF SameFacts
<1>7. /\ m.pc \in {"done", "extract", "stored", "facts"}
      /\ m.pc = "extract" => m.kind = "extract"
      /\ m.pc = "stored" => /\ c.op = "batch" /\ c.keys = m.facts
                            /\ c.t = m.t /\ c.u = m.u /\ c.s = m.s
  BY DEF FactSound
<1> QED  BY <1>5, <1>6, <1>7 DEF FactSound, SameFacts, SameRequest

LEMMA FactPut ==
  ASSUME MInv, FactsSound, [Next]_vars, NEW w \in Workers, NEW n, Turn(w, n),
         \A v \in Workers \ {w} : call'[v] = call[v],
         FactSound(engrams', n, call'[w])
  PROVE  FactsSound'
<1>1. task'[w] = n /\ \A v \in Workers \ {w} : task'[v] = task[v]
  BY DEF MInv, GoodTasks, Turn
<1>2. Extends(engrams, engrams')
  BY ServerExtends DEF MInv
<1>3. ASSUME NEW v \in Workers \ {w} PROVE FactSound(engrams', task'[v], call'[v])
  <2>1. FactSound(engrams, task[v], call[v]) /\ task[v] \in TaskType(DOMAIN engrams)
    BY TaskOf DEF FactsSound
  <2>2. SameFacts(task[v], task[v]) /\ SameRequest(call[v], call[v])
    BY DEF SameFacts, SameRequest
  <2> QED  BY <1>1, <1>2, <2>1, <2>2, FactCarries
<1> QED  BY <1>1, <1>3 DEF FactsSound

(* The facts are handed to the store. *)
LEMMA StoreFactsCounts ==
  ASSUME MInv, NEW w \in Workers, NEW m, NEW K \in SUBSET Keys, NEW count \in Int,
         m.t \in Tenants, m.u \in Users, m.s \in Sessions,
         m.kind = "ingest" => count <= 0,
         m.kind = "extract" => count <= Cardinality(K),
         m \in TaskType(DOMAIN engrams), StoreFacts(w, m, K, count)
  PROVE  \E n : /\ Turn(w, n) /\ FactSound(engrams', n, call'[w])
                /\ \A v \in Workers \ {w} : call'[v] = call[v]
<1>1. CASE SetBatch(w, m.t, m.u, m.s, K) /\ Turn(w, [m EXCEPT !.pc = "stored", !.facts = K])
  <2> DEFINE n == [m EXCEPT !.pc = "stored", !.facts = K]
             d == [NewCall("batch", m.t, m.u, m.s) EXCEPT
                     !.tag = FALSE, !.keys = K, !.pc = "send"]
  <2>1. Goto(w, d)
    BY <1>1 DEF SetBatch, WriteBatch
  <2>2. d.op = "batch" /\ d.keys = K /\ d.t = m.t /\ d.u = m.u /\ d.s = m.s
    BY DEF NewCall, Idle
  <2>3. n.pc = "stored" /\ n.facts = K /\ n.t = m.t /\ n.u = m.u /\ n.s = m.s
    BY DEF TaskType
  <2>4. Turn(w, n)
    BY <1>1
  <2> HIDE DEF n, d
  <2>5. call'[w] = d /\ \A v \in Workers \ {w} : call'[v] = call[v]
    BY <2>1, CallBegun
  <2>6. FactSound(engrams', n, call'[w])
    BY <2>2, <2>3, <2>5 DEF FactSound
  <2> QED  BY <2>4, <2>5, <2>6
<1>2. ASSUME NEW k \in K, Set(w, m.t, m.u, m.s, k),
             Turn(w, [m EXCEPT !.pc = "facts", !.facts = K, !.left = K \ {k},
                               !.reported = count])
      PROVE  \E n : /\ Turn(w, n) /\ FactSound(engrams', n, call'[w])
                    /\ \A v \in Workers \ {w} : call'[v] = call[v]
  <2> DEFINE L == K \ {k}
             n == [m EXCEPT !.pc = "facts", !.facts = K, !.left = L,
                            !.reported = count]
             d == call'[w]
             none == n.facts \ (n.left \cup {d.k})
  <2>1. /\ d.op = "set" /\ d.t = m.t /\ d.u = m.u /\ d.s = m.s /\ d.k = k
        /\ \A v \in Workers \ {w} : call'[v] = call[v]
    <3> DEFINE tag == Tagged(k, FALSE)
    <3>1. Write(w, m.t, m.u, m.s, k, tag) /\ tag \in BOOLEAN
      BY <1>2, TagIsBoolean DEF Set
    <3>2. m.u \in TagUsers /\ m.s \in TagSessions /\ k \in Keys /\ IInv
      BY AnyCaller DEF MInv
    <3> HIDE DEF tag, n, L
    <3> QED  BY <3>1, <3>2, WriteBegins
  <2>2. /\ n.kind = m.kind /\ n.pc = "facts" /\ n.facts = K /\ n.left = L
        /\ n.reported = count /\ n.t = m.t /\ n.u = m.u /\ n.s = m.s
    BY DEF TaskType
  <2>3. Turn(w, n)
    BY <1>2
  <2>4. L \subseteq K /\ k \in K \ L /\ L \in SUBSET Keys
    OBVIOUS
  <2>5. Cardinality(L) \in Nat /\ Cardinality(K) = Cardinality(L) + 1
    <3>1. IsFiniteSet(K) /\ IsFiniteSet(L) /\ K = L \cup {k} /\ k \notin L
      BY <2>4, FactsFinite
    <3> HIDE DEF L
    <3> QED  BY <3>1, FS_AddElement, FS_CardinalityType
  <2> HIDE DEF n, d, L
  <2>6. Cardinality(Arrived(engrams', n, none)) \in Nat
    <3>1. none \in SUBSET Keys /\ Extends(engrams', engrams')
      BY <2>2 DEF Extends
    <3> HIDE DEF none
    <3> QED  BY <3>1, ArrivedGrows
  <2> DEFINE a == Cardinality(Arrived(engrams', n, none))
  <2>7. /\ m.kind = "ingest" => count <= a
        /\ m.kind = "extract" => count <= a + Cardinality(L) + 1
    <3>1. a \in Nat
      BY <2>6
    <3> HIDE DEF a
    <3> QED  BY <2>5, <3>1
  <2>8. LoopSound(engrams', n, d)
    BY <2>1, <2>2, <2>4, <2>7 DEF LoopSound
  <2>9. FactSound(engrams', n, d)
    BY <2>2, <2>8 DEF FactSound
  <2> QED  BY <2>1, <2>3, <2>9 DEF d
<1> QED  BY <1>1, <1>2 DEF StoreFacts

LEMMA NoFacts ==
  ASSUME NEW E, NEW n, NEW c, n.kind \notin {"extract", "ingest"}
  PROVE  FactSound(E, n, c)
BY DEF FactSound

LEMMA OperationCounts ==
  ASSUME MInv, FactsSound, NEW w \in Workers, Operation(w)
  PROVE  FactsSound'
<1> DEFINE goal == \E n : Turn(w, n) /\ FactSound(engrams', n, call'[w])
<1>1. [Next]_vars /\ \A v \in Workers \ {w} : call'[v] = call[v]
  BY OthersStay
<1>2. ASSUME NEW n, Turn(w, n), FactSound(engrams', n, call'[w]) PROVE goal
  BY <1>2
<1> HIDE DEF goal
<1>3. ASSUME NEW n, Turn(w, n), n.kind \notin {"extract", "ingest"} PROVE goal
  BY <1>2, <1>3, NoFacts
<1>4. PICK t \in Tenants, u \in Users :
        \/ \E s \in Sessions : Recall(w, t, u, s) \/ ExtractAndStoreAsync(w, t, u, s)
        \/ \E K \in SUBSET Keys : IngestProfile(w, t, u, K)
        \/ RecallProfile(w, t, u)
        \/ \E age \in Ages : PurgeOlderThan(w, t, age)
  BY DEF Operation
<1>5. ASSUME NEW s \in Sessions, Recall(w, t, u, s) PROVE goal
  <2>1. PICK pc : Turn(w, NewTask("recall", pc, t, u, s))
    BY <1>5 DEF Recall
  <2> DEFINE n == NewTask("recall", pc, t, u, s)
  <2>2. n.kind = "recall" /\ Turn(w, n)
    BY <2>1 DEF NewTask, NoTask
  <2> HIDE DEF n
  <2> QED  BY <1>3, <2>2
<1>6. ASSUME RecallProfile(w, t, u) PROVE goal
  <2> DEFINE n == NewTask("profile", "searched", t, u, Empty)
  <2>1. n.kind = "profile" /\ Turn(w, n)
    BY <1>6 DEF RecallProfile, NewTask, NoTask
  <2> HIDE DEF n
  <2> QED  BY <1>3, <2>1
<1>7. ASSUME NEW age, PurgeOlderThan(w, t, age) PROVE goal
  <2> DEFINE n == [NewTask("purge", "listed", t, Empty, Empty) EXCEPT !.age = age]
  <2>1. n.kind = "purge" /\ Turn(w, n)
    BY <1>7 DEF PurgeOlderThan, NewTask, NoTask
  <2> HIDE DEF n
  <2> QED  BY <1>3, <2>1
<1>8. ASSUME NEW s, ExtractAndStoreAsync(w, t, u, s) PROVE goal
  <2> DEFINE n == NewTask("extract", "extract", t, u, s)
  <2>1. n.pc = "extract" /\ n.kind = "extract" /\ Turn(w, n)
    BY <1>8 DEF ExtractAndStoreAsync, NewTask, NoTask
  <2> HIDE DEF n
  <2>2. FactSound(engrams', n, call'[w])
    BY <2>1 DEF FactSound
  <2> QED  BY <1>2, <2>1, <2>2
<1>9. ASSUME NEW K \in SUBSET Keys, IngestProfile(w, t, u, K) PROVE goal
  <2> DEFINE m == NewTask("ingest", "stored", t, u, Empty)
             n == [m EXCEPT !.facts = K]
  <2>1. m \in TaskType(DOMAIN engrams) /\ Empty \in Sessions
    <3>1. Empty \in Sessions
      BY <1>9, NamelessCaller DEF IngestProfile, Free
    <3>2. GoodTask(engrams, m)
      BY <3>1, NewTaskGood, TaskNames
    <3> QED  BY <3>1, <3>2 DEF GoodTask
  <2>2. m.kind = "ingest" /\ m.pc = "stored" /\ m.t = t /\ m.u = u /\ m.s = Empty
    BY DEF NewTask, NoTask
  <2>3. StoreFacts(w, m, K, 0) \/ (SetProfile(w, t, u, K) /\ Turn(w, n))
    BY <1>9 DEF IngestProfile
  <2> HIDE DEF m
  <2>4. ASSUME StoreFacts(w, m, K, 0) PROVE goal
    <3>1. \E x : Turn(w, x) /\ FactSound(engrams', x, call'[w])
      BY <2>1, <2>2, <2>4, StoreFactsCounts
    <3> QED  BY <1>2, <3>1
  <2>5. ASSUME SetProfile(w, t, u, K), Turn(w, n) PROVE goal
    <3> DEFINE d == [NewCall("batch", t, u, Empty) EXCEPT
                       !.tag = TRUE, !.keys = K, !.pc = "send"]
    <3>1. Goto(w, d)
      BY <2>5 DEF SetProfile, WriteBatch
    <3>2. d.op = "batch" /\ d.keys = K /\ d.t = t /\ d.u = u /\ d.s = Empty
      BY DEF NewCall, Idle
    <3>3. /\ n.pc = "stored" /\ n.facts = K /\ n.t = t /\ n.u = u /\ n.s = Empty
      BY <2>1, <2>2 DEF TaskType
    <3> HIDE DEF n, d
    <3>4. call'[w] = d
      BY <3>1, CallBegun
    <3>5. FactSound(engrams', n, call'[w])
      BY <3>2, <3>3, <3>4 DEF FactSound
    <3> QED  BY <1>2, <2>5, <3>5
  <2> QED  BY <2>3, <2>4, <2>5
<1>10. goal
  BY <1>4, <1>5, <1>6, <1>7, <1>8, <1>9
<1> QED  BY <1>1, <1>10, FactPut DEF goal

(* The batch answered: it counts as stored what is stored. *)
LEMMA StoredCounts ==
  ASSUME "silent" \notin Faults, MInv, BatchesSound, WritesSound, FactsSound, NEW w \in Workers, Stored(w)
  PROVE  FactsSound'
<1> DEFINE m == task[w]
           c == call[w]
           n == Finished(m, {}, Report(w))
           a == Cardinality(Arrived(engrams, m, m.facts))
<1>1. /\ m \in TaskType(DOMAIN engrams) /\ FactSound(engrams, m, c)
      /\ BatchSound(c) /\ WriteSound(engrams, c)
  BY TaskOf DEF FactsSound, BatchesSound, WritesSound
<1>2. /\ m.pc = "stored" /\ Turn(w, n) /\ engrams' = engrams
  BY DEF Stored, Back, StoreUnchanged
<1>3. /\ n.kind = m.kind /\ n.pc = "done" /\ n.facts = m.facts /\ n.t = m.t
      /\ n.u = m.u /\ n.s = m.s /\ n.reported = Report(w)
  BY <1>1 DEF Finished, TaskType
<1>4. m.facts \in SUBSET Keys
  BY <1>1 DEF TaskType
<1>5. a \in Nat
  <2>1. Extends(engrams, engrams)
    BY DEF Extends
  <2> QED  BY <1>4, <2>1, ArrivedGrows
<1>6. m.kind \in {"extract", "ingest"} => Report(w) <= a
  <2> SUFFICES ASSUME m.kind \in {"extract", "ingest"} PROVE Report(w) <= a
    OBVIOUS
  <2>1. /\ c.op = "batch" /\ c.keys = m.facts
        /\ c.t = m.t /\ c.u = m.u /\ c.s = m.s
    BY <1>1, <1>2 DEF FactSound
  <2>2. CASE c.outcome = "ok"
    <3>1. \A k \in m.facts : StoredIn(engrams, m.t, m.u, m.s, k)
      BY <1>1, <2>1, <2>2 DEF BatchSound, WriteSound
    <3>2. Arrived(engrams, m, m.facts) = m.facts
      BY <3>1 DEF Arrived
    <3> QED  BY <1>4, <2>2, <3>2, FactsFinite DEF Report
  <2>3. CASE c.outcome # "ok"
    <3>1. Report(w) = 0
      BY <2>3 DEF Report
    <3> HIDE DEF a
    <3> QED  BY <1>5, <3>1
  <2> QED  BY <2>2, <2>3
<1>7. Arrived(engrams', n, n.facts) = Arrived(engrams, m, m.facts)
  BY <1>2, <1>3 DEF Arrived
<1> HIDE DEF n
<1>8. FactSound(engrams', n, call'[w])
  BY <1>2, <1>3, <1>6, <1>7 DEF FactSound
<1>9. [Next]_vars /\ \A v \in Workers \ {w} : call'[v] = call[v]
  BY OthersStay DEF Continue
<1> QED  BY <1>2, <1>8, <1>9, FactPut

LEMMA ExtractCounts ==
  ASSUME MInv, FactsSound, NEW w \in Workers, Extract(w)
  PROVE  FactsSound'
<1> DEFINE m == task[w]
           goal == \E n : Turn(w, n) /\ FactSound(engrams', n, call'[w])
<1>1. /\ m \in TaskType(DOMAIN engrams) /\ FactSound(engrams, m, call[w])
      /\ m.pc = "extract" /\ m.t \in Tenants /\ m.u \in Users /\ m.s \in Sessions
  BY TaskOf DEF FactsSound, Extract, Back
<1>2. ASSUME Turn(w, Finished(m, {}, 0)), StoreUnchanged PROVE goal
  <2> DEFINE n == Finished(m, {}, 0)
  <2>1. n.pc = "done" /\ n.facts = m.facts /\ n.reported = 0
    BY <1>1 DEF Finished, TaskType
  <2>2. n.facts \in SUBSET Keys
    BY <1>1, <2>1 DEF TaskType
  <2> HIDE DEF n
  <2>3. Cardinality(Arrived(engrams', n, n.facts)) \in Nat
    <3>1. Extends(engrams', engrams')
      BY DEF Extends
    <3> QED  BY <2>2, <3>1, ArrivedGrows
  <2>4. n.reported <= Cardinality(Arrived(engrams', n, n.facts))
    BY <2>1, <2>3
  <2>5. FactSound(engrams', n, call'[w])
    BY <2>1, <2>4 DEF FactSound
  <2> QED  BY <1>2, <2>5 DEF n
<1>3. ASSUME NEW K \in SUBSET Keys, StoreFacts(w, m, K, Cardinality(K)) PROVE goal
  <2>1. Cardinality(K) \in Int /\ Cardinality(K) <= Cardinality(K)
    BY FactsFinite
  <2>2. m.kind # "ingest"
    BY <1>1 DEF FactSound
  <2> HIDE DEF m
  <2> QED  BY <1>1, <1>3, <2>1, <2>2, StoreFactsCounts
<1> HIDE DEF goal
<1>4. goal
  BY <1>2, <1>3 DEF Extract
<1>5. [Next]_vars /\ \A v \in Workers \ {w} : call'[v] = call[v]
  BY OthersStay DEF Continue
<1> QED  BY <1>4, <1>5, FactPut DEF goal

(* A fact that was written, or refused, leaves a count that the facts no   *)
(* longer to come and those that are still to come bound.                  *)
LEMMA CountedBound ==
  ASSUME MInv, WritesSound, FactsSound, NEW w \in Workers, NextFact(w),
         task[w].kind \in {"extract", "ingest"}
  PROVE  LET m == task[w]
             n == Counted(m, call[w].outcome)
             b == Cardinality(Arrived(engrams, m, m.facts \ m.left))
         IN  /\ b \in Nat /\ n \in Int /\ m.left \subseteq m.facts
             /\ m.kind = "ingest" => n <= b
             /\ m.kind = "extract" => n <= b + Cardinality(m.left)
<1> DEFINE m == task[w]
           c == call[w]
           K == m.facts \ m.left
           a == Cardinality(Arrived(engrams, m, K \ {c.k}))
           b == Cardinality(Arrived(engrams, m, K))
           l == Cardinality(m.left)
<1>1. /\ m \in TaskType(DOMAIN engrams) /\ FactSound(engrams, m, c)
      /\ WriteSound(engrams, c) /\ m.pc = "facts" /\ c.pc = "done"
  BY TaskOf DEF FactsSound, WritesSound, NextFact, Back
<1>2. LoopSound(engrams, m, c)
  BY <1>1 DEF FactSound
<1>3. /\ K \in SUBSET Keys /\ K \ {c.k} \in SUBSET Keys /\ m.left \in SUBSET Keys
      /\ m.reported \in Int /\ c.k \in K /\ m.left \subseteq m.facts
      /\ m.facts \ (m.left \cup {c.k}) = K \ {c.k}
  BY <1>1, <1>2 DEF TaskType, LoopSound
<1>4. /\ m.kind = "ingest" => m.reported <= a
      /\ m.kind = "extract" => m.reported <= a + l + 1
  BY <1>2, <1>3 DEF LoopSound
<1>5. l \in Nat
  BY <1>3, FactsFinite
<1>6. c.outcome = "ok" => StoredIn(engrams, m.t, m.u, m.s, c.k)
  BY <1>1, <1>2 DEF WriteSound, LoopSound
<1> HIDE DEF K
<1>7. a \in Nat /\ b \in Nat /\ a <= b
  <2>1. Extends(engrams, engrams) /\ K \ {c.k} \subseteq K
    BY DEF Extends
  <2> QED  BY <1>3, <2>1, ArrivedGrows
<1>8. c.outcome = "ok" => b = a + 1
  <2> HIDE DEF m, c
  <2> QED  BY <1>3, <1>6, ArrivedOne
<1> DEFINE n == Counted(m, c.outcome)
<1>9. /\ m.kind = "ingest" => n = IF c.outcome = "ok" THEN m.reported + 1 ELSE m.reported
      /\ m.kind = "extract" => n = IF c.outcome = "ok" THEN m.reported ELSE m.reported - 1
  BY <1>3 DEF Counted
<1> HIDE DEF a, b, l, n
<1>10. /\ m.kind = "ingest" => n <= b
       /\ m.kind = "extract" => n <= b + l
       /\ n \in Int
  BY <1>3, <1>4, <1>5, <1>7, <1>8, <1>9
<1> QED  BY <1>3, <1>7, <1>10 DEF n, b, l, K

LEMMA NextFactCounts ==
  ASSUME MInv, WritesSound, FactsSound, NEW w \in Workers, NextFact(w)
  PROVE  FactsSound'
<1> DEFINE m == task[w]
           count == Counted(m, call[w].outcome)
           b == Cardinality(Arrived(engrams, m, m.facts \ m.left))
           goal == \E n : Turn(w, n) /\ FactSound(engrams', n, call'[w])
<1>1. /\ m \in TaskType(DOMAIN engrams) /\ m.pc = "facts"
      /\ m.t \in Tenants /\ m.u \in Users /\ m.s \in Sessions
  BY TaskOf DEF NextFact, Back
<1>2. m.kind \in {"extract", "ingest"} =>
        /\ b \in Nat /\ count \in Int /\ m.left \subseteq m.facts
        /\ m.kind = "ingest" => count <= b
        /\ m.kind = "extract" => count <= b + Cardinality(m.left)
  BY CountedBound
<1>3. [Next]_vars /\ \A v \in Workers \ {w} : call'[v] = call[v]
  BY OthersStay DEF Continue
<1>4. ASSUME NEW n, Turn(w, n), FactSound(engrams', n, call'[w]) PROVE goal
  BY <1>4
<1>5. Extends(engrams, engrams')
  BY <1>3, ServerExtends DEF MInv
<1>6. \/ Turn(w, Finished(m, {}, count)) /\ StoreUnchanged /\ m.left = {}
      \/ \E k \in m.left :
           /\ Set(w, m.t, m.u, m.s, k)
           /\ Turn(w, [m EXCEPT !.left = @ \ {k}, !.reported = count])
  BY DEF NextFact
<1> HIDE DEF goal, count
<1>7. ASSUME Turn(w, Finished(m, {}, count)), StoreUnchanged, m.left = {}
      PROVE  goal
  <2> DEFINE n == Finished(m, {}, count)
  <2>1. /\ n.kind = m.kind /\ n.pc = "done" /\ n.facts = m.facts
        /\ n.t = m.t /\ n.u = m.u /\ n.s = m.s /\ n.reported = count
    BY <1>1 DEF Finished, TaskType
  <2>2. m.facts \ m.left = m.facts /\ Cardinality(m.left) = 0
    BY <1>7, FS_EmptySet
  <2>3. Arrived(engrams', n, n.facts) = Arrived(engrams, m, m.facts)
    BY <1>7, <2>1 DEF Arrived, StoreUnchanged
  <2> HIDE DEF n
  <2>4. m.kind \in {"extract", "ingest"} => count <= b
    <3> HIDE DEF b
    <3> QED  BY <1>2, <2>2
  <2>5. FactSound(engrams', n, call'[w])
    BY <2>1, <2>2, <2>3, <2>4 DEF FactSound
  <2> QED  BY <1>4, <1>7, <2>5 DEF n
<1>8. ASSUME NEW k \in m.left, Set(w, m.t, m.u, m.s, k),
             Turn(w, [m EXCEPT !.left = @ \ {k}, !.reported = count])
      PROVE  goal
  <2> DEFINE L == m.left \ {k}
             n == [m EXCEPT !.left = L, !.reported = count]
             d == call'[w]
             K == m.facts \ m.left
  <2>1. /\ d.op = "set" /\ d.t = m.t /\ d.u = m.u /\ d.s = m.s /\ d.k = k
    <3> DEFINE tag == Tagged(k, FALSE)
    <3>1. Write(w, m.t, m.u, m.s, k, tag) /\ tag \in BOOLEAN
      BY <1>8, TagIsBoolean DEF Set
    <3>2. m.u \in TagUsers /\ m.s \in TagSessions /\ k \in Keys /\ IInv
      BY <1>1, AnyCaller DEF MInv, TaskType
    <3> HIDE DEF tag, n, L, K, m
    <3> QED  BY <1>1, <3>1, <3>2, WriteBegins
  <2>2. /\ n.kind = m.kind /\ n.pc = "facts" /\ n.facts = m.facts /\ n.left = L
        /\ n.reported = count /\ n.t = m.t /\ n.u = m.u /\ n.s = m.s
    BY <1>1 DEF TaskType
  <2>3. Turn(w, n)
    BY <1>8
  <2>4. /\ m.facts \in SUBSET Keys /\ m.left \in SUBSET Keys
        /\ L \in SUBSET Keys /\ m.left = L \cup {k} /\ k \notin L
    BY <1>1 DEF TaskType
  <2>5. Cardinality(L) \in Nat /\ Cardinality(m.left) = Cardinality(L) + 1
    <3> HIDE DEF L, m
    <3> QED  BY <2>4, FactsFinite, FS_AddElement
  <2>6. n.facts \ (n.left \cup {d.k}) = K
    BY <2>1, <2>2, <2>4
  <2> DEFINE a == Cardinality(Arrived(engrams', n, K))
  <2>7. b \in Nat /\ a \in Nat /\ b <= a
    <3>1. K \in SUBSET Keys /\ n.t = m.t /\ n.u = m.u /\ n.s = m.s
      BY <2>2, <2>4
    <3> HIDE DEF n, L
    <3> QED  BY <1>5, <3>1, ArrivedGrows
  <2> HIDE DEF n, d, L, a, b
  <2>8. m.kind \in {"extract", "ingest"} =>
          /\ m.kind = "ingest" => count <= a
          /\ m.kind = "extract" => count <= a + Cardinality(L) + 1
    BY <1>2, <2>5, <2>7
  <2>9. m.kind \in {"extract", "ingest"} => LoopSound(engrams', n, d)
    <3> SUFFICES ASSUME m.kind \in {"extract", "ingest"} PROVE LoopSound(engrams', n, d)
      OBVIOUS
    <3>1. n.left \subseteq n.facts /\ d.k \in n.facts \ n.left
      BY <1>2, <2>1, <2>2, <2>4
    <3> QED  BY <2>1, <2>2, <2>6, <2>8, <3>1 DEF LoopSound, a
  <2>10. FactSound(engrams', n, d)
    BY <2>2, <2>9 DEF FactSound
  <2> QED  BY <1>4, <2>3, <2>10 DEF d
<1>9. goal
  BY <1>6, <1>7, <1>8
<1> QED  BY <1>3, <1>9, FactPut DEF goal

(* The other operations are no business of the facts. *)
LEMMA OtherOperationsCount ==
  ASSUME MInv, FactsSound, NEW w \in Workers,
         \/ Activated(w) \/ FallBack(w) \/ Searched(w)
         \/ PurgeCutoff(w) \/ PurgeEntry(w) \/ PurgeCounted(w) \/ PurgeDone(w)
  PROVE  FactsSound'
<1>1. task[w].kind \notin {"extract", "ingest"}
  <2>1. task[w].pc \in {"activated", "searched", "listed", "purge", "purging"}
    BY DEF Activated, FallBack, Searched, PurgeCutoff, PurgeEntry, PurgeCounted,
           PurgeDone, Back
  <2> QED  BY <2>1 DEF FactsSound, FactSound
<1>2. PICK n : Turn(w, n) /\ n.kind = task[w].kind
  BY KindStays DEF Continue
<1>3. [Next]_vars /\ \A v \in Workers \ {w} : call'[v] = call[v]
  BY OthersStay DEF Continue
<1> QED  BY <1>1, <1>2, <1>3, NoFacts, FactPut

LEMMA CallStepCounts ==
  ASSUME MInv, FactsSound, NEW w \in Workers, CallStep(w)
  PROVE  FactsSound'
<1> DEFINE m == task[w]
           n == [m EXCEPT !.entries = Listed(w),
                          !.forgot = IF task[w].kind = "purge" /\ live' # live
                                     THEN @ + 1 ELSE @]
<1>1. m \in TaskType(DOMAIN engrams) /\ FactSound(engrams, m, call[w])
  BY TaskOf DEF FactsSound
<1>2. SameFacts(m, n) /\ Turn(w, n)
  BY <1>1 DEF CallStep, SameFacts, TaskType
<1>3. SameRequest(call[w], call'[w])
  BY StepKeepsRequest DEF CallStep, MInv
<1>4. [Next]_vars /\ \A v \in Workers \ {w} : call'[v] = call[v]
  BY OthersStay DEF Continue
<1>5. Extends(engrams, engrams')
  BY <1>4, ServerExtends DEF MInv
<1> HIDE DEF n
<1>6. FactSound(engrams', n, call'[w])
  BY <1>1, <1>2, <1>3, <1>5, FactCarries
<1> QED  BY <1>2, <1>4, <1>6, FactPut

LEMMA FactsKeep ==
  ASSUME "silent" \notin Faults, MInv, BatchesSound, WritesSound, FactsSound, [ManagerNext]_allVars
  PROVE  FactsSound'
<1>1. ASSUME NEW w \in Workers, ToolCall(w) PROVE FactsSound'
  <2>1. [Next]_vars /\ \A v \in Workers \ {w} : call'[v] = call[v]
    BY <1>1, OthersStay
  <2>2. Turn(w, NoTask) /\ NoTask.kind = "none"
    BY <1>1 DEF ToolCall, NoTask
  <2> QED  BY <2>1, <2>2, NoFacts, FactPut
<1>2. ASSUME NEW w \in Workers, Continue(w) PROVE FactsSound'
  BY <1>2, CallStepCounts, OtherOperationsCount, ExtractCounts, StoredCounts,
     NextFactCounts DEF Continue
<1>3. CASE (Tick /\ UNCHANGED managerVars) \/ UNCHANGED allVars
  BY <1>3 DEF Tick, managerVars, allVars, FactsSound
<1>4. CASE ManagerRestart
  BY <1>4 DEF ManagerRestart, FactsSound, FactSound, NoTask
<1> QED  BY <1>1, <1>2, <1>3, <1>4, OperationCounts DEF ManagerNext

LEMMA BatchInvariance == ManagerSpec => [](MInv /\ BatchesSound /\ WritesSound)
<1>1. ManagerInit => BatchesSound /\ WritesSound
  BY DEF ManagerInit, Init, BatchesSound, BatchSound, WritesSound, WriteSound, Idle
<1>2. MInv /\ BatchesSound /\ WritesSound /\ [ManagerNext]_allVars
        => BatchesSound' /\ WritesSound'
  <2> SUFFICES ASSUME MInv, BatchesSound, WritesSound, [ManagerNext]_allVars
               PROVE  BatchesSound' /\ WritesSound'
    OBVIOUS
  <2>1. [Next]_vars /\ IInv
    BY ManagerStepsStore DEF MInv
  <2> QED  BY <2>1, BatchesKeep, WritesKeep
<1> QED  BY <1>1, <1>2, ManagerInvariance, PTL DEF ManagerSpec

LEMMA FactInvariance ==
  ASSUME "silent" \notin Faults
  PROVE  ManagerSpec => []FactsSound
<1>1. ManagerInit => FactsSound
  BY DEF ManagerInit, FactsSound, FactSound, NoTask
<1>2. MInv /\ BatchesSound /\ WritesSound /\ FactsSound /\ [ManagerNext]_allVars
        => FactsSound'
  BY FactsKeep
<1> QED  BY <1>1, <1>2, BatchInvariance, PTL DEF ManagerSpec

-----------------------------------------------------------------------------
(* Every step keeps ProfileSound. *)

LEMMA ExplainedGrows ==
  ASSUME NEW P, NEW Q, P \subseteq Q
  PROVE  /\ \A t, u, k : Explained(P, t, u, k) => Explained(Q, t, u, k)
         /\ \A c : ProfileCall(P, c) => ProfileCall(Q, c)
         /\ \A E : ProfileEngrams(E, P) => ProfileEngrams(E, Q)
<1>1. \A t, u, k : Explained(P, t, u, k) => Explained(Q, t, u, k)
  BY DEF Explained
<1> QED  BY <1>1 DEF ProfileCall, ProfileEngrams

(* A write with the profile tag needs its concept explained. *)
LEMMA EngramExplained ==
  ASSUME IInv, NEW P, ProfileEngrams(engrams, P), NEW t, NEW u, NEW s, NEW k,
         NEW tag, NEW id, tag => Explained(P, t, u, k),
         ServerWrites(t, u, s, k, tag, id)
  PROVE  ProfileEngrams(engrams', P)
<1>1. CASE engrams' = engrams
  BY <1>1
<1>2. ASSUME NEW at, engrams' = Append(engrams, Engram(t, u, s, k, tag, at))
      PROVE  ProfileEngrams(engrams', P)
  <2> DEFINE e == Engram(t, u, s, k, tag, at)
  <2>1. e.vault = t /\ e.user = u /\ e.key = k /\ e.profile = tag
    BY DEF Engram
  <2> HIDE DEF e
  <2>2. engrams \in Seq(EngramType) /\ engrams' = Append(engrams, e)
    BY <1>2 DEF IInv, GoodServer, e
  <2>3. /\ DOMAIN engrams' = 1..Len(engrams)+1 /\ DOMAIN engrams = 1..Len(engrams)
        /\ engrams'[Len(engrams)+1] = e
        /\ \A i \in 1..Len(engrams) : engrams'[i] = engrams[i]
        /\ Len(engrams) \in Nat
    BY <2>2
  <2>4. \A i \in DOMAIN engrams' : i \in DOMAIN engrams \/ engrams'[i] = e
    BY <2>3
  <2> QED  BY <2>1, <2>3, <2>4 DEF ProfileEngrams
<1> QED  BY <1>1, <1>2 DEF ServerWrites

LEMMA BeginExplained ==
  ASSUME IInv, NEW P, ProfileEngrams(engrams, P), NEW w \in Workers, Begin(w)
  PROVE  ProfileEngrams(engrams', P)
<1> DEFINE goal == ProfileEngrams(engrams', P)
<1>1. ASSUME UNCHANGED engrams PROVE goal
  BY <1>1
<1>2. ASSUME NEW t, NEW u, NEW s, NEW k, NEW tag, NEW id,
             tag => Explained(P, t, u, k), ServerWrites(t, u, s, k, tag, id)
      PROVE  goal
  BY <1>2, EngramExplained
<1> HIDE DEF goal
<1>3. ASSUME NEW t, NEW u, NEW s, NEW k, NEW tag, tag => Explained(P, t, u, k),
             Write(w, t, u, s, k, tag)
      PROVE  goal
  <2>1. UNCHANGED engrams \/ \E id : ServerWrites(t, u, s, k, tag, id)
    BY <1>3 DEF Write
  <2> QED  BY <1>1, <1>2, <1>3, <2>1
<1>4. ASSUME NEW t, NEW u, NEW s, NEW k, Set(w, t, u, s, k) \/ SaveTurn(w, t, u, s, k)
      PROVE  goal
  <2>1. Tagged(k, FALSE) => Explained(P, t, u, k)
    BY DEF Tagged, Explained
  <2> QED  BY <1>3, <1>4, <2>1 DEF Set, SaveTurn
<1>5. ASSUME NEW t, NEW u, NEW s, NEW k, Get(w, t, u, s, k) \/ Delete(w, t, u, s, k)
      PROVE  goal
  BY <1>1, <1>5 DEF Get, Delete
<1>6. ASSUME NEW op, NEW t, NEW u, NEW s, NEW tag, NEW limit,
             Activate(w, op, t, u, s, tag, limit)
      PROVE  goal
  BY <1>1, <1>6 DEF Activate
<1>7. ASSUME NEW t, NEW u, NEW s, NEW tag, List(w, t, u, s, tag) PROVE goal
  BY <1>1, <1>7 DEF List
<1>8. ASSUME NEW t, NEW u, NEW s, NEW K, NEW tag, WriteBatch(w, t, u, s, K, tag)
      PROVE  goal
  BY <1>1, <1>8 DEF WriteBatch
<1>9. goal
  BY <1>4, <1>5, <1>6, <1>7, <1>8 DEF Begin, SetBatch, SetProfile
<1> QED  BY <1>9 DEF goal

LEMMA StepExplained ==
  ASSUME IInv, BatchesSound, NEW P, ProfileEngrams(engrams, P),
         NEW w \in Workers, Step(w), ProfileCall(P, call[w])
  PROVE  /\ ProfileEngrams(engrams', P) /\ ProfileCall(P, call'[w])
<1> DEFINE c == call[w]
           goal == ProfileEngrams(engrams', P)
<1>1. SameRequest(c, call'[w]) /\ (~ InBatch(c) => ~ InBatch(call'[w]))
  BY StepKeepsRequest, NoBatchStep
<1>2. ProfileCall(P, call'[w])
  BY <1>1 DEF ProfileCall, SameRequest
<1>3. ASSUME UNCHANGED engrams PROVE goal
  BY <1>3
<1>4. ASSUME ServeItem(w) PROVE goal
  <2>1. InBatch(c) /\ c.op = "batch" /\ c.chunk \subseteq c.keys
    BY <1>4 DEF ServeItem, InBatch, ProfileCall, BatchesSound, BatchSound
  <2>2. PICK k \in c.chunk :
          \/ UNCHANGED engrams
          \/ \E id : ServerWrites(c.t, c.u, c.s, k, Tagged(k, c.tag), id)
    BY <1>4 DEF ServeItem
  <2>3. Tagged(k, c.tag) => Explained(P, c.t, c.u, k)
    BY <2>1 DEF Tagged, Explained, ProfileCall
  <2> QED  BY <1>3, <2>2, <2>3, EngramExplained
<1> HIDE DEF goal
<1>5. goal
  BY <1>3, <1>4
     DEF Step, CacheOwn, Read, ActivateKey, Forget, DropCache, ListPage,
         CacheItem, ItemsDone, SendChunk, ReceiveResults, CacheResult,
         NextChunk, RequestFails
<1> QED  BY <1>2, <1>5 DEF goal

LEMMA ProfileTaskExtends ==
  ASSUME NEW E, NEW F, Extends(E, F), NEW m \in TaskType(DOMAIN E), NEW n,
         n.kind = m.kind, n.pc = m.pc, n.answer = m.answer,
         NEW c, NEW d, SameRequest(c, d), ProfileTask(E, m, c)
  PROVE  ProfileTask(F, n, d)
<1>1. \A id \in m.answer : F[id] = E[id]
  BY DEF TaskType, Extends
<1> QED  BY <1>1 DEF ProfileTask, SameRequest

LEMMA ProfilePut ==
  ASSUME MInv, ProfileSound, [Next]_vars, NEW w \in Workers, NEW n, Turn(w, n),
         \A v \in Workers \ {w} : call'[v] = call[v],
         profileFacts \subseteq profileFacts',
         ProfileEngrams(engrams', profileFacts'),
         ProfileCall(profileFacts', call'[w]), ProfileTask(engrams', n, call'[w])
  PROVE  ProfileSound'
<1>1. task'[w] = n /\ \A v \in Workers \ {w} : task'[v] = task[v]
  BY DEF MInv, GoodTasks, Turn
<1>2. Extends(engrams, engrams')
  BY ServerExtends DEF MInv
<1>3. ASSUME NEW v \in Workers \ {w}
      PROVE  /\ ProfileCall(profileFacts', call'[v])
             /\ ProfileTask(engrams', task'[v], call'[v])
  <2>1. ProfileCall(profileFacts, call[v]) /\ ProfileTask(engrams, task[v], call[v])
    BY DEF ProfileSound
  <2>2. task[v] \in TaskType(DOMAIN engrams) /\ SameRequest(call[v], call[v])
    BY TaskOf DEF SameRequest
  <2> QED  BY <1>1, <1>2, <2>1, <2>2, ExplainedGrows, ProfileTaskExtends
<1> QED  BY <1>1, <1>3 DEF ProfileSound

(* The calls that write no profile batch. *)
Harmless(d) == (InBatch(d) => d.op = "batch") /\ (d.op = "batch" => ~ d.tag)

LEMMA HarmlessCall ==
  ASSUME NEW P, NEW d, Harmless(d)
  PROVE  ProfileCall(P, d)
BY DEF Harmless, ProfileCall

LEMMA BeginsHarmless ==
  ASSUME MInv, NEW w \in Workers, Begin(w),
         \/ \E op, t, u, s, tag, limit : Activate(w, op, t, u, s, tag, limit)
         \/ \E t, u, s, tag : List(w, t, u, s, tag)
         \/ \E t, u, s, k : Delete(w, t, u, s, k)
         \/ \E t, u, s, K : SetBatch(w, t, u, s, K)
         \/ \E t, u, s, k : Set(w, t, u, s, k)
  PROVE  Harmless(call'[w])
<1> DEFINE goal == Harmless(call'[w])
<1>1. InBatch(call'[w]) => call'[w].op = "batch"
  BY BeginOpens DEF MInv, Opened
<1>2. ASSUME NEW d, Goto(w, d), d.op = "batch" => ~ d.tag PROVE goal
  <2>1. call'[w] = d
    BY <1>2, CallBegun
  <2> QED  BY <1>1, <1>2, <2>1 DEF Harmless
<1> HIDE DEF goal
<1>3. ASSUME NEW op, NEW t, NEW u, NEW s, NEW tag, NEW limit,
             Activate(w, op, t, u, s, tag, limit)
      PROVE  goal
  <2> DEFINE c == [NewCall(op, t, u, s) EXCEPT !.tag = tag, !.limit = limit]
             d(A) == [c EXCEPT !.pc = "items", !.items = A]
             failed == Returned(c, "failed")
  <2>1. op \in {"search", "recall"}
    BY <1>3 DEF Activate
  <2>2. failed.op # "batch" /\ \A A : d(A).op # "batch"
    BY <2>1 DEF Returned, NewCall, Idle
  <2>3. Goto(w, failed) \/ \E A : Goto(w, d(A))
    BY <1>3 DEF Activate
  <2> HIDE DEF c, d, failed
  <2> QED  BY <1>2, <2>2, <2>3
<1>4. ASSUME NEW t, NEW u, NEW s, NEW tag, List(w, t, u, s, tag) PROVE goal
  <2> DEFINE d == [NewCall("list", t, u, s) EXCEPT !.tag = tag, !.pc = "page", !.atStart = live]
  <2>1. d.op = "list" /\ Goto(w, d)
    BY <1>4 DEF List, NewCall, Idle
  <2> HIDE DEF d
  <2> QED  BY <1>2, <2>1
<1>5. ASSUME NEW t, NEW u, NEW s, NEW k, Delete(w, t, u, s, k) PROVE goal
  <2> DEFINE d(id, pc) == [NewCall("delete", t, u, s) EXCEPT !.k = k, !.id = id, !.pc = pc]
  <2>1. (\E id, pc : Goto(w, d(id, pc))) /\ \A id, pc : d(id, pc).op = "delete"
    BY <1>5 DEF Delete, NewCall, Idle
  <2> HIDE DEF d
  <2> QED  BY <1>2, <2>1
<1>6. ASSUME NEW t, NEW u, NEW s, NEW K, SetBatch(w, t, u, s, K) PROVE goal
  <2> DEFINE d == [NewCall("batch", t, u, s) EXCEPT !.tag = FALSE, !.keys = K, !.pc = "send"]
  <2>1. ~ d.tag /\ Goto(w, d)
    BY <1>6 DEF SetBatch, WriteBatch, NewCall, Idle
  <2> HIDE DEF d
  <2> QED  BY <1>2, <2>1
<1>7. ASSUME NEW t, NEW u, NEW s, NEW k, Set(w, t, u, s, k) PROVE goal
  <2> DEFINE c == [NewCall("set", t, u, s) EXCEPT !.k = k]
             d(id) == [c EXCEPT !.pc = "cache", !.id = id]
             failed == Returned(c, "failed")
  <2>1. failed.op # "batch" /\ \A id : d(id).op # "batch"
    BY DEF Returned, NewCall, Idle
  <2>2. Goto(w, failed) \/ \E id : Goto(w, d(id))
    BY <1>7 DEF Set, Write
  <2> HIDE DEF c, d, failed
  <2> QED  BY <1>2, <2>1, <2>2
<1>8. goal
  BY <1>3, <1>4, <1>5, <1>6, <1>7
<1> QED  BY <1>8 DEF goal

(* An operation of another kind that begins or goes on. *)
LEMMA OtherKind ==
  ASSUME MInv, ProfileSound, NEW w \in Workers, NEW n, Turn(w, n),
         n.kind # "profile", Harmless(call'[w]) \/ call' = call,
         Begin(w) \/ UNCHANGED vars, profileFacts \subseteq profileFacts',
         \A v \in Workers \ {w} : call'[v] = call[v]
  PROVE  ProfileSound'
<1>1. ProfileEngrams(engrams, profileFacts')
  BY ExplainedGrows DEF ProfileSound
<1>2. ProfileEngrams(engrams', profileFacts')
  BY <1>1, BeginExplained DEF MInv, vars
<1>3. ProfileCall(profileFacts', call'[w])
  BY HarmlessCall, ExplainedGrows DEF ProfileSound
<1>4. ProfileTask(engrams', n, call'[w])
  BY DEF ProfileTask
<1>5. [Next]_vars
  BY DEF Next
<1> QED  BY <1>2, <1>3, <1>4, <1>5, ProfilePut

LEMMA IngestProfiles ==
  ASSUME MInv, ProfileSound, NEW w \in Workers, NEW t \in Tenants, NEW u \in Users,
         NEW K \in SUBSET Keys, IngestProfile(w, t, u, K), Begin(w)
  PROVE  ProfileSound'
<1> DEFINE m == NewTask("ingest", "stored", t, u, Empty)
           n == [m EXCEPT !.facts = K]
           d == [NewCall("batch", t, u, Empty) EXCEPT
                   !.tag = TRUE, !.keys = K, !.pc = "send"]
           x(k) == [m EXCEPT !.pc = "facts", !.facts = K, !.left = K \ {k}, !.reported = 0]
           y == [m EXCEPT !.pc = "stored", !.facts = K]
<1>1. /\ n.kind = "ingest" /\ y.kind = "ingest" /\ \A k : x(k).kind = "ingest"
      /\ m.t = t /\ m.u = u /\ m.s = Empty
  BY DEF NewTask, NoTask
<1>2. /\ profileFacts \subseteq profileFacts'
      /\ \A k \in K : <<t, u, k>> \in profileFacts'
  BY DEF IngestProfile
<1>3. \A v \in Workers \ {w} : call'[v] = call[v]
  BY OwnCall
<1>4. \/ SetProfile(w, t, u, K) /\ Turn(w, n)
      \/ SetBatch(w, m.t, m.u, m.s, K) /\ Turn(w, y)
      \/ \E k \in K : Set(w, m.t, m.u, m.s, k) /\ Turn(w, x(k))
  BY DEF IngestProfile, StoreFacts
<1> HIDE DEF m, n, x, y
<1>5. ASSUME NEW z, Turn(w, z), z.kind = "ingest", Harmless(call'[w]) PROVE ProfileSound'
  BY <1>2, <1>3, <1>5, OtherKind
<1>6. CASE SetBatch(w, m.t, m.u, m.s, K) /\ Turn(w, y)
  BY <1>1, <1>5, <1>6, BeginsHarmless
<1>7. CASE \E k \in K : Set(w, m.t, m.u, m.s, k) /\ Turn(w, x(k))
  BY <1>1, <1>5, <1>7, BeginsHarmless
<1>8. CASE SetProfile(w, t, u, K) /\ Turn(w, n)
  <2>1. Goto(w, d) /\ engrams' = engrams
    BY <1>8 DEF SetProfile, WriteBatch
  <2>2. d.op = "batch" /\ d.keys = K /\ d.t = t /\ d.u = u
    BY DEF NewCall, Idle
  <2> HIDE DEF d
  <2>3. call'[w] = d
    BY <2>1, CallBegun
  <2>4. ProfileCall(profileFacts', call'[w])
    BY <1>2, <2>2, <2>3 DEF ProfileCall, Explained
  <2>5. ProfileTask(engrams', n, call'[w])
    BY <1>1 DEF ProfileTask
  <2>6. ProfileEngrams(engrams', profileFacts')
    BY <1>2, <2>1, ExplainedGrows DEF ProfileSound
  <2>7. [Next]_vars
    BY DEF Next
  <2> QED  BY <1>2, <1>3, <1>8, <2>4, <2>5, <2>6, <2>7, ProfilePut
<1> QED  BY <1>4, <1>6, <1>7, <1>8

LEMMA RecallProfiles ==
  ASSUME MInv, ProfileSound, NEW w \in Workers, NEW t, NEW u,
         RecallProfile(w, t, u), Begin(w)
  PROVE  ProfileSound'
<1> DEFINE n == NewTask("profile", "searched", t, u, Empty)
           d == [NewCall("list", t, u, Empty) EXCEPT
                   !.tag = TRUE, !.pc = "page", !.atStart = live]
<1>1. /\ n.pc = "searched" /\ n.answer = {} /\ d.tag
  BY DEF NewTask, NoTask, NewCall, Idle
<1>2. Goto(w, d) /\ Turn(w, n) /\ engrams' = engrams /\ profileFacts' = profileFacts
  BY DEF RecallProfile, List
<1> HIDE DEF n, d
<1>3. call'[w] = d
  BY <1>2, CallBegun
<1>4. Harmless(call'[w])
  BY BeginsHarmless DEF RecallProfile
<1>5. ProfileTask(engrams', n, call'[w])
  BY <1>1, <1>3 DEF ProfileTask
<1>6. ProfileEngrams(engrams', profileFacts')
  BY <1>2 DEF ProfileSound
<1>7. [Next]_vars /\ \A v \in Workers \ {w} : call'[v] = call[v]
  BY OwnCall DEF Next
<1> QED  BY <1>2, <1>4, <1>5, <1>6, <1>7, HarmlessCall, ProfilePut

LEMMA OperationProfiles ==
  ASSUME MInv, ProfileSound, NEW w \in Workers, Operation(w)
  PROVE  ProfileSound'
<1>1. PICK t \in Tenants, u \in Users :
        \/ \E s \in Sessions : Recall(w, t, u, s) \/ ExtractAndStoreAsync(w, t, u, s)
        \/ \E K \in SUBSET Keys : IngestProfile(w, t, u, K)
        \/ RecallProfile(w, t, u)
        \/ \E age \in Ages : PurgeOlderThan(w, t, age)
  BY DEF Operation
<1>2. Begin(w) \/ UNCHANGED vars
  BY OperationCalls
<1>3. \A v \in Workers \ {w} : call'[v] = call[v]
  BY OthersStay
<1>4. ASSUME NEW n, Turn(w, n), n.kind # "profile", profileFacts' = profileFacts,
             \/ call' = call
             \/ \E op, x, y, s, tag, limit : Activate(w, op, x, y, s, tag, limit)
             \/ \E x, y, s, tag : List(w, x, y, s, tag)
      PROVE  ProfileSound'
  <2>1. Harmless(call'[w]) \/ call' = call
    BY <1>2, <1>4, BeginsHarmless DEF vars
  <2> QED  BY <1>2, <1>3, <1>4, <2>1, OtherKind
<1>5. ASSUME NEW s \in Sessions, Recall(w, t, u, s) PROVE ProfileSound'
  <2>1. PICK pc : Turn(w, NewTask("recall", pc, t, u, s))
    BY <1>5 DEF Recall
  <2> DEFINE n == NewTask("recall", pc, t, u, s)
  <2>2. n.kind = "recall" /\ Turn(w, n)
    BY <2>1 DEF NewTask, NoTask
  <2>3. /\ profileFacts' = profileFacts
        /\ \E op, x, y, r, tag, limit : Activate(w, op, x, y, r, tag, limit)
    BY <1>5 DEF Recall
  <2> HIDE DEF n
  <2> QED  BY <1>4, <2>2, <2>3
<1>6. ASSUME NEW s, ExtractAndStoreAsync(w, t, u, s) PROVE ProfileSound'
  <2> DEFINE n == NewTask("extract", "extract", t, u, s)
  <2>1. /\ n.kind = "extract" /\ Turn(w, n) /\ profileFacts' = profileFacts
        /\ call' = call
    BY <1>6 DEF ExtractAndStoreAsync, NewTask, NoTask, StoreUnchanged
  <2> HIDE DEF n
  <2> QED  BY <1>4, <2>1
<1>7. ASSUME NEW age, PurgeOlderThan(w, t, age) PROVE ProfileSound'
  <2> DEFINE n == [NewTask("purge", "listed", t, Empty, Empty) EXCEPT !.age = age]
  <2>1. n.kind = "purge" /\ Turn(w, n) /\ profileFacts' = profileFacts
    BY <1>7 DEF PurgeOlderThan, NewTask, NoTask
  <2>2. \E x, y, s, tag : List(w, x, y, s, tag)
    BY <1>7 DEF PurgeOlderThan
  <2> HIDE DEF n
  <2> QED  BY <1>4, <2>1, <2>2
<1>8. ASSUME NEW K \in SUBSET Keys, IngestProfile(w, t, u, K) PROVE ProfileSound'
  <2>1. Empty \in Sessions
    BY <1>8, NamelessCaller DEF IngestProfile, Free
  <2>2. Begin(w)
    <3> DEFINE m == NewTask("ingest", "stored", t, u, Empty)
    <3>1. SetProfile(w, t, u, K) \/ StoreFacts(w, m, K, 0)
      BY <1>8 DEF IngestProfile
    <3>2. m.t = t /\ m.u = u /\ m.s = Empty
      BY NewTaskFields
    <3> HIDE DEF m
    <3> QED  BY <2>1, <3>1, <3>2, StoreFactsBegins DEF Begin
  <2> QED  BY <1>8, <2>2, IngestProfiles
<1>9. ASSUME RecallProfile(w, t, u) PROVE ProfileSound'
  <2>1. Empty \in Sessions
    BY <1>9, NamelessCaller DEF RecallProfile, Free
  <2>2. Begin(w)
    BY <1>9, <2>1 DEF RecallProfile, Begin
  <2> QED  BY <1>9, <2>2, RecallProfiles
<1> QED  BY <1>1, <1>5, <1>6, <1>7, <1>8, <1>9

(* The entries that a profile recall answers were listed by the tag. *)
LEMMA SearchedProfiles ==
  ASSUME MInv, ProfileSound, NEW w \in Workers, Searched(w)
  PROVE  ProfileSound'
<1> DEFINE m == task[w]
           c == call[w]
<1>1. /\ m \in TaskType(DOMAIN engrams) /\ SoundIn(engrams, c)
      /\ ProfileTask(engrams, m, c) /\ ProfileCall(profileFacts, c)
      /\ ProfileEngrams(engrams, profileFacts)
  BY TaskOf DEF ProfileSound
<1>2. PICK A \in SUBSET c.result : Turn(w, Finished(m, A, Cardinality(A)))
  BY DEF Searched
<1>3. /\ m.pc = "searched" /\ engrams' = engrams /\ call' = call
      /\ profileFacts' = profileFacts
  BY DEF Searched, Back, StoreUnchanged
<1> DEFINE n == Finished(m, A, Cardinality(A))
<1>4. n.kind = m.kind /\ n.pc = "done" /\ n.answer = A
  <2> DEFINE r == Cardinality(A)
  <2> HIDE DEF r
  <2> QED  BY <1>1 DEF Finished, TaskType
<1> HIDE DEF n
<1>5. ProfileTask(engrams', n, call'[w])
  <2>1. c.tag => \A id \in A : engrams[id].profile
    BY <1>1 DEF SoundIn, InScope
  <2> QED  BY <1>1, <1>3, <1>4, <2>1 DEF ProfileTask
<1>6. [Next]_vars /\ \A v \in Workers \ {w} : call'[v] = call[v]
  BY OthersStay DEF Continue
<1> QED  BY <1>1, <1>2, <1>3, <1>5, <1>6, ProfilePut DEF n

LEMMA CallStepProfiles ==
  ASSUME MInv, BatchesSound, ProfileSound, NEW w \in Workers, CallStep(w)
  PROVE  ProfileSound'
<1> DEFINE m == task[w]
           n == [m EXCEPT !.entries = Listed(w),
                          !.forgot = IF task[w].kind = "purge" /\ live' # live
                                     THEN @ + 1 ELSE @]
<1>1. m \in TaskType(DOMAIN engrams) /\ ProfileTask(engrams, m, call[w])
  BY TaskOf DEF ProfileSound
<1>2. /\ n.kind = m.kind /\ n.pc = m.pc /\ n.answer = m.answer
      /\ Turn(w, n) /\ profileFacts' = profileFacts
  BY <1>1 DEF CallStep, TaskType
<1>3. SameRequest(call[w], call'[w])
  BY StepKeepsRequest DEF CallStep, MInv
<1>4. [Next]_vars /\ \A v \in Workers \ {w} : call'[v] = call[v]
  BY OthersStay DEF Continue
<1>5. Extends(engrams, engrams')
  BY <1>4, ServerExtends DEF MInv
<1>6. ProfileEngrams(engrams', profileFacts) /\ ProfileCall(profileFacts, call'[w])
  BY StepExplained DEF ProfileSound, MInv, CallStep
<1> HIDE DEF n
<1>7. ProfileTask(engrams', n, call'[w])
  BY <1>1, <1>2, <1>3, <1>5, ProfileTaskExtends
<1> QED  BY <1>2, <1>4, <1>6, <1>7, ProfilePut

LEMMA ContinueProfiles ==
  ASSUME MInv, ProfileSound, NEW w \in Workers, Continue(w),
         ~ CallStep(w), ~ Searched(w)
  PROVE  ProfileSound'
<1>1. PICK n : Turn(w, n) /\ n.kind = task[w].kind
  BY KindStays
<1>2. task[w].kind # "profile"
  <2>1. task[w].pc \in {"activated", "extract", "stored", "facts", "listed",
                        "purge", "purging"}
    BY DEF Continue, Activated, FallBack, Extract, Stored, NextFact, PurgeCutoff,
           PurgeEntry, PurgeCounted, PurgeDone, Back
  <2> QED  BY <2>1 DEF ProfileSound, ProfileTask
<1> DEFINE begins == \/ \E op, t, u, s, tag, limit : Activate(w, op, t, u, s, tag, limit)
                     \/ \E t, u, s, tag : List(w, t, u, s, tag)
                     \/ \E t, u, s, k : Delete(w, t, u, s, k)
                     \/ \E t, u, s, K : SetBatch(w, t, u, s, K)
                     \/ \E t, u, s, k : Set(w, t, u, s, k)
<1>3. StoreUnchanged \/ begins
  <2>1. CASE Activated(w) \/ Stored(w) \/ PurgeCutoff(w) \/ PurgeCounted(w) \/ PurgeDone(w)
    BY <2>1 DEF Activated, Stored, PurgeCutoff, PurgeCounted, PurgeDone
  <2>2. CASE FallBack(w)
    BY <2>2 DEF FallBack
  <2>3. CASE Extract(w) \/ NextFact(w)
    BY <2>3 DEF Extract, StoreFacts, NextFact
  <2>4. CASE PurgeEntry(w)
    BY <2>4 DEF PurgeEntry, DeleteEntry
  <2> QED  BY <2>1, <2>2, <2>3, <2>4 DEF Continue
<1>4. Begin(w) \/ UNCHANGED vars
  <2>1. call[w].pc = "done"
    BY DEF Continue, Activated, FallBack, Extract, Stored, NextFact, PurgeCutoff,
           PurgeEntry, PurgeCounted, PurgeDone, Back
  <2> QED  BY <2>1, DoneRests, ContinueCalls
<1>5. call' = call \/ Harmless(call'[w])
  BY <1>3, <1>4, BeginsHarmless DEF StoreUnchanged, vars
<1>6. profileFacts' = profileFacts
  BY DEF Continue, Activated, FallBack, Extract, Stored, NextFact, PurgeCutoff,
         PurgeEntry, PurgeCounted, PurgeDone
<1>7. \A v \in Workers \ {w} : call'[v] = call[v]
  BY OthersStay
<1> QED  BY <1>1, <1>2, <1>4, <1>5, <1>6, <1>7, OtherKind

LEMMA ProfilesKeep ==
  ASSUME "batch" \notin ToolCalls, MInv, BatchesSound, ProfileSound,
         [ManagerNext]_allVars
  PROVE  ProfileSound'
<1>1. ASSUME NEW w \in Workers, ToolCall(w) PROVE ProfileSound'
  <2>1. /\ Begin(w) /\ call'[w].op # "batch" /\ Turn(w, NoTask)
        /\ profileFacts' = profileFacts
    BY <1>1 DEF ToolCall
  <2>2. Harmless(call'[w])
    BY <2>1, BeginOpens DEF MInv, Opened, Harmless
  <2>3. NoTask.kind # "profile"
    BY DEF NoTask
  <2>4. \A v \in Workers \ {w} : call'[v] = call[v]
    BY <1>1, OthersStay
  <2> QED  BY <2>1, <2>2, <2>3, <2>4, OtherKind
<1>2. ASSUME NEW w \in Workers, Continue(w) PROVE ProfileSound'
  BY <1>2, CallStepProfiles, SearchedProfiles, ContinueProfiles
<1>3. CASE (Tick /\ UNCHANGED managerVars) \/ UNCHANGED allVars
  BY <1>3 DEF Tick, managerVars, allVars, ProfileSound
<1>4. CASE ManagerRestart
  <2>1. /\ engrams' = engrams /\ profileFacts' = profileFacts
        /\ \A w \in Workers : call'[w] = Idle /\ task'[w] = NoTask
    BY <1>4 DEF ManagerRestart, Restart
  <2>2. \A E, P : ProfileCall(P, Idle) /\ ProfileTask(E, NoTask, Idle)
    BY DEF ProfileCall, ProfileTask, Idle, NoTask, InBatch
  <2> QED  BY <2>1, <2>2 DEF ProfileSound
<1> QED  BY <1>1, <1>2, <1>3, <1>4, OperationProfiles DEF ManagerNext

LEMMA ProfileInvariance ==
  ASSUME "batch" \notin ToolCalls
  PROVE  ManagerSpec => [](MInv /\ ProfileSound)
<1>1. ManagerInit => ProfileSound
  <2> SUFFICES ASSUME ManagerInit PROVE ProfileSound
    OBVIOUS
  <2>1. /\ engrams = <<>>
        /\ \A w \in Workers : call[w] = Idle /\ task[w] = NoTask
    BY DEF ManagerInit, Init
  <2>2. \A E, P : ProfileCall(P, Idle) /\ ProfileTask(E, NoTask, Idle)
    BY DEF ProfileCall, ProfileTask, Idle, NoTask, InBatch
  <2> QED  BY <2>1, <2>2 DEF ProfileSound, ProfileEngrams
<1>2. MInv /\ BatchesSound /\ ProfileSound /\ [ManagerNext]_allVars => ProfileSound'
  BY ProfilesKeep
<1> QED  BY <1>1, <1>2, BatchInvariance, PTL DEF ManagerSpec

-----------------------------------------------------------------------------
(* The theorems. *)

(* OnExtract (http.go) and ingestion hear of no more facts than reached    *)
(* the server under the caller's user and session: for any facts, any size *)
(* of a batch, any writes refused and any answers lost, with other         *)
(* goroutines storing and forgetting in between; if the server does not    *)
(* pass over items of a batch in silence.                                  *)
THEOREM ReportsOnlyStored ==
  ASSUME "silent" \notin Faults
  PROVE  ManagerSpec => []ReportedAreStored
<1>1. FactsSound => ReportedAreStored
  <2> SUFFICES ASSUME FactsSound, NEW w \in Workers,
                      task[w].kind \in {"extract", "ingest"}, task[w].pc = "done"
               PROVE  task[w].reported
                        <= Cardinality({k \in task[w].facts : Reached(task[w], k)})
    BY DEF ReportedAreStored
  <2>1. task[w].reported <= Cardinality(Arrived(engrams, task[w], task[w].facts))
    BY DEF FactsSound, FactSound
  <2>2. Arrived(engrams, task[w], task[w].facts)
          = {k \in task[w].facts : Reached(task[w], k)}
    BY DEF Arrived, StoredIn, Reached, Ids
  <2> QED  BY <2>1, <2>2
<1> QED  BY <1>1, FactInvariance, PTL

(* Every entry that RecallProfile answers was given to IngestProfile for   *)
(* its user, or has "profile" for its key prefix, which TagsForKey turns   *)
(* into the tag (muninn_store.go): the tools never write batches, and      *)
(* nothing else tags.                                                      *)
THEOREM ProfileRecallExplained ==
  ASSUME "batch" \notin ToolCalls
  PROVE  ManagerSpec =>
           [](\A w \in Workers :
                task[w].kind = "profile" =>
                  \A id \in task[w].answer :
                    Explained(profileFacts, task[w].t, engrams[id].user, engrams[id].key))
<1> DEFINE explained ==
             \A w \in Workers :
               task[w].kind = "profile" =>
                 \A id \in task[w].answer :
                   Explained(profileFacts, task[w].t, engrams[id].user, engrams[id].key)
<1>1. MInv /\ ProfileSound => explained
  <2> SUFFICES ASSUME MInv, ProfileSound, NEW w \in Workers,
                      task[w].kind = "profile", NEW id \in task[w].answer
               PROVE  Explained(profileFacts, task[w].t, engrams[id].user, engrams[id].key)
    OBVIOUS
  <2>1. id \in DOMAIN engrams /\ engrams[id].vault = task[w].t
    BY TaskOf DEF MInv, GoodTasks, GoodTask, TaskType
  <2>2. engrams[id].profile
    BY DEF ProfileSound, ProfileTask
  <2> QED  BY <2>1, <2>2 DEF ProfileSound, ProfileEngrams
<1> QED  BY <1>1, ProfileInvariance, PTL

(* As long as no concept has that prefix, a profile recall answers only    *)
(* what was ingested: no fact extracted from a conversation, under any     *)
(* interleaving, with any store.                                           *)
THEOREM ProfileRecallIngested ==
  ASSUME "batch" \notin ToolCalls, ProfileKeys = {}
  PROVE  ManagerSpec => []ProfileRecallOnlyIngested
<1> DEFINE explained ==
             \A w \in Workers :
               task[w].kind = "profile" =>
                 \A id \in task[w].answer :
                   Explained(profileFacts, task[w].t, engrams[id].user, engrams[id].key)
<1>1. explained => ProfileRecallOnlyIngested
  BY DEF Explained, ProfileRecallOnlyIngested
<1>2. ManagerSpec => []explained
  BY ProfileRecallExplained
<1> QED  BY <1>1, <1>2, PTL
=============================================================================
