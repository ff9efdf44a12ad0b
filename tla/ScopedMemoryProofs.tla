-------------------------- MODULE ScopedMemoryProofs --------------------------
(***************************************************************************)
(* MuninnStore implements ScopedMemory, for every set of tenants, users,   *)
(* sessions, concepts and goroutines and with every fault: each step of    *)
(* the store is some work on one request of the scoped memory, the         *)
(* asking of one, a restart, or no step of it at all.                      *)
(***************************************************************************)
EXTENDS MemoryManagerProofs

-----------------------------------------------------------------------------
(* Entries, and what is answered of them. *)

LEMMA EntryStays ==
  ASSUME IInv, [Next]_vars, NEW id \in Ids
  PROVE  EntryOf(id)' = EntryOf(id) /\ id \in Ids'
BY ServerExtends DEF EntryOf, Extends, Ids

LEMMA EntriesDiffer ==
  ASSUME NEW i, NEW j, EntryOf(i) = EntryOf(j)
  PROVE  i = j
BY DEF EntryOf

LEMMA AnsweredKnown ==
  ASSUME IInv, NEW w \in Workers
  PROVE  Answered(call[w]) \subseteq Ids
<1>1. GoodCall(engrams, call[w])
  BY CallAt
<1>2. call[w].items \cup call[w].result \subseteq Ids
  BY <1>1 DEF GoodCall, CallType, Ids
<1>3. call[w].pc = "cache" => call[w].id \in Ids
  BY <1>1 DEF GoodCall, SoundIn, FitsIn, Ids
<1> QED  BY <1>2, <1>3 DEF Answered

(* A live engram that a request for r's concepts may be answered. *)
Suits(id, r) ==
  /\ id \in live
  /\ engrams[id].vault = r.t
  /\ engrams[id].key \in r.keys
  /\ InScope(engrams[id], r.u, r.s, r.tag)

LEMMA SuitsMatches ==
  ASSUME NEW id, NEW r, Suits(id, r)
  PROVE  EntryOf(id) \in Memory!Matching(r)
<1>1. EntryOf(id) \in {EntryOf(j) : j \in live}
  BY DEF Suits
<1>2. /\ EntryOf(id).vault = r.t /\ EntryOf(id).key \in r.keys
      /\ r.u # Empty => EntryOf(id).user = r.u
      /\ r.s # Empty => EntryOf(id).session = r.s
      /\ r.tag => EntryOf(id).profile
  BY DEF Suits, InScope, EntryOf
<1> QED  BY <1>1, <1>2 DEF Memory!Matching

-----------------------------------------------------------------------------
(* Shapes of a step. *)

Stays(w) == \A v \in Workers \ {w} : call'[v] = call[v]

LEMMA OthersWaiting ==
  ASSUME IInv, [Next]_vars, NEW w \in Workers, Stays(w)
  PROVE  Memory!OthersWait(w)
<1> SUFFICES ASSUME NEW v \in Workers \ {w}
             PROVE  /\ Unsettled(call'[v]) = Unsettled(call[v])
                    /\ {EntryOf(id)' : id \in Answered(call'[v])}
                         = {EntryOf(id) : id \in Answered(call[v])}
                    /\ RequestOf(call'[v]) = RequestOf(call[v])
                    /\ (call'[v].pc # "done") <=> (call[v].pc # "done")
  BY DEF Memory!OthersWait
<1>1. call'[v] = call[v]
  BY DEF Stays
<1>2. \A id \in Answered(call[v]) : EntryOf(id)' = EntryOf(id)
  BY AnsweredKnown, EntryStays
<1> QED  BY <1>1, <1>2

(* Some work on the request of a call in flight. *)
LEMMA Continues ==
  ASSUME IInv, NEW w \in Workers, Step(w), NEW d, Goto(w, d),
         Unsettled(d) \subseteq Unsettled(call[w]),
         \A id \in Answered(d) :
           \/ id \in Answered(call[w])
           \/ /\ RequestOf(call[w]).kind = "read"
              /\ Suits(id, RequestOf(call[w])),
         \/ UNCHANGED <<engrams, live>>
         \/ \E k \in Unsettled(call[w]) \ Unsettled(d) :
              \/ Memory!Store(RequestOf(call[w]), k)
              \/ Memory!Delete(RequestOf(call[w]), k)
  PROVE  Memory!Continue(w)
<1> DEFINE r == RequestOf(call[w])
<1>0. [Next]_vars /\ call[w].pc # "done"
  BY DoneRests DEF Next
<1>1. call'[w] = d /\ Stays(w) /\ RequestOf(d) = r
  BY CallGoes, StepKeepsRequest DEF Stays, SameRequest, RequestOf
<1>2. Memory!OthersWait(w)
  BY <1>0, <1>1, OthersWaiting
<1>3. ASSUME NEW id \in Answered(d)
      PROVE  \/ EntryOf(id)' \in {EntryOf(j) : j \in Answered(call[w])}
             \/ r.kind = "read" /\ EntryOf(id)' \in Memory!Matching(r)
  <2>1. id \in Ids
    BY AnsweredKnown DEF Suits, IInv, GoodServer, Ids
  <2> QED  BY <1>0, <2>1, EntryStays, SuitsMatches
<1>4. {EntryOf(id)' : id \in Answered(d)}
        \subseteq {EntryOf(j) : j \in Answered(call[w])}
                    \cup IF r.kind = "read" THEN Memory!Matching(r) ELSE {}
  BY <1>3
<1>5. UNCHANGED <<engrams, live>>
        => UNCHANGED <<{EntryOf(id) : id \in Ids}, {EntryOf(id) : id \in live}>>
  BY DEF EntryOf, Ids
<1> QED  BY <1>0, <1>1, <1>2, <1>4, <1>5 DEF Memory!Continue, Memory!Work

(* A call that begins. *)
LEMMA Asks ==
  ASSUME IInv, [Next]_vars, NEW w \in Workers, NEW d, Goto(w, d),
         call[w].pc = "done", d.t \in Tenants,
         RequestOf(d).kind \in {"write", "delete", "read"},
         RequestOf(d).keys \subseteq Keys,
         Unsettled(d) \subseteq RequestOf(d).keys,
         \A id \in Answered(d) :
           RequestOf(d).kind = "read" /\ Suits(id, RequestOf(d)),
         \/ UNCHANGED <<engrams, live>>
         \/ \E k \in RequestOf(d).keys \ Unsettled(d) :
              Memory!Store(RequestOf(d), k) \/ Memory!Delete(RequestOf(d), k)
  PROVE  Memory!Ask(w)
<1> DEFINE r == RequestOf(d)
<1>1. call'[w] = d /\ Stays(w)
  BY CallGoes DEF Stays
<1>2. Memory!OthersWait(w)
  BY <1>1, OthersWaiting
<1>3. ASSUME NEW id \in Answered(d)
      PROVE  r.kind = "read" /\ EntryOf(id)' \in Memory!Matching(r)
  <2>1. id \in Ids
    BY DEF Suits, IInv, GoodServer, Ids
  <2> QED  BY <2>1, EntryStays, SuitsMatches
<1>4. {EntryOf(id)' : id \in Answered(d)}
        \subseteq {} \cup IF r.kind = "read" THEN Memory!Matching(r) ELSE {}
  BY <1>3
<1>5. UNCHANGED <<engrams, live>>
        => UNCHANGED <<{EntryOf(id) : id \in Ids}, {EntryOf(id) : id \in live}>>
  BY DEF EntryOf, Ids
<1>6. r \in [kind : {"write", "delete", "read"}, t : Tenants, u : TagUsers,
             s : TagSessions, tag : BOOLEAN, keys : SUBSET Keys]
  <2>1. d \in CallType(DOMAIN engrams')
    BY <1>1, NextKeeps DEF IInv, GoodCalls
  <2> QED  BY <2>1 DEF RequestOf, CallType
<1> QED  BY <1>1, <1>2, <1>4, <1>5, <1>6 DEF Memory!Ask, Memory!Work
-----------------------------------------------------------------------------
(* What the server does to the entries. *)

LEMMA WriteStores ==
  ASSUME IInv, [Next]_vars, NEW t \in Tenants, NEW u \in TagUsers,
         NEW s \in TagSessions, NEW k \in Keys, NEW tag, NEW id,
         ServerWrites(t, u, s, k, tag, id),
         NEW r, r.kind = "write", r.t = t, r.u = u, r.s = s, tag \in {TRUE, r.tag}
  PROVE  UNCHANGED <<engrams, live>> \/ Memory!Store(r, k)
<1>1. CASE UNCHANGED <<engrams, live>>
  BY <1>1
<1>2. ASSUME NEW at \in Stamps,
             Len(engrams) < MaxEngrams,
             id = Len(engrams) + 1,
             engrams' = Append(engrams, Engram(t, u, s, k, tag, at)),
             live' = live \cup {id}
      PROVE  Memory!Store(r, k)
  <2>1. engrams \in Seq(EngramType) /\ live \subseteq Ids
    BY DEF IInv, GoodServer, Ids
  <2>2. Len(engrams) \in Nat /\ MaxEngrams \in Nat
    BY <2>1, LenProperties, ConstantsAssumption
  <2>3. /\ Ids = 1..Len(engrams) /\ Ids' = Ids \cup {id}
        /\ id \in 1..MaxEngrams /\ id \notin Ids
    BY <1>2, <2>1, <2>2 DEF Ids
  <2>4. EntryOf(id)' = Memory!Entry(id, r, k, tag)
    <3>1. engrams'[id] = Engram(t, u, s, k, tag, at)
      BY <1>2, <2>1, <2>2
    <3> QED  BY <3>1 DEF EntryOf, Engram, Memory!Entry
  <2>5. \A j \in Ids : EntryOf(j)' = EntryOf(j)
    BY EntryStays
  <2>6. /\ {EntryOf(j)' : j \in Ids'}
             = {EntryOf(j) : j \in Ids} \cup {Memory!Entry(id, r, k, tag)}
        /\ {EntryOf(j)' : j \in live'}
             = {EntryOf(j) : j \in live} \cup {Memory!Entry(id, r, k, tag)}
    BY <1>2, <2>1, <2>3, <2>4, <2>5
  <2>7. id \in 1..MaxEngrams \ {e.id : e \in {EntryOf(j) : j \in Ids}}
    BY <2>3 DEF EntryOf
  <2> QED  BY <2>6, <2>7 DEF Memory!Store
<1> QED  BY <1>1, <1>2 DEF ServerWrites

LEMMA ForgetDeletes ==
  ASSUME IInv, [Next]_vars, NEW id \in live, live' = live \ {id}, UNCHANGED engrams,
         NEW r, r.kind = "delete", Suits(id, r)
  PROVE  Memory!Delete(r, engrams[id].key)
<1>1. \A j : EntryOf(j)' = EntryOf(j)
  BY DEF EntryOf
<1>2. EntryOf(id) \in Memory!Matching(r) /\ EntryOf(id).key = engrams[id].key
  BY SuitsMatches DEF EntryOf
<1>3. {EntryOf(j)' : j \in live'} = {EntryOf(j) : j \in live} \ {EntryOf(id)}
  BY <1>1, EntriesDiffer
<1>4. {EntryOf(j)' : j \in Ids'} = {EntryOf(j) : j \in Ids}
  BY <1>1 DEF Ids
<1> QED  BY <1>2, <1>3, <1>4 DEF Memory!Delete

LEMMA ScopeSuits ==
  ASSUME IInv, NEW t, NEW u, NEW s, NEW tag, NEW id \in Scope(t, u, s, tag),
         NEW r, r.t = t, r.u = u, r.s = s, r.tag = tag,
         engrams[id].key \in r.keys
  PROVE  Suits(id, r)
BY DEF Scope, Vault, Suits

LEMMA KeyKnown ==
  ASSUME IInv, NEW id \in Ids
  PROVE  engrams[id].key \in Keys
<1>1. engrams \in Seq(EngramType) /\ id \in DOMAIN engrams
  BY DEF IInv, GoodServer, Ids
<1>2. engrams[id] \in EngramType
  BY <1>1
<1> QED  BY <1>2 DEF EngramType

-----------------------------------------------------------------------------
(* Calls that begin. *)

(* What a new call asks, whatever its pc, cached id, mark or answer. *)
LEMMA NewRequest ==
  ASSUME NEW op, NEW t, NEW u, NEW s
  PROVE  /\ NewCall(op, t, u, s).op = op /\ NewCall(op, t, u, s).t = t
         /\ NewCall(op, t, u, s).u = u /\ NewCall(op, t, u, s).s = s
         /\ NewCall(op, t, u, s).tag = FALSE
         /\ NewCall(op, t, u, s).items = {} /\ NewCall(op, t, u, s).result = {}
         /\ NewCall(op, t, u, s).sent = {} /\ NewCall(op, t, u, s).chunk = {}
BY DEF NewCall, Idle

LEMMA WriteAsks ==
  ASSUME IInv, [Next]_vars, NEW w \in Workers, NEW t \in Tenants,
         NEW u \in TagUsers, NEW s \in TagSessions, NEW k \in Keys,
         NEW tag \in BOOLEAN, Write(w, t, u, s, k, tag)
  PROVE  Memory!Ask(w)
<1> DEFINE c == [NewCall("set", t, u, s) EXCEPT !.k = k]
           d(id) == [c EXCEPT !.pc = "cache", !.id = id]
           e == Returned(c, "failed")
           plain(x) ==
             /\ RequestOf(x) = [kind |-> "write", t |-> t, u |-> u, s |-> s,
                                tag |-> FALSE, keys |-> {k}]
             /\ x.t = t /\ Unsettled(x) = {} /\ Answered(x) = {}
<1>1. plain(e) /\ \A id : plain(d(id))
  BY DEF NewCall, Idle, Returned, RequestOf, Kind, Unsettled, Answered
<1>2. /\ call[w].pc = "done"
      /\ \/ UNCHANGED <<engrams, live>>
         \/ \E id : ServerWrites(t, u, s, k, tag, id)
      /\ Goto(w, e) \/ \E id : Goto(w, d(id))
  BY DEF Write, Ready
<1> HIDE DEF d, e
<1>3. ASSUME NEW x, plain(x), Goto(w, x) PROVE Memory!Ask(w)
  <2> DEFINE r == RequestOf(x)
  <2>1. /\ r.kind = "write" /\ r.t = t /\ r.u = u /\ r.s = s /\ r.tag = FALSE
        /\ r.keys = {k} /\ x.t = t /\ Unsettled(x) = {} /\ Answered(x) = {}
    BY <1>3
  <2> HIDE DEF r, plain
  <2>2. tag \in {TRUE, r.tag}
    BY <2>1
  <2>3. UNCHANGED <<engrams, live>> \/ Memory!Store(r, k)
    BY <1>2, <2>1, <2>2, WriteStores
  <2> QED  BY <1>2, <1>3, <2>1, <2>3, Asks DEF r
<1> QED  BY <1>1, <1>2, <1>3

LEMMA LookupAsks ==
  ASSUME IInv, [Next]_vars, NEW w \in Workers, NEW t \in Tenants,
         NEW u \in TagUsers, NEW s \in TagSessions, NEW k \in Keys,
         Get(w, t, u, s, k) \/ Delete(w, t, u, s, k)
  PROVE  Memory!Ask(w)
<1> DEFINE id == LookupIDCache(t, u, s, k)
           next(hit) == IF id # NoId THEN hit ELSE "activate"
           d(op, pc) == [NewCall(op, t, u, s) EXCEPT !.k = k, !.id = id, !.pc = pc]
<1>0. Goto(w, d("get", next("read"))) \/ Goto(w, d("delete", next("forget")))
  BY DEF Get, Delete
<1>1. PICK op \in {"get", "delete"}, pc \in {"read", "forget", "activate"} :
        Goto(w, d(op, pc))
  <2> HIDE DEF d
  <2> QED  BY <1>0
<1>2. call[w].pc = "done" /\ UNCHANGED <<engrams, live>>
  BY DEF Get, Delete, Ready
<1> DEFINE x == d(op, pc)
<1>3. /\ x.op = op /\ x.t = t /\ x.u = u /\ x.s = s /\ x.k = k /\ x.tag = FALSE
      /\ x.pc = pc /\ x.items = {} /\ x.result = {}
  BY DEF NewCall, Idle
<1> HIDE DEF d, x
<1>4. Answered(x) = {} /\ Unsettled(x) \subseteq {k}
  BY <1>3 DEF Answered, Unsettled
<1>5. RequestOf(x).keys = {k} /\ RequestOf(x).kind \in {"delete", "read"}
  BY <1>3 DEF RequestOf, Kind
<1> QED  BY <1>1, <1>2, <1>3, <1>4, <1>5, Asks DEF x

LEMMA ActivateAsks ==
  ASSUME IInv, [Next]_vars, NEW w \in Workers, NEW op, NEW t \in Tenants,
         NEW u, NEW s, NEW tag, NEW limit, Activate(w, op, t, u, s, tag, limit)
  PROVE  Memory!Ask(w)
<1> DEFINE c == [NewCall(op, t, u, s) EXCEPT !.tag = tag, !.limit = limit]
           d(A) == [NewCall(op, t, u, s) EXCEPT
                      !.tag = tag, !.limit = limit, !.pc = "items", !.items = A]
           e == Returned(c, "failed")
           asks(x) == RequestOf(x) = [kind |-> "read", t |-> t, u |-> u, s |-> s,
                                      tag |-> tag, keys |-> Keys]
<1>1. /\ op \in {"search", "recall"} /\ call[w].pc = "done"
      /\ UNCHANGED <<engrams, live>>
      /\ Goto(w, e) \/ \E A \in SUBSET Scope(t, u, s, tag) : Goto(w, d(A))
  BY DEF Activate, Ready, Activations
<1>2. e.t = t /\ asks(e) /\ Unsettled(e) = {} /\ Answered(e) = {}
  BY <1>1 DEF NewCall, Idle, Returned, RequestOf, Kind, Unsettled, Answered
<1>3. ASSUME NEW A
      PROVE  d(A).t = t /\ asks(d(A)) /\ Unsettled(d(A)) = {} /\ Answered(d(A)) = A
  BY <1>1 DEF NewCall, Idle, RequestOf, Kind, Unsettled, Answered
<1> HIDE DEF d, e
<1>4. ASSUME NEW x, NEW A \in SUBSET Scope(t, u, s, tag), x.t = t, asks(x),
             Unsettled(x) = {}, Answered(x) = A, Goto(w, x)
      PROVE  Memory!Ask(w)
  <2>1. ASSUME NEW id \in A PROVE Suits(id, RequestOf(x))
    <3>1. id \in Ids
      BY <1>4 DEF Scope, Vault, IInv, GoodServer, Ids
    <3> QED  BY <1>4, <3>1, KeyKnown, ScopeSuits
  <2> QED  BY <1>1, <1>4, <2>1, Asks
<1> QED  BY <1>1, <1>2, <1>3, <1>4

LEMMA ListAsks ==
  ASSUME IInv, [Next]_vars, NEW w \in Workers, NEW t \in Tenants, NEW u, NEW s,
         NEW tag, List(w, t, u, s, tag)
  PROVE  Memory!Ask(w)
<1> DEFINE d == [NewCall("list", t, u, s) EXCEPT
                   !.tag = tag, !.pc = "page", !.atStart = live]
<1>1. call[w].pc = "done" /\ UNCHANGED <<engrams, live>> /\ Goto(w, d)
  BY DEF List, Ready
<1>2. /\ d.t = t /\ Unsettled(d) = {} /\ Answered(d) = {}
      /\ RequestOf(d).kind = "read" /\ RequestOf(d).keys = Keys
  BY DEF NewCall, Idle, RequestOf, Kind, Unsettled, Answered
<1> HIDE DEF d
<1> QED  BY <1>1, <1>2, Asks

LEMMA BatchAsks ==
  ASSUME IInv, [Next]_vars, NEW w \in Workers, NEW t \in Tenants, NEW u, NEW s,
         NEW K \in SUBSET Keys, NEW tag, WriteBatch(w, t, u, s, K, tag)
  PROVE  Memory!Ask(w)
<1> DEFINE d == [NewCall("batch", t, u, s) EXCEPT
                   !.tag = tag, !.keys = K, !.pc = "send"]
<1>1. call[w].pc = "done" /\ UNCHANGED <<engrams, live>> /\ Goto(w, d)
  BY DEF WriteBatch, Ready
<1>2. /\ d.t = t /\ Unsettled(d) = K /\ Answered(d) = {}
      /\ RequestOf(d).kind = "write" /\ RequestOf(d).keys = K
  BY DEF NewCall, Idle, RequestOf, Kind, Unsettled, Answered
<1> HIDE DEF d
<1> QED  BY <1>1, <1>2, Asks

LEMMA BeginAsks ==
  ASSUME IInv, [Next]_vars, NEW w \in Workers, Begin(w)
  PROVE  Memory!Ask(w)
<1>1. PICK t \in Tenants, u \in Users, s \in Sessions :
        \/ \E k \in Keys : Set(w, t, u, s, k) \/ SaveTurn(w, t, u, s, k)
                             \/ Get(w, t, u, s, k) \/ Delete(w, t, u, s, k)
        \/ \E op \in {"search", "recall"}, tag \in BOOLEAN, limit \in Limits :
             Activate(w, op, t, u, s, tag, limit)
        \/ \E tag \in BOOLEAN : List(w, t, u, s, tag)
        \/ \E K \in SUBSET Keys : SetBatch(w, t, u, s, K) \/ SetProfile(w, t, u, K)
  BY DEF Begin
<1>2. u \in TagUsers /\ s \in TagSessions
  BY DEF TagUsers, TagSessions
<1>3. ASSUME NEW k \in Keys, Set(w, t, u, s, k) \/ SaveTurn(w, t, u, s, k)
      PROVE  Memory!Ask(w)
  <2>1. Tagged(k, FALSE) \in BOOLEAN
    BY TagIsBoolean
  <2> QED  BY <1>2, <1>3, <2>1, WriteAsks DEF Set, SaveTurn
<1>4. ASSUME NEW k \in Keys, Get(w, t, u, s, k) \/ Delete(w, t, u, s, k)
      PROVE  Memory!Ask(w)
  BY <1>2, <1>4, LookupAsks
<1>5. ASSUME NEW K \in SUBSET Keys, SetBatch(w, t, u, s, K) \/ SetProfile(w, t, u, K)
      PROVE  Memory!Ask(w)
  BY <1>5, BatchAsks DEF SetBatch, SetProfile
<1> QED  BY <1>1, <1>3, <1>4, <1>5, ActivateAsks, ListAsks
-----------------------------------------------------------------------------
(* Only batches send chunks, and no Delete filters by the profile tag. *)

WellAsked(c) ==
  /\ InBatch(c) => c.op = "batch"
  /\ c.op = "delete" => ~c.tag

AllWellAsked == \A w \in Workers : WellAsked(call[w])

LEMMA WellAskedKept ==
  ASSUME IInv, AllWellAsked, [Next]_vars
  PROVE  AllWellAsked'
<1> DEFINE good(v) == WellAsked(call'[v])
<1>1. ASSUME NEW w \in Workers, Step(w), NEW v \in Workers PROVE good(v)
  <2>1. CASE v = w
    BY <1>1, <2>1, NoBatchStep, StepKeepsRequest
       DEF AllWellAsked, WellAsked, SameRequest
  <2>2. CASE v # w
    BY <1>1, <2>2, StepKeepsRequest DEF AllWellAsked
  <2> QED  BY <2>1, <2>2
<1>2. ASSUME NEW w \in Workers, Begin(w), NEW v \in Workers PROVE good(v)
  BY <1>2, BeginOpens DEF Opened, AllWellAsked, WellAsked
<1>3. ASSUME Tick \/ UNCHANGED vars, NEW v \in Workers PROVE good(v)
  BY <1>3 DEF Tick, vars, AllWellAsked
<1>4. ASSUME Restart, NEW v \in Workers PROVE good(v)
  BY <1>4 DEF Restart, WellAsked, InBatch, Idle
<1>5. \A v \in Workers : good(v)
  BY <1>1, <1>2, <1>3, <1>4 DEF Next
<1> QED  BY <1>5 DEF AllWellAsked

-----------------------------------------------------------------------------
(* Calls that go on. *)

(* A call that answers what was already answered, and is done with its     *)
(* keys.                                                                   *)
LEMMA Ends ==
  ASSUME IInv, NEW w \in Workers, Step(w), NEW d, Goto(w, d), d.pc = "done",
         d.items = {}, d.result \subseteq Answered(call[w]),
         UNCHANGED <<engrams, live>>
  PROVE  Memory!Continue(w)
<1>1. Unsettled(d) = {} /\ Answered(d) = d.result
  BY DEF Unsettled, Answered
<1> QED  BY <1>1, Continues

LEMMA Returns ==
  ASSUME IInv, NEW w \in Workers, Step(w), NEW outcome, Return(w, outcome),
         UNCHANGED <<engrams, live>>
  PROVE  Memory!Continue(w)
<1> DEFINE d == Returned(call[w], outcome)
<1>1. call[w] \in CallType(DOMAIN engrams)
  BY CallAt DEF GoodCall
<1>2. d.pc = "done" /\ d.items = {} /\ d.result = call[w].result
  BY <1>1 DEF Returned, CallType
<1>3. Goto(w, d) /\ call[w].result \subseteq Answered(call[w])
  BY DEF Return, Answered
<1> HIDE DEF d
<1> QED  BY <1>2, <1>3, Ends

LEMMA CacheOwnContinues ==
  ASSUME IInv, NEW w \in Workers, Step(w), CacheOwn(w)
  PROVE  Memory!Continue(w)
<1> DEFINE c == call[w]
           R == IF c.op = "get" THEN {c.id} ELSE {}
           d == [Returned(c, "ok") EXCEPT !.result = R]
<1>1. c \in CallType(DOMAIN engrams)
  BY CallAt DEF GoodCall
<1>2. d.pc = "done" /\ d.items = {} /\ d.result = R
  BY <1>1 DEF Returned, CallType
<1>3. c.pc = "cache" /\ Goto(w, d) /\ UNCHANGED <<engrams, live>>
  BY DEF CacheOwn
<1>4. R \subseteq Answered(c)
  BY <1>3 DEF Answered
<1> HIDE DEF d, R
<1> QED  BY <1>2, <1>3, <1>4, Ends

(* What the id of a call in flight means. *)
LEMMA IdSuits ==
  ASSUME IInv, NEW w \in Workers, call[w].pc \in {"read", "forget"},
         call[w].id \in live, call[w].tag => engrams[call[w].id].profile
  PROVE  /\ Suits(call[w].id, RequestOf(call[w]))
         /\ engrams[call[w].id].key = call[w].k
<1> DEFINE c == call[w]
<1>1. /\ FitsIn(engrams, c.id, c.t, c.u, c.s, c.k)
      /\ c.op \in {"get", "delete"}
  BY CallAt DEF GoodCall, SoundIn
<1>2. RequestOf(c).keys = {c.k}
  BY <1>1 DEF RequestOf
<1> QED  BY <1>1, <1>2 DEF Suits, FitsIn, InScope, RequestOf

LEMMA ReadContinues ==
  ASSUME IInv, NEW w \in Workers, Step(w), Read(w)
  PROVE  Memory!Continue(w)
<1> DEFINE c == call[w]
           d == [Returned(c, "ok") EXCEPT !.result = {c.id}]
<1>1. /\ c \in CallType(DOMAIN engrams) /\ c.pc = "read"
      /\ c.op = "get" /\ ~c.tag
  BY CallAt DEF GoodCall, SoundIn, Read
<1>2. UNCHANGED <<engrams, live>>
  BY DEF Read
<1>3. CASE Return(w, "missing")
  BY <1>2, <1>3, Returns
<1>4. CASE c.id \in live /\ Goto(w, d)
  <2>1. d.pc = "done" /\ d.items = {} /\ d.result = {c.id}
    BY <1>1 DEF Returned, CallType
  <2>2. Answered(d) = {c.id} /\ Unsettled(d) = {}
    BY <2>1 DEF Answered, Unsettled
  <2>3. Suits(c.id, RequestOf(c)) /\ RequestOf(c).kind = "read"
    BY <1>1, <1>4, IdSuits DEF RequestOf, Kind
  <2> HIDE DEF d
  <2> QED  BY <1>2, <1>4, <2>2, <2>3, Continues
<1> QED  BY <1>3, <1>4 DEF Read

LEMMA ActivateKeyContinues ==
  ASSUME IInv, NEW w \in Workers, Step(w), ActivateKey(w)
  PROVE  Memory!Continue(w)
<1> DEFINE c == call[w]
           pc == IF c.op = "get" THEN "cache" ELSE "forget"
           d(id) == [c EXCEPT !.id = id, !.pc = pc]
<1>1. /\ c \in CallType(DOMAIN engrams) /\ c.pc = "activate"
      /\ c.op \in {"get", "delete"} /\ (c.op = "get" => ~c.tag)
  BY CallAt DEF GoodCall, SoundIn, ActivateKey
<1>2. UNCHANGED <<engrams, live>>
  BY DEF ActivateKey
<1>3. ASSUME NEW outcome, Return(w, outcome) PROVE Memory!Continue(w)
  BY <1>2, <1>3, Returns
<1>4. ASSUME NEW id \in Scope(c.t, c.u, c.s, FALSE), engrams[id].key = c.k,
             Goto(w, d(id))
      PROVE  Memory!Continue(w)
  <2>1. /\ d(id).op = c.op /\ d(id).id = id /\ d(id).pc = pc /\ d(id).k = c.k
        /\ d(id).items = c.items /\ d(id).result = c.result
    BY <1>1 DEF CallType
  <2> HIDE DEF d
  <2>2. Unsettled(d(id)) \subseteq Unsettled(c)
    BY <1>1, <2>1 DEF Unsettled
  <2>3. c.op = "get" => RequestOf(c).kind = "read" /\ Suits(id, RequestOf(c))
    <3> SUFFICES ASSUME c.op = "get"
                 PROVE  RequestOf(c).kind = "read" /\ Suits(id, RequestOf(c))
      OBVIOUS
    <3>1. /\ RequestOf(c).kind = "read" /\ RequestOf(c).t = c.t
          /\ RequestOf(c).u = c.u /\ RequestOf(c).s = c.s
          /\ RequestOf(c).tag = FALSE /\ RequestOf(c).keys = {c.k}
      BY <1>1 DEF RequestOf, Kind, CallType
    <3> QED  BY <1>4, <3>1, ScopeSuits
  <2>4. Answered(d(id)) \subseteq Answered(c) \cup IF c.op = "get" THEN {id} ELSE {}
    BY <1>1, <2>1 DEF Answered
  <2> QED  BY <1>2, <1>4, <2>2, <2>3, <2>4, Continues
<1>5. \/ \E id \in Scope(c.t, c.u, c.s, FALSE) :
           engrams[id].key = c.k /\ Goto(w, d(id))
      \/ \E outcome : Return(w, outcome)
  BY DEF ActivateKey, Activations
<1> HIDE DEF d
<1> QED  BY <1>3, <1>4, <1>5

LEMMA ForgetContinues ==
  ASSUME IInv, AllWellAsked, NEW w \in Workers, Step(w), Forget(w)
  PROVE  Memory!Continue(w)
<1> DEFINE c == call[w]
           r == RequestOf(c)
           d == [c EXCEPT !.pc = "drop"]
           ends(x) == Unsettled(x) = {} /\ Answered(x) \subseteq Answered(c)
<1>1. /\ c \in CallType(DOMAIN engrams) /\ c.pc = "forget" /\ c.op = "delete"
      /\ Unsettled(c) = {c.k}
  BY CallAt DEF GoodCall, SoundIn, Forget, Unsettled
<1>2. ends(d) /\ \A outcome : ends(Returned(c, outcome))
  BY <1>1 DEF Returned, CallType, Unsettled, Answered
<1>3. PICK x : Goto(w, x) /\ ends(x)
  BY <1>2 DEF Forget, Return
<1>4. \/ UNCHANGED <<engrams, live>>
      \/ c.id \in live /\ live' = live \ {c.id} /\ UNCHANGED engrams
  BY DEF Forget
<1>5. ASSUME c.id \in live, live' = live \ {c.id}, UNCHANGED engrams
      PROVE  Memory!Delete(r, c.k)
  <2>1. ~c.tag
    BY <1>1 DEF AllWellAsked, WellAsked
  <2>2. Suits(c.id, r) /\ engrams[c.id].key = c.k /\ r.kind = "delete"
    BY <1>1, <1>5, <2>1, IdSuits DEF RequestOf, Kind
  <2>3. [Next]_vars
    BY DEF Next
  <2> HIDE DEF r
  <2> QED  BY <1>5, <2>2, <2>3, ForgetDeletes
<1> HIDE DEF d
<1> QED  BY <1>1, <1>3, <1>4, <1>5, Continues
LEMMA ListPageContinues ==
  ASSUME IInv, NEW w \in Workers, Step(w), ListPage(w)
  PROVE  Memory!Continue(w)
<1> DEFINE c == call[w]
           page == Page(c.t, c.off)
           items == {id \in page : InScope(engrams[id], c.u, c.s, c.tag)}
           full == (Cardinality(page) = PageSize)
           total == Cardinality(Vault(c.t))
           d == [c EXCEPT !.pc = "items", !.items = items, !.full = full,
                          !.total = total]
<1>1. c \in CallType(DOMAIN engrams) /\ c.pc = "page" /\ c.op = "list"
  BY CallAt DEF GoodCall, SoundIn, ListPage
<1>2. Goto(w, d) /\ UNCHANGED <<engrams, live>>
  BY DEF ListPage
<1>3. items \subseteq Scope(c.t, c.u, c.s, c.tag)
  BY DEF Page, Scope
<1> HIDE DEF items, full, total
<1>4. d.op = "list" /\ d.pc = "items" /\ d.items = items /\ d.result = c.result
  BY <1>1 DEF CallType
<1> HIDE DEF d
<1>5. Unsettled(d) = {} /\ Answered(d) = items \cup c.result
  BY <1>4 DEF Unsettled, Answered
<1>6. /\ RequestOf(c).kind = "read" /\ RequestOf(c).t = c.t /\ RequestOf(c).u = c.u
      /\ RequestOf(c).s = c.s /\ RequestOf(c).tag = c.tag /\ RequestOf(c).keys = Keys
  BY <1>1 DEF RequestOf, Kind
<1>7. ASSUME NEW id \in items PROVE Suits(id, RequestOf(c))
  <2>1. id \in Ids
    BY <1>3 DEF Scope, Vault, IInv, GoodServer, Ids
  <2> QED  BY <1>3, <1>6, <2>1, KeyKnown, ScopeSuits
<1>8. c.result \subseteq Answered(c)
  BY DEF Answered
<1> QED  BY <1>2, <1>5, <1>6, <1>7, <1>8, Continues

(* A step that passes on what was answered and touches no key. *)
LEMMA Passes ==
  ASSUME IInv, NEW w \in Workers, Step(w), NEW d, Goto(w, d),
         UNCHANGED <<engrams, live>>, ~ InBatch(d), d.pc \in {"items", "page"},
         d.op # "delete", d.items \cup d.result \subseteq Answered(call[w])
  PROVE  Memory!Continue(w)
<1>1. Unsettled(d) = {} /\ Answered(d) = d.items \cup d.result
  BY DEF Unsettled, Answered
<1> QED  BY <1>1, Continues

LEMMA ItemsContinue ==
  ASSUME IInv, NEW w \in Workers, Step(w), CacheItem(w) \/ ItemsDone(w)
  PROVE  Memory!Continue(w)
<1> DEFINE c == call[w]
<1>1. /\ c \in CallType(DOMAIN engrams) /\ c.pc = "items"
      /\ c.op \in {"search", "recall", "list"}
  BY CallAt DEF GoodCall, SoundIn, CacheItem, ItemsDone
<1>2. Answered(c) = c.items \cup c.result
  BY <1>1 DEF Answered
<1>3. UNCHANGED <<engrams, live>>
  BY DEF CacheItem, ItemsDone
<1>4. CASE CacheItem(w)
  <2> DEFINE d(id) == [c EXCEPT !.items = @ \ {id}, !.count = @ + 1,
                                !.result = @ \cup {id}]
  <2>1. PICK id \in c.items : Goto(w, d(id))
    BY <1>4 DEF CacheItem
  <2>2. /\ d(id).op = c.op /\ d(id).pc = "items" /\ d(id).items = c.items \ {id}
        /\ d(id).result = c.result \cup {id}
    BY <1>1 DEF CallType
  <2> HIDE DEF d
  <2> QED  BY <1>1, <1>2, <1>3, <2>1, <2>2, Passes DEF InBatch
<1>5. CASE ItemsDone(w)
  <2> DEFINE d == [c EXCEPT !.pc = "page", !.off = NextOffset(c)]
  <2>1. Goto(w, d) \/ Return(w, "ok")
    BY <1>5 DEF ItemsDone
  <2>2. /\ d.op = c.op /\ d.pc = "page" /\ d.items = c.items
        /\ d.result = c.result
    BY <1>1 DEF CallType
  <2> HIDE DEF d
  <2> QED  BY <1>1, <1>2, <1>3, <2>1, <2>2, Passes, Returns DEF InBatch
<1> QED  BY <1>4, <1>5

(* A step of a batch that sends or caches. *)
LEMMA BatchGoesOn ==
  ASSUME IInv, NEW w \in Workers, Step(w), InBatch(call[w]), NEW d, Goto(w, d),
         UNCHANGED <<engrams, live>>, InBatch(d),
         d.items = call[w].items, d.result = call[w].result,
         (d.keys \ d.sent) \cup d.chunk
           \subseteq (call[w].keys \ call[w].sent) \cup call[w].chunk
  PROVE  Memory!Continue(w)
<1>1. Unsettled(d) \subseteq Unsettled(call[w]) /\ Answered(d) = Answered(call[w])
  BY DEF Unsettled, Answered, InBatch
<1> QED  BY <1>1, Continues

LEMMA SendChunkContinues ==
  ASSUME IInv, NEW w \in Workers, Step(w), SendChunk(w)
  PROVE  Memory!Continue(w)
<1> DEFINE c == call[w]
           d(C) == [c EXCEPT !.pc = "serve", !.chunk = C, !.sent = c.sent \cup C]
<1>1. c \in CallType(DOMAIN engrams) /\ c.pc = "send" /\ InBatch(c)
  BY CallAt DEF GoodCall, SendChunk, InBatch
<1>2. UNCHANGED <<engrams, live>>
  BY DEF SendChunk
<1>3. ASSUME NEW C \in SUBSET (c.keys \ c.sent), Goto(w, d(C))
      PROVE  Memory!Continue(w)
  <2>1. /\ d(C).pc = "serve" /\ d(C).keys = c.keys /\ d(C).chunk = C
        /\ d(C).sent = c.sent \cup C
        /\ d(C).items = c.items /\ d(C).result = c.result
    BY <1>1 DEF CallType
  <2> HIDE DEF d
  <2>2. (c.keys \ (c.sent \cup C)) \cup C \subseteq (c.keys \ c.sent) \cup c.chunk
    OBVIOUS
  <2> QED  BY <1>1, <1>2, <1>3, <2>1, <2>2, BatchGoesOn DEF InBatch
<1>4. \/ Return(w, "ok")
      \/ \E C \in SUBSET (c.keys \ c.sent) : Goto(w, d(C))
  BY DEF SendChunk, Chunks, Sent
<1> HIDE DEF d
<1> QED  BY <1>2, <1>3, <1>4, Returns

LEMMA TurnContinues ==
  ASSUME IInv, NEW w \in Workers, Step(w),
         ReceiveResults(w) \/ CacheResult(w) \/ NextChunk(w)
  PROVE  Memory!Continue(w)
<1> DEFINE c == call[w]
           d(pc, A) == [c EXCEPT !.pc = pc, !.answers = A]
<1>1. c \in CallType(DOMAIN engrams) /\ c.pc \in {"serve", "results"} /\ InBatch(c)
  BY CallAt DEF GoodCall, ReceiveResults, CacheResult, NextChunk, InBatch
<1>2. UNCHANGED <<engrams, live>>
  BY DEF ReceiveResults, CacheResult, NextChunk
<1>3. \/ Return(w, "failed")
      \/ \E pc \in {"results", "send"} : \E A : Goto(w, d(pc, A))
  <2>1. \A a : [c EXCEPT !.answers = @ \ {a}] = d(c.pc, c.answers \ {a})
    BY <1>1 DEF CallType
  <2>2. \A pc : [c EXCEPT !.pc = pc] = d(pc, c.answers)
    BY <1>1 DEF CallType
  <2>3. \/ Return(w, "failed")
        \/ \E pc \in {"results", "send"} : Goto(w, [c EXCEPT !.pc = pc])
        \/ c.pc = "results" /\ \E a : Goto(w, [c EXCEPT !.answers = @ \ {a}])
    BY DEF ReceiveResults, CacheResult, NextChunk
  <2> HIDE DEF d
  <2>4. ASSUME NEW pc \in {"results", "send"}, Goto(w, [c EXCEPT !.pc = pc])
        PROVE  Goto(w, d(pc, c.answers))
    BY <2>2, <2>4
  <2>5. ASSUME c.pc = "results", NEW a, Goto(w, [c EXCEPT !.answers = @ \ {a}])
        PROVE  Goto(w, d("results", c.answers \ {a}))
    BY <2>1, <2>5
  <2> QED  BY <2>3, <2>4, <2>5, Zenon
<1>4. ASSUME NEW pc \in {"results", "send"}, NEW A, Goto(w, d(pc, A))
      PROVE  Memory!Continue(w)
  <2>1. /\ d(pc, A).pc = pc /\ d(pc, A).keys = c.keys /\ d(pc, A).chunk = c.chunk
        /\ d(pc, A).sent = c.sent
        /\ d(pc, A).items = c.items /\ d(pc, A).result = c.result
    BY <1>1 DEF CallType
  <2> HIDE DEF d
  <2> QED  BY <1>1, <1>2, <1>4, <2>1, BatchGoesOn DEF InBatch
<1> HIDE DEF d
<1> QED  BY <1>2, <1>3, <1>4, Returns

LEMMA ServeItemContinues ==
  ASSUME IInv, BatchesSound, AllWellAsked, NEW w \in Workers, Step(w), ServeItem(w)
  PROVE  Memory!Continue(w)
<1> DEFINE c == call[w]
           r == RequestOf(c)
           d(k, id, err) ==
             [c EXCEPT !.chunk = @ \ {k}, !.answers = @ \cup {Answer(k, id, err)},
                       !.stored = IF err THEN @ ELSE @ \cup {k}]
<1>1. /\ c \in CallType(DOMAIN engrams) /\ c.pc = "serve" /\ c.op = "batch"
      /\ c.t \in Tenants /\ c.chunk \subseteq c.sent /\ c.chunk \subseteq Keys
      /\ c.u \in TagUsers /\ c.s \in TagSessions
  <2>1. c \in CallType(DOMAIN engrams) /\ c.pc = "serve" /\ c.t \in Tenants
    BY CallAt DEF GoodCall, SoundIn, ServeItem
  <2>2. c.op = "batch"
    BY <2>1 DEF AllWellAsked, WellAsked, InBatch
  <2>3. c.chunk \subseteq c.sent
    BY <2>2 DEF BatchesSound, BatchSound
  <2> QED  BY <2>1, <2>2, <2>3 DEF CallType
<1>2. ASSUME NEW k \in c.chunk, NEW id, NEW err
      PROVE  /\ Unsettled(d(k, id, err)) = Unsettled(c) \ {k}
             /\ k \in Unsettled(c)
             /\ Answered(d(k, id, err)) = Answered(c)
  <2>1. /\ d(k, id, err).op = "batch" /\ d(k, id, err).pc = "serve"
        /\ d(k, id, err).keys = c.keys /\ d(k, id, err).sent = c.sent
        /\ d(k, id, err).chunk = c.chunk \ {k}
        /\ d(k, id, err).items = c.items /\ d(k, id, err).result = c.result
    BY <1>1 DEF CallType
  <2> HIDE DEF d
  <2> QED  BY <1>1, <2>1 DEF Unsettled, Answered
<1> DEFINE silent(k) == [c EXCEPT !.chunk = @ \ {k}]
<1>8. ASSUME NEW k \in c.chunk
      PROVE  Unsettled(silent(k)) \subseteq Unsettled(c) /\ Answered(silent(k)) = Answered(c)
  <2>1. /\ silent(k).op = "batch" /\ silent(k).pc = "serve"
        /\ silent(k).keys = c.keys /\ silent(k).sent = c.sent
        /\ silent(k).chunk = c.chunk \ {k}
        /\ silent(k).items = c.items /\ silent(k).result = c.result
    BY <1>1 DEF CallType
  <2> HIDE DEF silent
  <2> QED  BY <1>1, <2>1 DEF Unsettled, Answered
<1>0. PICK k \in c.chunk :
        \/ Goto(w, silent(k)) /\ UNCHANGED <<engrams, live>>
        \/ \E id, err, x :
             /\ Goto(w, d(k, id, err))
             /\ \/ UNCHANGED <<engrams, live>>
                \/ ServerWrites(c.t, c.u, c.s, k, Tagged(k, c.tag), x)
  BY DEF ServeItem
<1> SUFFICES ASSUME ~ (Goto(w, silent(k)) /\ UNCHANGED <<engrams, live>>)
             PROVE  Memory!Continue(w)
  <2> HIDE DEF silent
  <2>1. ASSUME Goto(w, silent(k)), UNCHANGED <<engrams, live>> PROVE Memory!Continue(w)
    BY <1>8, <2>1, Continues
  <2> QED  BY <2>1
<1>3. PICK id, err, x :
        /\ Goto(w, d(k, id, err))
        /\ \/ UNCHANGED <<engrams, live>>
           \/ ServerWrites(c.t, c.u, c.s, k, Tagged(k, c.tag), x)
  BY <1>0
<1>4. r.kind = "write" /\ r.t = c.t /\ r.u = c.u /\ r.s = c.s /\ r.tag = c.tag
  BY <1>1 DEF RequestOf, Kind
<1>5. Tagged(k, c.tag) \in {TRUE, r.tag}
  BY <1>1, <1>4 DEF Tagged, CallType
<1>6. [Next]_vars
  BY DEF Next
<1> HIDE DEF d, r
<1>7. UNCHANGED <<engrams, live>> \/ Memory!Store(r, k)
  BY <1>1, <1>3, <1>4, <1>5, <1>6, WriteStores
<1> QED  BY <1>2, <1>3, <1>7, Continues DEF r

LEMMA StepContinues ==
  ASSUME IInv, BatchesSound, AllWellAsked, NEW w \in Workers, Step(w)
  PROVE  Memory!Continue(w)
<1>1. CASE DropCache(w)
  BY <1>1, Returns DEF DropCache
<1>2. CASE RequestFails(w)
  BY <1>2, Returns DEF RequestFails
<1> QED  BY <1>1, <1>2, CacheOwnContinues, ReadContinues, ActivateKeyContinues,
            ForgetContinues, ListPageContinues, ItemsContinue, SendChunkContinues,
            TurnContinues, ServeItemContinues DEF Step

-----------------------------------------------------------------------------
(* The theorems. *)

LEMMA NextImplements ==
  ASSUME IInv, BatchesSound, AllWellAsked, [Next]_vars
  PROVE  \/ Memory!Next
         \/ UNCHANGED <<{EntryOf(id) : id \in Ids}, {EntryOf(id) : id \in live},
                        [w \in Workers |-> RequestOf(call[w])],
                        {w \in Workers : call[w].pc # "done"},
                        [w \in Workers |-> Unsettled(call[w])],
                        [w \in Workers |-> {EntryOf(id) : id \in Answered(call[w])}]>>
<1>1. ASSUME NEW w \in Workers, Begin(w) PROVE Memory!Next
  <2>1. [Next]_vars
    BY <1>1 DEF Next
  <2> QED  BY <1>1, <2>1, BeginAsks DEF Memory!Next
<1>2. ASSUME NEW w \in Workers, Step(w) PROVE Memory!Next
  BY <1>2, StepContinues DEF Memory!Next
<1>3. CASE Restart
  <2>1. /\ UNCHANGED <<engrams, live>> /\ call' = [w \in Workers |-> Idle]
    BY <1>3 DEF Restart
  <2>2. Idle.pc = "done" /\ Answered(Idle) = {}
    BY DEF Idle, Answered
  <2>3. Memory!Restart
    BY <2>1, <2>2 DEF Memory!Restart, EntryOf, Ids
  <2> QED  BY <2>3 DEF Memory!Next
<1>4. CASE Tick \/ UNCHANGED vars
  <2>1. UNCHANGED <<engrams, live, call>>
    BY <1>4 DEF Tick, vars
  <2> QED  BY <2>1 DEF EntryOf, Ids
<1> QED  BY <1>1, <1>2, <1>3, <1>4 DEF Next

(* The store behind memory.Store is a scoped memory: whatever goroutines   *)
(* do between its steps, with stale cached ids, chunks, pages, failing     *)
(* requests and restarts, each of its steps is one that its callers may    *)
(* see of a memory of entries.                                             *)
THEOREM StoreImplementsMemory == Spec => ImplementsMemory
<1>1. Init => Memory!Init
  BY DEF Init, Memory!Init, Ids, Idle
<1>2. Init => BatchesSound /\ AllWellAsked
  BY DEF Init, BatchesSound, BatchSound, AllWellAsked, WellAsked, InBatch, Idle
<1>3. IInv /\ BatchesSound /\ AllWellAsked /\ [Next]_vars
        => BatchesSound' /\ AllWellAsked'
  BY BatchesKeep, WellAskedKept
<1>4. IInv /\ BatchesSound /\ AllWellAsked /\ [Next]_vars
        => [Memory!Next]_<<{EntryOf(id) : id \in Ids}, {EntryOf(id) : id \in live},
                           [w \in Workers |-> RequestOf(call[w])],
                           {w \in Workers : call[w].pc # "done"},
                           [w \in Workers |-> Unsettled(call[w])],
                           [w \in Workers |->
                              {EntryOf(id) : id \in Answered(call[w])}]>>
  BY NextImplements
<1> QED  BY <1>1, <1>2, <1>3, <1>4, Invariance, PTL
         DEF Spec, ImplementsMemory, Memory!Spec

(* The Manager's callers, its tools and its purge see a scoped memory too. *)
THEOREM ManagerUsesAMemory == ManagerSpec => ImplementsMemory
BY ManagerIsACaller, StoreImplementsMemory, PTL DEF CallsTheStore
=============================================================================
