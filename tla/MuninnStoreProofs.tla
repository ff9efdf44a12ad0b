-------------------------- MODULE MuninnStoreProofs --------------------------
(***************************************************************************)
(* What holds of MuninnStore for every set of tenants, users, sessions,    *)
(* concepts and goroutines and for every bound: the type invariant, that   *)
(* the ID cache never crosses a scope, that every call answers in scope,   *)
(* and that only a matching Delete forgets.                                *)
(***************************************************************************)
EXTENDS MuninnStore, SequenceTheorems, FiniteSetTheorems, TLAPS

-----------------------------------------------------------------------------
(* The cache key.  A flat string u:s:k determines u, s and k as long as    *)
(* the ids hold no separator; the concept may.                             *)

(* Concatenation under a name: the provers expand \o element by element. *)
Cat(x, y) == x \o y

LEMMA CatType ==
  ASSUME NEW x \in Seq(Char), NEW y \in Seq(Char)
  PROVE  Cat(x, y) \in Seq(Char)
BY ConcatProperties DEF Cat

LEMMA CatAssociative ==
  ASSUME NEW x \in Seq(Char), NEW y \in Seq(Char), NEW z \in Seq(Char)
  PROVE  Cat(Cat(x, y), z) = Cat(x, Cat(y, z))
BY ConcatAssociative DEF Cat

IsColon(c) == c = <<":">>

NoColon(x) == \A i \in 1..Len(x) : x[i] # ":"

(* w is the word x, a separator and the rest y, character by character. *)
Around(w, x, y) ==
  /\ Len(w) = Len(x) + 1 + Len(y)
  /\ \A i \in 1..Len(x) : w[i] = x[i]
  /\ w[Len(x)+1] = ":"
  /\ \A i \in 1..Len(y) : w[Len(x)+1+i] = y[i]

LEMMA AroundColon ==
  ASSUME NEW x \in Seq(Char), NEW y \in Seq(Char), NEW c \in Seq(Char),
         IsColon(c)
  PROVE  Around(Cat(Cat(x, c), y), x, y)
<1>1. Len(c) = 1 /\ c[1] = ":"
  BY DEF IsColon
<1>2. Len(x) \in Nat /\ Len(y) \in Nat
  BY LenProperties
<1>3. /\ x \o c \in Seq(Char) /\ Len(x \o c) = Len(x) + Len(c)
      /\ \A i \in 1..Len(x)+Len(c) :
           (x \o c)[i] = IF i <= Len(x) THEN x[i] ELSE c[i - Len(x)]
  BY ConcatProperties
<1> DEFINE v == x \o c
<1>4. v \in Seq(Char) /\ Len(v) = Len(x) + 1
  BY <1>1, <1>3
<1>5. (\A i \in 1..Len(x) : v[i] = x[i]) /\ v[Len(x)+1] = ":"
  <2>1. (Len(x)+1) - Len(x) = 1 /\ ~(Len(x)+1 <= Len(x))
    BY <1>2
  <2> QED  BY <1>1, <1>2, <1>3, <2>1
<1> HIDE DEF v
<1>6. /\ Len(v \o y) = Len(v) + Len(y)
      /\ \A i \in 1..Len(v)+Len(y) :
           (v \o y)[i] = IF i <= Len(v) THEN v[i] ELSE y[i - Len(v)]
  BY <1>4, ConcatProperties
<1>7. \A i \in 1..Len(y) : (v \o y)[Len(x)+1+i] = y[i]
  <2> TAKE i \in 1..Len(y)
  <2>1. /\ Len(x)+1+i \in 1..Len(v)+Len(y) /\ ~(Len(x)+1+i <= Len(v))
        /\ (Len(x)+1+i) - Len(v) = i
    BY <1>2, <1>4
  <2> QED  BY <1>6, <2>1
<1>8. (\A i \in 1..Len(x) : (v \o y)[i] = x[i]) /\ (v \o y)[Len(x)+1] = ":"
  BY <1>2, <1>4, <1>5, <1>6
<1> QED  BY <1>4, <1>6, <1>7, <1>8 DEF v, Cat, Around

(* A word without a separator is determined by the string it starts. *)
LEMMA SplitAtColon ==
  ASSUME NEW x \in Seq(Char), NEW y \in Seq(Char), NEW a \in Seq(Char),
         NEW b \in Seq(Char), NoColon(x), NoColon(a),
         NEW c \in Seq(Char), IsColon(c),
         Cat(Cat(x, c), y) = Cat(Cat(a, c), b)
  PROVE  x = a /\ y = b
<1> DEFINE w == Cat(Cat(x, c), y)
<1>1. Around(w, x, y)
  BY AroundColon
<1>2. Around(w, a, b)
  BY AroundColon
<1> HIDE DEF w
<1>3. Len(x) \in Nat /\ Len(y) \in Nat /\ Len(a) \in Nat /\ Len(b) \in Nat
  BY LenProperties
<1>4. ~(Len(x) < Len(a))
  <2> SUFFICES ASSUME Len(x) < Len(a) PROVE FALSE
    OBVIOUS
  <2>1. Len(x) + 1 \in 1..Len(a)
    BY <1>3
  <2> QED  BY <1>1, <1>2, <2>1 DEF NoColon, Around
<1>5. ~(Len(a) < Len(x))
  <2> SUFFICES ASSUME Len(a) < Len(x) PROVE FALSE
    OBVIOUS
  <2>1. Len(a) + 1 \in 1..Len(x)
    BY <1>3
  <2> QED  BY <1>1, <1>2, <2>1 DEF NoColon, Around
<1>6. Len(x) = Len(a) /\ Len(y) = Len(b)
  BY <1>1, <1>2, <1>3, <1>4, <1>5 DEF Around
<1>7. x = a
  <2>1. \A i \in 1..Len(x) : x[i] = a[i]
    BY <1>1, <1>2, <1>6 DEF Around
  <2> QED  BY <1>6, <2>1, SeqEqual
<1>8. y = b
  <2>1. \A i \in 1..Len(y) : y[i] = b[i]
    BY <1>1, <1>2, <1>6 DEF Around
  <2> QED  BY <1>6, <2>1, SeqEqual
<1> QED  BY <1>7, <1>8

LEMMA KeyShape ==
  ASSUME NEW c \in Seq(Char), NEW x \in Seq(Char), NEW y \in Seq(Char),
         NEW z \in Seq(Char)
  PROVE  /\ Cat(Cat(y, c), z) \in Seq(Char)
         /\ Cat(Cat(Cat(Cat(x, c), y), c), z) = Cat(Cat(x, c), Cat(Cat(y, c), z))
<1>1. /\ Cat(x, c) \in Seq(Char) /\ Cat(y, c) \in Seq(Char)
      /\ Cat(c, z) \in Seq(Char)
  BY CatType
<1>2. Cat(Cat(y, c), z) \in Seq(Char) /\ Cat(Cat(x, c), y) \in Seq(Char)
  BY <1>1, CatType
<1>3. Cat(Cat(Cat(Cat(x, c), y), c), z) = Cat(Cat(Cat(x, c), y), Cat(c, z))
  BY <1>2, CatAssociative
<1>4. Cat(Cat(Cat(x, c), y), Cat(c, z)) = Cat(Cat(x, c), Cat(y, Cat(c, z)))
  BY <1>1, CatAssociative
<1>5. Cat(y, Cat(c, z)) = Cat(Cat(y, c), z)
  BY CatAssociative
<1> QED  BY <1>2, <1>3, <1>4, <1>5

(* cacheKey maps different (user, session, concept) to different keys. *)
LEMMA CacheKeyInjective ==
  ASSUME NEW u \in TagUsers, NEW s \in TagSessions, NEW k \in Keys,
         NEW v \in TagUsers, NEW r \in TagSessions, NEW l \in Keys,
         CacheKey(u, s, k) = CacheKey(v, r, l)
  PROVE  u = v /\ s = r /\ k = l
<1>1. PICK c \in Seq(Char) : IsColon(c)
  <2>1. <<":">> \in Seq(Char)
    BY ConstantsAssumption
  <2> QED  BY <2>1, Zenon DEF IsColon
<1>2. TagUsers \subseteq Seq(Char) /\ TagSessions \subseteq Seq(Char)
  BY ConstantsAssumption, EmptySeq DEF TagUsers, TagSessions, Empty
<1>3. /\ u \in Seq(Char) /\ s \in Seq(Char) /\ k \in Seq(Char)
      /\ v \in Seq(Char) /\ r \in Seq(Char) /\ l \in Seq(Char)
  BY <1>2, ConstantsAssumption
<1>4. NoColon(u) /\ NoColon(s) /\ NoColon(v) /\ NoColon(r)
  BY NoColonAssumption DEF NoColon, TagUsers, TagSessions, Empty
<1>5. /\ Cat(Cat(s, c), k) \in Seq(Char)
      /\ CacheKey(u, s, k) = Cat(Cat(u, c), Cat(Cat(s, c), k))
  <2>1. CacheKey(u, s, k) = Cat(Cat(Cat(Cat(u, c), s), c), k)
    BY <1>1 DEF CacheKey, IsColon, Cat
  <2> QED  BY <1>1, <1>3, <2>1, KeyShape
<1>6. /\ Cat(Cat(r, c), l) \in Seq(Char)
      /\ CacheKey(v, r, l) = Cat(Cat(v, c), Cat(Cat(r, c), l))
  <2>1. CacheKey(v, r, l) = Cat(Cat(Cat(Cat(v, c), r), c), l)
    BY <1>1 DEF CacheKey, IsColon, Cat
  <2> QED  BY <1>1, <1>3, <2>1, KeyShape
<1>7. u = v /\ Cat(Cat(s, c), k) = Cat(Cat(r, c), l)
  <2>1. Cat(Cat(u, c), Cat(Cat(s, c), k)) = Cat(Cat(v, c), Cat(Cat(r, c), l))
    BY <1>5, <1>6
  <2> QED  BY <1>1, <1>3, <1>4, <1>5, <1>6, <2>1, SplitAtColon
<1>8. s = r /\ k = l
  BY <1>1, <1>3, <1>4, <1>5, <1>6, <1>7, SplitAtColon
<1> QED  BY <1>7, <1>8

-----------------------------------------------------------------------------
(* The inductive invariant, over the server's engrams E so that it can be  *)
(* stated of the engrams before and after a write.                         *)

FitsIn(E, id, t, u, s, k) ==
  /\ id \in DOMAIN E
  /\ E[id].vault = t
  /\ E[id].key = k
  /\ InScope(E[id], u, s, FALSE)

SoundIn(E, c) ==
  /\ c.pc # "done" => c.t \in Tenants
  /\ c.pc \in {"cache", "read", "activate", "forget", "drop"} => c.k \in Keys
  /\ c.pc \in {"cache", "read", "forget"} => FitsIn(E, c.id, c.t, c.u, c.s, c.k)
  /\ c.pc = "read" => c.op = "get"
  /\ c.pc = "activate" => c.op \in {"get", "delete"}
  /\ c.pc = "forget" => c.op = "delete"
  /\ c.pc = "items" => c.op \in {"search", "recall", "list"}
  /\ c.pc = "page" => c.op = "list"
  /\ c.op = "get" => ~c.tag
  /\ \A id \in c.items \cup c.result :
       E[id].vault = c.t /\ InScope(E[id], c.u, c.s, c.tag)
  /\ c.op = "get" => \A id \in c.result : E[id].key = c.k
  /\ \A a \in c.answers : a.id # NoId => FitsIn(E, a.id, c.t, c.u, c.s, a.key)

GoodServer(E, L) == E \in Seq(EngramType) /\ L \subseteq DOMAIN E

GoodCache(E, m) ==
  /\ m \in [Tenants -> [CacheKeys -> DOMAIN E \cup {NoId}]]
  /\ \A t \in Tenants, u \in TagUsers, s \in TagSessions, k \in Keys :
       m[t][CacheKey(u, s, k)] # NoId
         => FitsIn(E, m[t][CacheKey(u, s, k)], t, u, s, k)

GoodCall(E, c) == c \in CallType(DOMAIN E) /\ SoundIn(E, c)

GoodCalls(E, f) ==
  f \in [Workers -> CallType(DOMAIN E)] /\ \A w \in Workers : SoundIn(E, f[w])

IInv ==
  /\ GoodServer(engrams, live)
  /\ GoodCache(engrams, idCache)
  /\ GoodCalls(engrams, call)
  /\ now \in Nat

(* The invariant is the type invariant, the soundness of the cache and the *)
(* soundness of the calls in flight, no more.                              *)
LEMMA IInvMeaning == IInv <=> TypeOK /\ CacheSound /\ InFlightSound
BY DEF IInv, GoodServer, GoodCache, GoodCalls, SoundIn, FitsIn, TypeOK,
       CacheSound, InFlightSound, CallSound, Fits, Ids, LookupIDCache

-----------------------------------------------------------------------------
(* A server that created more engrams: everything known stays true. *)

Extends(E, F) ==
  DOMAIN E \subseteq DOMAIN F /\ \A id \in DOMAIN E : F[id] = E[id]

LEMMA TypeExtends ==
  ASSUME NEW I, NEW J, I \subseteq J, NEW c \in CallType(I)
  PROVE  c \in CallType(J)
BY DEF CallType, AnswerType

LEMMA CallExtends ==
  ASSUME NEW E, NEW F, Extends(E, F), NEW c, GoodCall(E, c)
  PROVE  GoodCall(F, c)
<1>1. c \in CallType(DOMAIN F)
  BY TypeExtends DEF Extends, GoodCall
<1>2. \A id \in c.items \cup c.result : id \in DOMAIN E
  BY DEF GoodCall, CallType
<1>3. SoundIn(F, c)
  BY <1>2 DEF GoodCall, SoundIn, FitsIn, Extends
<1> QED  BY <1>1, <1>3 DEF GoodCall

LEMMA CacheExtends ==
  ASSUME NEW E, NEW F, Extends(E, F), NEW m, GoodCache(E, m)
  PROVE  GoodCache(F, m)
<1>1. m \in [Tenants -> [CacheKeys -> DOMAIN F \cup {NoId}]]
  BY DEF GoodCache, Extends
<1>2. \A id, t, u, s, k : FitsIn(E, id, t, u, s, k) => FitsIn(F, id, t, u, s, k)
  BY DEF FitsIn, Extends
<1> QED  BY <1>1, <1>2 DEF GoodCache

(* An entry that fits its key keeps the cache sound: no other (user,       *)
(* session, concept) shares the key.                                       *)
LEMMA CachePut ==
  ASSUME NEW E, NEW m, GoodCache(E, m), NEW t \in Tenants, NEW u \in TagUsers,
         NEW s \in TagSessions, NEW k \in Keys, NEW id,
         id = NoId \/ FitsIn(E, id, t, u, s, k)
  PROVE  GoodCache(E, [m EXCEPT ![t][CacheKey(u, s, k)] = id])
<1> DEFINE n == [m EXCEPT ![t][CacheKey(u, s, k)] = id]
<1>1. CacheKey(u, s, k) \in CacheKeys /\ id \in DOMAIN E \cup {NoId}
  <2>1. CacheKey(u, s, k) \in CacheKeys
    BY DEF CacheKeys
  <2> QED  BY <2>1 DEF FitsIn
<1>2. n \in [Tenants -> [CacheKeys -> DOMAIN E \cup {NoId}]]
  BY <1>1 DEF GoodCache
<1>3. ASSUME NEW q \in Tenants, NEW v \in TagUsers, NEW r \in TagSessions,
             NEW l \in Keys, n[q][CacheKey(v, r, l)] # NoId
      PROVE  FitsIn(E, n[q][CacheKey(v, r, l)], q, v, r, l)
  <2>1. CacheKey(v, r, l) \in CacheKeys
    BY DEF CacheKeys
  <2>2. CASE q = t /\ CacheKey(v, r, l) = CacheKey(u, s, k)
    <3>1. v = u /\ r = s /\ l = k
      BY <2>2, CacheKeyInjective
    <3>2. n[q][CacheKey(v, r, l)] = id
      BY <1>1, <2>2 DEF GoodCache
    <3> QED  BY <1>3, <2>2, <3>1, <3>2
  <2>3. CASE ~(q = t /\ CacheKey(v, r, l) = CacheKey(u, s, k))
    <3>1. n[q][CacheKey(v, r, l)] = m[q][CacheKey(v, r, l)]
      BY <1>1, <2>1, <2>3 DEF GoodCache
    <3> QED  BY <1>3, <3>1 DEF GoodCache
  <2> QED  BY <2>2, <2>3
<1> QED  BY <1>2, <1>3 DEF GoodCache

LEMMA CallsPut ==
  ASSUME NEW E, NEW F, Extends(E, F), NEW f, GoodCalls(E, f), NEW w \in Workers,
         NEW d, GoodCall(F, d)
  PROVE  GoodCalls(F, [f EXCEPT ![w] = d])
<1>1. \A v \in Workers : GoodCall(F, f[v])
  BY CallExtends DEF GoodCalls, GoodCall
<1> QED  BY <1>1 DEF GoodCalls, GoodCall

-----------------------------------------------------------------------------
(* Shapes of a step. *)

(* Any step of one goroutine: what it must leave behind. *)
LEMMA WorkerStep ==
  ASSUME IInv, NEW w \in Workers, NEW d, Goto(w, d), now' = now,
         GoodServer(engrams', live'), Extends(engrams, engrams'),
         GoodCache(engrams', idCache'), GoodCall(engrams', d)
  PROVE  IInv'
<1>1. GoodCalls(engrams', call')
  BY CallsPut DEF IInv, Goto
<1> QED  BY <1>1 DEF IInv

(* A step that touches neither the server nor the cache. *)
LEMMA LocalStep ==
  ASSUME IInv, NEW w \in Workers, NEW d, Goto(w, d), GoodCall(engrams, d),
         UNCHANGED <<engrams, live, idCache, now>>
  PROVE  IInv'
<1>1. Extends(engrams, engrams')
  BY DEF Extends
<1> QED  BY <1>1, WorkerStep DEF IInv

(* A section under s.mu. *)
LEMMA CacheStep ==
  ASSUME IInv, NEW w \in Workers, NEW d, Goto(w, d), GoodCall(engrams, d),
         NEW t \in Tenants, NEW u \in TagUsers, NEW s \in TagSessions,
         NEW k \in Keys, NEW id, id = NoId \/ FitsIn(engrams, id, t, u, s, k),
         SetIDCache(t, u, s, k, id), UNCHANGED <<engrams, live, now>>
  PROVE  IInv'
<1>1. Extends(engrams, engrams')
  BY DEF Extends
<1>2. GoodCache(engrams', idCache')
  BY CachePut DEF SetIDCache, IInv
<1> QED  BY <1>1, <1>2, WorkerStep DEF IInv

LEMMA StampsAreTimes ==
  ASSUME IInv
  PROVE  Stamps \subseteq Nat
BY ConstantsAssumption, SMT DEF IInv, Stamps, NoStamp

(* A write: what was known stays, and the answered id fits its tags. *)
LEMMA Written ==
  ASSUME IInv, NEW t \in Tenants, NEW u \in TagUsers, NEW s \in TagSessions,
         NEW k \in Keys, NEW tag \in BOOLEAN, NEW id,
         ServerWrites(t, u, s, k, tag, id)
  PROVE  /\ GoodServer(engrams', live')
         /\ Extends(engrams, engrams')
         /\ FitsIn(engrams', id, t, u, s, k)
<1>1. CASE id \in Known(t, u, s, k, tag) /\ UNCHANGED <<engrams, live>>
  BY <1>1 DEF IInv, GoodServer, Extends, FitsIn, Known, Vault, InScope
<1>2. ASSUME NEW at \in Stamps,
             id = Len(engrams) + 1,
             engrams' = Append(engrams, Engram(t, u, s, k, tag, at)),
             live' = live \cup {id}
      PROVE  /\ GoodServer(engrams', live')
             /\ Extends(engrams, engrams')
             /\ FitsIn(engrams', id, t, u, s, k)
  <2>1. Engram(t, u, s, k, tag, at) \in EngramType
    BY StampsAreTimes DEF IInv, Engram, EngramType
  <2> DEFINE e == Engram(t, u, s, k, tag, at)
  <2> HIDE DEF e
  <2>2. /\ engrams \in Seq(EngramType) /\ live \subseteq DOMAIN engrams
    BY DEF IInv, GoodServer
  <2>3. /\ engrams' \in Seq(EngramType)
        /\ DOMAIN engrams = 1..Len(engrams)
        /\ DOMAIN engrams' = 1..Len(engrams)+1
        /\ \A i \in 1..Len(engrams) : engrams'[i] = engrams[i]
        /\ engrams'[id] = e /\ Len(engrams) \in Nat
    BY <1>2, <2>1, <2>2 DEF e
  <2>4. FitsIn(engrams', id, t, u, s, k)
    BY <1>2, <2>3 DEF FitsIn, InScope, e, Engram
  <2> QED  BY <1>2, <2>2, <2>3, <2>4 DEF GoodServer, Extends
<1> QED  BY <1>1, <1>2 DEF ServerWrites

(* The engram carries this very user and session. *)
Exact(E, id, u, s) == E[id].user = u /\ E[id].session = s

(* What the server answers a write with is live and carries the very tags  *)
(* of the write.                                                           *)
LEMMA WrittenLive ==
  ASSUME IInv, NEW t, NEW u, NEW s, NEW k, NEW tag, NEW id,
         ServerWrites(t, u, s, k, tag, id)
  PROVE  id \in live' /\ Exact(engrams', id, u, s) /\ live \subseteq live'
<1>1. engrams \in Seq(EngramType)
  BY DEF IInv, GoodServer
<1>2. CASE id \in Known(t, u, s, k, tag) /\ UNCHANGED <<engrams, live>>
  BY <1>2 DEF Known, Vault, Exact
<1>3. ASSUME NEW at \in Stamps,
             id = Len(engrams) + 1,
             engrams' = Append(engrams, Engram(t, u, s, k, tag, at)),
             live' = live \cup {id}
      PROVE  id \in live' /\ Exact(engrams', id, u, s) /\ live \subseteq live'
  <2>1. engrams'[id] = Engram(t, u, s, k, tag, at)
    BY <1>1, <1>3
  <2> QED  BY <1>3, <2>1 DEF Engram, Exact
<1> QED  BY <1>2, <1>3 DEF ServerWrites

LEMMA FreshCall ==
  ASSUME NEW E, NEW op \in Ops, NEW t \in Tenants, NEW u \in TagUsers,
         NEW s \in TagSessions
  PROVE  /\ NewCall(op, t, u, s) \in CallType(DOMAIN E)
         /\ SoundIn(E, NewCall(op, t, u, s))
         /\ Idle \in CallType(DOMAIN E) /\ SoundIn(E, Idle)
<1>1. Idle \in CallType(DOMAIN E)
  <2>1. /\ "none" \in Ops /\ "done" \in PCs /\ "none" \in Outcomes
        /\ Empty \in TagUsers /\ Empty \in TagSessions
    BY DEF Ops, PCs, Outcomes, TagUsers, TagSessions
  <2> QED  BY <2>1 DEF Idle, CallType
<1>2. NewCall(op, t, u, s) \in CallType(DOMAIN E)
  BY <1>1 DEF NewCall, CallType
<1>3. SoundIn(E, Idle)
  BY DEF SoundIn, Idle
<1>4. SoundIn(E, NewCall(op, t, u, s))
  BY DEF SoundIn, NewCall, Idle
<1> QED  BY <1>1, <1>2, <1>3, <1>4

LEMMA ReturnGood ==
  ASSUME NEW E, NEW c, GoodCall(E, c), NEW outcome \in Outcomes
  PROVE  GoodCall(E, Returned(c, outcome))
<1>1. Returned(c, outcome) \in CallType(DOMAIN E)
  BY DEF GoodCall, Returned, CallType, PCs, NoId
<1>2. SoundIn(E, Returned(c, outcome))
  BY DEF GoodCall, Returned, CallType, SoundIn
<1> QED  BY <1>1, <1>2 DEF GoodCall

-----------------------------------------------------------------------------
(* Every action keeps the invariant. *)

LEMMA CallAt ==
  ASSUME IInv, NEW w \in Workers
  PROVE  GoodCall(engrams, call[w])
BY DEF IInv, GoodCalls, GoodCall

LEMMA ReturnKeeps ==
  ASSUME IInv, NEW w \in Workers, NEW outcome \in Outcomes, Return(w, outcome),
         UNCHANGED <<engrams, live, idCache, now>>
  PROVE  IInv'
BY CallAt, ReturnGood, LocalStep DEF Return

LEMMA TagIsBoolean ==
  ASSUME NEW k, NEW extra \in BOOLEAN
  PROVE  Tagged(k, extra) \in BOOLEAN
BY DEF Tagged

LEMMA WriteKeeps ==
  ASSUME IInv, NEW w \in Workers, NEW t \in Tenants, NEW u \in TagUsers,
         NEW s \in TagSessions, NEW k \in Keys, NEW tag \in BOOLEAN,
         Write(w, t, u, s, k, tag)
  PROVE  IInv'
<1> DEFINE c == [NewCall("set", t, u, s) EXCEPT !.k = k]
           d(id) == [c EXCEPT !.pc = "cache", !.id = id]
<1>1. \A E : GoodCall(E, c)
  <2> TAKE E
  <2>1. NewCall("set", t, u, s) \in CallType(DOMAIN E)
    BY FreshCall DEF Ops
  <2>2. c \in CallType(DOMAIN E)
    BY <2>1 DEF CallType
  <2>3. SoundIn(E, c)
    BY DEF SoundIn, NewCall, Idle
  <2> QED  BY <2>2, <2>3 DEF GoodCall
<1>2. \A E : GoodCall(E, Returned(c, "failed"))
  BY <1>1, ReturnGood DEF Outcomes
<1>3. ASSUME NEW E, NEW id, FitsIn(E, id, t, u, s, k)
      PROVE  GoodCall(E, d(id))
  <2>1. c \in CallType(DOMAIN E) /\ id \in DOMAIN E
    BY <1>1, <1>3 DEF GoodCall, FitsIn
  <2>2. d(id) \in CallType(DOMAIN E)
    BY <2>1 DEF CallType, PCs
  <2>3. SoundIn(E, d(id))
    BY <1>3 DEF SoundIn, NewCall, Idle
  <2> QED  BY <2>2, <2>3 DEF GoodCall
<1>4. now' = now /\ idCache' = idCache
  BY DEF Write
<1>5. ASSUME NEW id, ServerWrites(t, u, s, k, tag, id),
             Goto(w, d(id)) \/ Goto(w, Returned(c, "failed"))
      PROVE  IInv'
  <2>1. /\ GoodServer(engrams', live') /\ Extends(engrams, engrams')
        /\ FitsIn(engrams', id, t, u, s, k)
    BY <1>5, Written
  <2>2. GoodCache(engrams', idCache')
    BY <1>4, <2>1, CacheExtends DEF IInv
  <2>3. GoodCall(engrams', d(id)) /\ GoodCall(engrams', Returned(c, "failed"))
    BY <1>2, <1>3, <2>1
  <2> HIDE DEF d, c
  <2> QED  BY <1>4, <1>5, <2>1, <2>2, <2>3, WorkerStep
<1>6. CASE Goto(w, Returned(c, "failed")) /\ UNCHANGED <<engrams, live>>
  <2> HIDE DEF c
  <2> QED  BY <1>2, <1>4, <1>6, LocalStep
<1> QED  BY <1>5, <1>6 DEF Write

LEMMA CacheOwnKeeps ==
  ASSUME IInv, NEW w \in Workers, CacheOwn(w)
  PROVE  IInv'
<1> DEFINE c == call[w]
           d == [Returned(c, "ok") EXCEPT
                   !.result = IF c.op = "get" THEN {c.id} ELSE {}]
<1>1. GoodCall(engrams, c) /\ c.pc = "cache"
  BY CallAt DEF CacheOwn
<1>2. /\ c.t \in Tenants /\ c.u \in TagUsers /\ c.s \in TagSessions
      /\ c.k \in Keys /\ FitsIn(engrams, c.id, c.t, c.u, c.s, c.k)
      /\ c.op = "get" => ~c.tag
      /\ c.tag \in BOOLEAN
  BY <1>1 DEF GoodCall, SoundIn, CallType
<1>3. GoodCall(engrams, d)
  <2>1. GoodCall(engrams, Returned(c, "ok"))
    BY <1>1, ReturnGood DEF Outcomes
  <2>2. d \in CallType(DOMAIN engrams)
    BY <1>2, <2>1 DEF GoodCall, CallType, FitsIn
  <2>3. SoundIn(engrams, d)
    BY <1>1, <1>2 DEF GoodCall, CallType, SoundIn, Returned, FitsIn, InScope
  <2> QED  BY <2>2, <2>3 DEF GoodCall
<1>4. /\ SetIDCache(c.t, c.u, c.s, c.k, c.id) /\ Goto(w, d)
      /\ UNCHANGED <<engrams, live, now>>
  BY DEF CacheOwn
<1> HIDE DEF c, d
<1> QED  BY <1>2, <1>3, <1>4, CacheStep

LEMMA LookupFits ==
  ASSUME IInv, NEW t \in Tenants, NEW u \in TagUsers, NEW s \in TagSessions,
         NEW k \in Keys, LookupIDCache(t, u, s, k) # NoId
  PROVE  FitsIn(engrams, LookupIDCache(t, u, s, k), t, u, s, k)
BY DEF IInv, GoodCache, LookupIDCache

(* Get and Delete start with a cached id that fits, or with an activation. *)
LEMMA LookupGood ==
  ASSUME IInv, NEW t \in Tenants, NEW u \in TagUsers, NEW s \in TagSessions,
         NEW k \in Keys, NEW op \in {"get", "delete"}, NEW pc,
         LookupIDCache(t, u, s, k) # NoId
           => pc = IF op = "get" THEN "read" ELSE "forget",
         LookupIDCache(t, u, s, k) = NoId => pc = "activate"
  PROVE  GoodCall(engrams, [NewCall(op, t, u, s) EXCEPT
                              !.k = k, !.id = LookupIDCache(t, u, s, k), !.pc = pc])
<1> DEFINE id == LookupIDCache(t, u, s, k)
           d == [NewCall(op, t, u, s) EXCEPT !.k = k, !.id = id, !.pc = pc]
<1>1. id # NoId => FitsIn(engrams, id, t, u, s, k)
  BY LookupFits
<1> HIDE DEF id
<1>2. pc \in PCs /\ id \in DOMAIN engrams \cup {NoId}
  BY <1>1 DEF PCs, id, FitsIn
<1>3. d \in CallType(DOMAIN engrams)
  <2>1. NewCall(op, t, u, s) \in CallType(DOMAIN engrams)
    BY FreshCall DEF Ops
  <2> QED  BY <1>2, <2>1 DEF CallType
<1>4. SoundIn(engrams, d)
  BY <1>1 DEF SoundIn, NewCall, Idle, id
<1> QED  BY <1>3, <1>4 DEF GoodCall, id

LEMMA LookupKeeps ==
  ASSUME IInv, NEW w \in Workers, NEW t \in Tenants, NEW u \in TagUsers,
         NEW s \in TagSessions, NEW k \in Keys,
         Get(w, t, u, s, k) \/ Delete(w, t, u, s, k)
  PROVE  IInv'
<1> DEFINE id == LookupIDCache(t, u, s, k)
           d(op, pc) == [NewCall(op, t, u, s) EXCEPT !.k = k, !.id = id, !.pc = pc]
           next(op) == IF id # NoId THEN IF op = "get" THEN "read" ELSE "forget"
                       ELSE "activate"
<1>1. ASSUME NEW op \in {"get", "delete"} PROVE GoodCall(engrams, d(op, next(op)))
  BY LookupGood
<1>2. CASE Get(w, t, u, s, k)
  <2>1. Goto(w, d("get", next("get"))) /\ UNCHANGED <<engrams, live, idCache, now>>
    BY <1>2 DEF Get
  <2> HIDE DEF d, next
  <2> QED  BY <1>1, <2>1, LocalStep
<1>3. CASE Delete(w, t, u, s, k)
  <2>1. /\ Goto(w, d("delete", next("delete")))
        /\ UNCHANGED <<engrams, live, idCache, now>>
    BY <1>3 DEF Delete
  <2> HIDE DEF d, next
  <2> QED  BY <1>1, <2>1, LocalStep
<1> QED  BY <1>2, <1>3

LEMMA ReadKeeps ==
  ASSUME IInv, NEW w \in Workers, Read(w)
  PROVE  IInv'
<1> DEFINE c == call[w]
           d == [Returned(c, "ok") EXCEPT !.result = {c.id}]
<1>1. GoodCall(engrams, c) /\ c.pc = "read"
  BY CallAt DEF Read
<1>2. /\ FitsIn(engrams, c.id, c.t, c.u, c.s, c.k) /\ c.op = "get"
      /\ c.tag \in BOOLEAN /\ ~c.tag
  BY <1>1 DEF GoodCall, SoundIn, CallType
<1>3. GoodCall(engrams, d)
  <2>1. GoodCall(engrams, Returned(c, "ok"))
    BY <1>1, ReturnGood DEF Outcomes
  <2>2. d \in CallType(DOMAIN engrams)
    BY <1>2, <2>1 DEF GoodCall, CallType, FitsIn
  <2>3. SoundIn(engrams, d)
    BY <1>1, <1>2 DEF GoodCall, CallType, SoundIn, Returned, FitsIn, InScope
  <2> QED  BY <2>2, <2>3 DEF GoodCall
<1>4. CASE Goto(w, d)
  <2>1. UNCHANGED <<engrams, live, idCache, now>>
    BY DEF Read
  <2> HIDE DEF d
  <2> QED  BY <1>3, <1>4, <2>1, LocalStep
<1>5. CASE Return(w, "missing")
  BY <1>5, ReturnKeeps DEF Read, Outcomes
<1> QED  BY <1>4, <1>5 DEF Read

LEMMA ActivateKeyKeeps ==
  ASSUME IInv, NEW w \in Workers, ActivateKey(w)
  PROVE  IInv'
<1> DEFINE c == call[w]
           pc == IF c.op = "get" THEN "cache" ELSE "forget"
           d(id) == [c EXCEPT !.id = id, !.pc = pc]
<1>1. GoodCall(engrams, c) /\ c.pc = "activate"
  BY CallAt DEF ActivateKey
<1>2. UNCHANGED <<engrams, live, idCache, now>>
  BY DEF ActivateKey
<1>3. ASSUME NEW id \in Scope(c.t, c.u, c.s, FALSE), engrams[id].key = c.k,
             c.op \in {"get", "delete"}, Goto(w, d(id))
      PROVE  IInv'
  <2>1. FitsIn(engrams, id, c.t, c.u, c.s, c.k)
    BY <1>3 DEF Scope, Vault, FitsIn, IInv, GoodServer
  <2>2. d(id) \in CallType(DOMAIN engrams)
    BY <1>1, <2>1 DEF GoodCall, CallType, FitsIn, PCs
  <2>3. SoundIn(engrams, d(id))
    BY <1>1, <1>3, <2>1 DEF GoodCall, CallType, SoundIn
  <2>4. GoodCall(engrams, d(id))
    BY <2>2, <2>3 DEF GoodCall
  <2> HIDE DEF d
  <2> QED  BY <1>2, <1>3, <2>4, LocalStep
<1>4. CASE \E o \in {"nil", "notFound"} : Return(w, o)
  BY <1>2, <1>4, ReturnKeeps DEF Outcomes
<1>5. c.op \in {"get", "delete"}
  BY <1>1 DEF GoodCall, SoundIn
<1> QED  BY <1>3, <1>4, <1>5 DEF ActivateKey, Activations

LEMMA ForgetKeeps ==
  ASSUME IInv, NEW w \in Workers, Forget(w)
  PROVE  IInv'
<1> DEFINE c == call[w]
           d == [c EXCEPT !.pc = "drop"]
<1>1. GoodCall(engrams, c) /\ c.pc = "forget"
  BY CallAt DEF Forget
<1>2. GoodCall(engrams, d)
  <2>1. d \in CallType(DOMAIN engrams)
    BY <1>1 DEF GoodCall, CallType, PCs
  <2>2. SoundIn(engrams, d)
    BY <1>1 DEF GoodCall, CallType, SoundIn
  <2> QED  BY <2>1, <2>2 DEF GoodCall
<1>3. \A o \in Outcomes : GoodCall(engrams, Returned(c, o))
  BY <1>1, ReturnGood
<1>4. \E e \in {d} \cup {Returned(c, o) : o \in Outcomes} : Goto(w, e)
  BY DEF Forget, Return, Outcomes
<1>5. /\ UNCHANGED <<engrams, idCache, now>>
      /\ GoodServer(engrams', live') /\ Extends(engrams, engrams')
  BY DEF Forget, IInv, GoodServer, Extends
<1>6. PICK e : Goto(w, e) /\ GoodCall(engrams, e)
  BY <1>2, <1>3, <1>4
<1> QED  BY <1>5, <1>6, WorkerStep DEF IInv

LEMMA DropCacheKeeps ==
  ASSUME IInv, NEW w \in Workers, DropCache(w)
  PROVE  IInv'
<1> DEFINE c == call[w]
<1>1. GoodCall(engrams, c) /\ c.pc = "drop"
  BY CallAt DEF DropCache
<1>2. /\ c.t \in Tenants /\ c.u \in TagUsers /\ c.s \in TagSessions
      /\ c.k \in Keys
  BY <1>1 DEF GoodCall, SoundIn, CallType
<1>3. /\ SetIDCache(c.t, c.u, c.s, c.k, NoId) /\ Goto(w, Returned(c, "ok"))
      /\ UNCHANGED <<engrams, live, now>>
  BY DEF DropCache, DeleteIDCache, SetIDCache, Return
<1>4. GoodCall(engrams, Returned(c, "ok"))
  BY <1>1, ReturnGood DEF Outcomes
<1> HIDE DEF c
<1> QED  BY <1>2, <1>3, <1>4, CacheStep

LEMMA ActivateKeeps ==
  ASSUME IInv, NEW w \in Workers, NEW op \in {"search", "recall"},
         NEW t \in Tenants, NEW u \in TagUsers, NEW s \in TagSessions,
         NEW tag \in BOOLEAN, NEW limit \in Limits,
         Activate(w, op, t, u, s, tag, limit)
  PROVE  IInv'
<1> DEFINE c == [NewCall(op, t, u, s) EXCEPT !.tag = tag, !.limit = limit]
           d(A) == [NewCall(op, t, u, s) EXCEPT
                      !.tag = tag, !.limit = limit, !.pc = "items", !.items = A]
<1>1. NewCall(op, t, u, s) \in CallType(DOMAIN engrams)
  BY FreshCall DEF Ops
<1>2. limit \in Nat
  BY ConstantsAssumption
<1>3. UNCHANGED <<engrams, live, idCache, now>>
  BY DEF Activate
<1>4. ASSUME NEW A \in SUBSET Scope(t, u, s, tag), Goto(w, d(A))
      PROVE  IInv'
  <2>1. A \subseteq DOMAIN engrams
    BY DEF IInv, GoodServer, Scope, Vault
  <2>2. d(A) \in CallType(DOMAIN engrams)
    BY <1>1, <1>2, <2>1 DEF CallType, PCs
  <2>3. SoundIn(engrams, d(A))
    BY DEF SoundIn, NewCall, Idle, Scope, Vault
  <2>4. GoodCall(engrams, d(A))
    BY <2>2, <2>3 DEF GoodCall
  <2> HIDE DEF d
  <2> QED  BY <1>3, <1>4, <2>4, LocalStep
<1>5. CASE Goto(w, Returned(c, "failed"))
  <2>1. c \in CallType(DOMAIN engrams)
    BY <1>1, <1>2 DEF CallType
  <2>2. SoundIn(engrams, c)
    BY DEF SoundIn, NewCall, Idle
  <2>3. GoodCall(engrams, Returned(c, "failed"))
    BY <2>1, <2>2, ReturnGood DEF GoodCall, Outcomes
  <2> HIDE DEF c
  <2> QED  BY <1>3, <1>5, <2>3, LocalStep
<1> QED  BY <1>4, <1>5 DEF Activate, Activations

LEMMA ListKeeps ==
  ASSUME IInv, NEW w \in Workers, NEW t \in Tenants, NEW u \in TagUsers,
         NEW s \in TagSessions, NEW tag \in BOOLEAN, List(w, t, u, s, tag)
  PROVE  IInv'
<1> DEFINE d == [NewCall("list", t, u, s) EXCEPT
                   !.tag = tag, !.pc = "page", !.atStart = live]
<1>1. NewCall("list", t, u, s) \in CallType(DOMAIN engrams)
  BY FreshCall DEF Ops
<1>2. d \in CallType(DOMAIN engrams)
  BY <1>1 DEF CallType, PCs, IInv, GoodServer
<1>3. SoundIn(engrams, d)
  BY DEF SoundIn, NewCall, Idle
<1>4. GoodCall(engrams, d)
  BY <1>2, <1>3 DEF GoodCall
<1>5. Goto(w, d) /\ UNCHANGED <<engrams, live, idCache, now>>
  BY DEF List
<1> HIDE DEF d
<1> QED  BY <1>4, <1>5, LocalStep

(* The server's vaults are finite, so a page and a total are numbers. *)
LEMMA VaultFinite ==
  ASSUME IInv, NEW t
  PROVE  Cardinality(Vault(t)) \in Nat
<1>1. IsFiniteSet(1..Len(engrams))
  <2>1. Len(engrams) \in Int
    BY DEF IInv, GoodServer
  <2> QED  BY <2>1, FS_Interval
<1>2. Vault(t) \subseteq 1..Len(engrams)
  BY DEF Vault, IInv, GoodServer
<1> QED  BY <1>1, <1>2, FS_Subset, FS_CardinalityType

LEMMA ListPageKeeps ==
  ASSUME IInv, NEW w \in Workers, ListPage(w)
  PROVE  IInv'
<1> DEFINE c == call[w]
           page == Page(c.t, c.off)
           items == {id \in page : InScope(engrams[id], c.u, c.s, c.tag)}
           full == (Cardinality(page) = PageSize)
           total == Cardinality(Vault(c.t))
           d == [c EXCEPT !.pc = "items", !.items = items, !.full = full,
                          !.total = total]
<1>1. GoodCall(engrams, c) /\ c.pc = "page"
  BY CallAt DEF ListPage
<1>2. Goto(w, d) /\ UNCHANGED <<engrams, live, idCache, now>>
  BY DEF ListPage
<1>3. full \in BOOLEAN /\ total \in Nat
  BY VaultFinite
<1>4. /\ items \subseteq DOMAIN engrams
      /\ \A id \in items : /\ engrams[id].vault = c.t
                            /\ InScope(engrams[id], c.u, c.s, c.tag)
  BY DEF Page, Vault, IInv, GoodServer
<1>5. c.op = "list"
  BY <1>1 DEF GoodCall, SoundIn
<1> HIDE DEF items, full, total
<1>6. d \in CallType(DOMAIN engrams)
  BY <1>1, <1>3, <1>4 DEF GoodCall, CallType, PCs
<1>7. SoundIn(engrams, d)
  BY <1>1, <1>4, <1>5 DEF GoodCall, CallType, SoundIn
<1>8. GoodCall(engrams, d)
  BY <1>6, <1>7 DEF GoodCall
<1> HIDE DEF d
<1> QED  BY <1>2, <1>8, LocalStep

LEMMA CacheItemKeeps ==
  ASSUME IInv, NEW w \in Workers, CacheItem(w)
  PROVE  IInv'
<1> DEFINE c == call[w]
           e(id) == engrams[id]
           d(id) == [c EXCEPT !.items = @ \ {id}, !.count = @ + 1,
                              !.result = @ \cup {id}]
<1>1. GoodCall(engrams, c) /\ c.pc = "items"
  BY CallAt DEF CacheItem
<1>2. PICK id \in c.items :
        /\ SetIDCache(c.t, e(id).user, e(id).session, e(id).key, id)
        /\ Goto(w, d(id))
        /\ UNCHANGED <<engrams, live, now>>
  BY DEF CacheItem
<1>3. id \in DOMAIN engrams /\ e(id) \in EngramType /\ e(id).vault = c.t
  BY <1>1 DEF GoodCall, CallType, SoundIn, IInv, GoodServer
<1>4. /\ c.t \in Tenants /\ e(id).user \in TagUsers
      /\ e(id).session \in TagSessions /\ e(id).key \in Keys
  BY <1>3 DEF EngramType
<1>5. FitsIn(engrams, id, c.t, e(id).user, e(id).session, e(id).key)
  BY <1>3 DEF FitsIn, InScope
<1>6. d(id) \in CallType(DOMAIN engrams)
  <2> DEFINE n == c.count + 1
             rest == c.items \ {id}
             got == c.result \cup {id}
  <2>1. c \in CallType(DOMAIN engrams)
    BY <1>1 DEF GoodCall
  <2>2. /\ n \in Nat /\ rest \in SUBSET DOMAIN engrams
        /\ got \in SUBSET DOMAIN engrams
    BY <1>3, <2>1 DEF CallType
  <2> HIDE DEF n, rest, got
  <2>3. [c EXCEPT !.items = rest, !.count = n, !.result = got]
          \in CallType(DOMAIN engrams)
    BY <2>1, <2>2 DEF CallType
  <2> QED  BY <2>3 DEF n, rest, got
<1>7. SoundIn(engrams, d(id))
  BY <1>1, <1>2, <1>3 DEF GoodCall, CallType, SoundIn
<1>8. GoodCall(engrams, d(id))
  BY <1>6, <1>7 DEF GoodCall
<1> HIDE DEF c, d, e
<1> QED  BY <1>2, <1>4, <1>5, <1>8, CacheStep

LEMMA ItemsDoneKeeps ==
  ASSUME IInv, NEW w \in Workers, ItemsDone(w)
  PROVE  IInv'
<1> DEFINE c == call[w]
           d == [c EXCEPT !.pc = "page", !.off = c.off + PageSize]
<1>1. GoodCall(engrams, c) /\ c.pc = "items"
  BY CallAt DEF ItemsDone
<1>2. UNCHANGED <<engrams, live, idCache, now>>
  BY DEF ItemsDone
<1>3. CASE c.op = "list" /\ Goto(w, d)
  <2>1. d \in CallType(DOMAIN engrams)
    <3> DEFINE n == c.off + PageSize
    <3>1. c \in CallType(DOMAIN engrams)
      BY <1>1 DEF GoodCall
    <3>2. n \in Nat /\ "page" \in PCs
      BY <3>1, ConstantsAssumption DEF CallType, PCs
    <3> HIDE DEF n
    <3>3. [c EXCEPT !.pc = "page", !.off = n] \in CallType(DOMAIN engrams)
      BY <3>1, <3>2 DEF CallType
    <3> QED  BY <3>3 DEF n
  <2>2. SoundIn(engrams, d)
    BY <1>1, <1>3 DEF GoodCall, CallType, SoundIn
  <2>3. GoodCall(engrams, d)
    BY <2>1, <2>2 DEF GoodCall
  <2> HIDE DEF d
  <2> QED  BY <1>2, <1>3, <2>3, LocalStep
<1>4. CASE Return(w, "ok")
  BY <1>2, <1>4, ReturnKeeps DEF Outcomes
<1> QED  BY <1>3, <1>4 DEF ItemsDone, NextOffset

LEMMA WriteBatchKeeps ==
  ASSUME IInv, NEW w \in Workers, NEW t \in Tenants, NEW u \in TagUsers,
         NEW s \in TagSessions, NEW K \in SUBSET Keys, NEW tag \in BOOLEAN,
         WriteBatch(w, t, u, s, K, tag)
  PROVE  IInv'
<1> DEFINE d == [NewCall("batch", t, u, s) EXCEPT
                   !.tag = tag, !.keys = K, !.pc = "send"]
<1>1. NewCall("batch", t, u, s) \in CallType(DOMAIN engrams)
  BY FreshCall DEF Ops
<1>2. d \in CallType(DOMAIN engrams)
  BY <1>1 DEF CallType, PCs
<1>3. SoundIn(engrams, d)
  BY DEF SoundIn, NewCall, Idle
<1>4. GoodCall(engrams, d)
  BY <1>2, <1>3 DEF GoodCall
<1>5. Goto(w, d) /\ UNCHANGED <<engrams, live, idCache, now>>
  BY DEF WriteBatch
<1> HIDE DEF d
<1> QED  BY <1>4, <1>5, LocalStep

LEMMA SendChunkKeeps ==
  ASSUME IInv, NEW w \in Workers, SendChunk(w)
  PROVE  IInv'
<1> DEFINE c == call[w]
           d(C) == [c EXCEPT !.pc = "serve", !.chunk = C, !.sent = c.sent \cup C]
<1>1. GoodCall(engrams, c) /\ c.pc = "send"
  BY CallAt DEF SendChunk
<1>2. UNCHANGED <<engrams, live, idCache, now>>
  BY DEF SendChunk
<1>3. ASSUME NEW C \in SUBSET (c.keys \ c.sent), Goto(w, d(C))
      PROVE  IInv'
  <2>1. d(C) \in CallType(DOMAIN engrams)
    BY <1>1 DEF GoodCall, CallType, PCs
  <2>2. SoundIn(engrams, d(C))
    BY <1>1 DEF GoodCall, CallType, SoundIn
  <2>3. GoodCall(engrams, d(C))
    BY <2>1, <2>2 DEF GoodCall
  <2> HIDE DEF d
  <2> QED  BY <1>2, <1>3, <2>3, LocalStep
<1>4. CASE Return(w, "ok")
  BY <1>2, <1>4, ReturnKeeps DEF Outcomes
<1> QED  BY <1>3, <1>4 DEF SendChunk, Chunks, Sent

(* One more answer, about an id that fits when it names one. *)
LEMMA AnsweredGood ==
  ASSUME NEW E, NEW c, GoodCall(E, c), NEW k \in Keys, NEW id, NEW err \in BOOLEAN,
         id = NoId \/ FitsIn(E, id, c.t, c.u, c.s, k)
  PROVE  GoodCall(E, [c EXCEPT !.chunk = @ \ {k},
                               !.answers = @ \cup {Answer(k, id, err)},
                               !.stored = IF err THEN @ ELSE @ \cup {k}])
<1> DEFINE more == c.answers \cup {Answer(k, id, err)}
           stored == IF err THEN c.stored ELSE c.stored \cup {k}
           rest == c.chunk \ {k}
           d == [c EXCEPT !.chunk = rest, !.answers = more, !.stored = stored]
<1>1. c \in CallType(DOMAIN E)
  BY DEF GoodCall
<1>2. Answer(k, id, err) \in AnswerType(DOMAIN E)
  BY DEF Answer, AnswerType, FitsIn
<1>3. /\ more \in SUBSET AnswerType(DOMAIN E) /\ stored \in SUBSET Keys
      /\ rest \in SUBSET Keys
  BY <1>1, <1>2 DEF CallType
<1>4. \A a \in more : a.id # NoId => FitsIn(E, a.id, c.t, c.u, c.s, a.key)
  BY DEF GoodCall, SoundIn, Answer
<1> HIDE DEF more, stored, rest
<1>5. d \in CallType(DOMAIN E)
  BY <1>1, <1>3 DEF CallType
<1>6. SoundIn(E, d)
  BY <1>1, <1>4 DEF GoodCall, CallType, SoundIn
<1> QED  BY <1>5, <1>6 DEF GoodCall, more, stored, rest

LEMMA ServeItemKeeps ==
  ASSUME IInv, NEW w \in Workers, ServeItem(w)
  PROVE  IInv'
<1> DEFINE c == call[w]
           d(k, id, err) ==
             [c EXCEPT !.chunk = @ \ {k}, !.answers = @ \cup {Answer(k, id, err)},
                       !.stored = IF err THEN @ ELSE @ \cup {k}]
<1>1. GoodCall(engrams, c) /\ c.pc = "serve"
  BY CallAt DEF ServeItem
<1>2. /\ c.t \in Tenants /\ c.u \in TagUsers /\ c.s \in TagSessions
      /\ c.chunk \in SUBSET Keys /\ c.tag \in BOOLEAN
  BY <1>1 DEF GoodCall, SoundIn, CallType
<1>3. idCache' = idCache /\ now' = now
  BY DEF ServeItem
<1>4. ASSUME NEW k \in c.chunk, Goto(w, d(k, NoId, TRUE)),
             UNCHANGED <<engrams, live>>
      PROVE  IInv'
  <2>1. GoodCall(engrams, d(k, NoId, TRUE))
    BY <1>1, <1>2, AnsweredGood
  <2> HIDE DEF d
  <2> QED  BY <1>3, <1>4, <2>1, LocalStep
<1>5. ASSUME NEW k \in c.chunk, NEW id, ServerWrites(c.t, c.u, c.s, k, Tagged(k, c.tag), id),
             Goto(w, d(k, id, FALSE)) \/ Goto(w, d(k, NoId, FALSE))
      PROVE  IInv'
  <2>1. /\ GoodServer(engrams', live') /\ Extends(engrams, engrams')
        /\ FitsIn(engrams', id, c.t, c.u, c.s, k)
    <3>1. Tagged(k, c.tag) \in BOOLEAN /\ k \in Keys
      BY <1>2, TagIsBoolean
    <3> QED  BY <1>2, <1>5, <3>1, Written
  <2>2. GoodCall(engrams', c) /\ GoodCache(engrams', idCache')
    BY <1>1, <1>3, <2>1, CallExtends, CacheExtends DEF IInv
  <2>3. GoodCall(engrams', d(k, id, FALSE)) /\ GoodCall(engrams', d(k, NoId, FALSE))
    BY <1>2, <2>1, <2>2, AnsweredGood
  <2> HIDE DEF d
  <2> QED  BY <1>3, <1>5, <2>1, <2>2, <2>3, WorkerStep
<1>6. ASSUME NEW k \in c.chunk, Goto(w, [c EXCEPT !.chunk = @ \ {k}]),
             UNCHANGED <<engrams, live>>
      PROVE  IInv'
  <2> DEFINE silent == [c EXCEPT !.chunk = @ \ {k}]
  <2>1. silent \in CallType(DOMAIN engrams)
    BY <1>1, <1>2 DEF GoodCall, CallType
  <2>2. SoundIn(engrams, silent)
    BY <1>1 DEF GoodCall, CallType, SoundIn
  <2>3. GoodCall(engrams, silent)
    BY <2>1, <2>2 DEF GoodCall
  <2> HIDE DEF silent
  <2> QED  BY <1>3, <1>6, <2>3, LocalStep DEF silent
<1> QED  BY <1>4, <1>5, <1>6 DEF ServeItem

(* Between chunks only the program counter moves. *)
LEMMA TurnKeeps ==
  ASSUME IInv, NEW w \in Workers, ReceiveResults(w) \/ NextChunk(w)
  PROVE  IInv'
<1> DEFINE c == call[w]
           d(pc) == [c EXCEPT !.pc = pc]
<1>1. GoodCall(engrams, c) /\ c.pc \in {"serve", "results"}
  BY CallAt DEF ReceiveResults, NextChunk
<1>2. ASSUME NEW pc \in {"results", "send"} PROVE GoodCall(engrams, d(pc))
  <2>1. d(pc) \in CallType(DOMAIN engrams)
    BY <1>1 DEF GoodCall, CallType, PCs
  <2>2. SoundIn(engrams, d(pc))
    BY <1>1 DEF GoodCall, CallType, SoundIn
  <2> QED  BY <2>1, <2>2 DEF GoodCall
<1>3. /\ Goto(w, d("results")) \/ Goto(w, d("send"))
      /\ UNCHANGED <<engrams, live, idCache, now>>
  BY DEF ReceiveResults, NextChunk
<1> HIDE DEF d
<1> QED  BY <1>2, <1>3, LocalStep

LEMMA CacheResultKeeps ==
  ASSUME IInv, NEW w \in Workers, CacheResult(w)
  PROVE  IInv'
<1> DEFINE c == call[w]
           d(a) == [c EXCEPT !.answers = @ \ {a}]
<1>1. GoodCall(engrams, c) /\ c.pc = "results"
  BY CallAt DEF CacheResult
<1>2. /\ c.t \in Tenants /\ c.u \in TagUsers /\ c.s \in TagSessions
      /\ \A a \in c.answers :
           /\ a.key \in Keys
           /\ a.id # NoId => FitsIn(engrams, a.id, c.t, c.u, c.s, a.key)
  BY <1>1 DEF GoodCall, SoundIn, CallType, AnswerType
<1>3. UNCHANGED <<engrams, live, now>>
  BY DEF CacheResult
<1>4. ASSUME NEW a \in c.answers PROVE GoodCall(engrams, d(a))
  <2>1. d(a) \in CallType(DOMAIN engrams)
    BY <1>1 DEF GoodCall, CallType
  <2>2. SoundIn(engrams, d(a))
    BY <1>1 DEF GoodCall, CallType, SoundIn
  <2> QED  BY <2>1, <2>2 DEF GoodCall
<1>5. CASE Return(w, "failed") /\ UNCHANGED idCache
  BY <1>3, <1>5, ReturnKeeps DEF Outcomes
<1>6. ASSUME NEW a \in c.answers, Goto(w, d(a)), UNCHANGED idCache
      PROVE  IInv'
  <2>1. GoodCall(engrams, d(a))
    BY <1>4
  <2> HIDE DEF d
  <2> QED  BY <1>3, <1>6, <2>1, LocalStep
<1>7. ASSUME NEW a \in c.answers, a.id # NoId, Goto(w, d(a)),
             SetIDCache(c.t, c.u, c.s, a.key, a.id)
      PROVE  IInv'
  <2>1. GoodCall(engrams, d(a))
    BY <1>4
  <2> HIDE DEF d, c
  <2> QED  BY <1>2, <1>3, <1>7, <2>1, CacheStep
<1> QED  BY <1>5, <1>6, <1>7 DEF CacheResult, KeyOf

LEMMA EmptyCacheGood ==
  ASSUME NEW E
  PROVE  GoodCache(E, [t \in Tenants |-> [x \in CacheKeys |-> NoId]])
<1> DEFINE m == [t \in Tenants |-> [x \in CacheKeys |-> NoId]]
<1>1. m \in [Tenants -> [CacheKeys -> DOMAIN E \cup {NoId}]]
  OBVIOUS
<1>2. ASSUME NEW t \in Tenants, NEW u \in TagUsers, NEW s \in TagSessions,
             NEW k \in Keys
      PROVE  m[t][CacheKey(u, s, k)] = NoId
  <2>1. CacheKey(u, s, k) \in CacheKeys
    BY DEF CacheKeys
  <2> QED  BY <2>1
<1> QED  BY <1>1, <1>2 DEF GoodCache

LEMMA IdleCallsGood ==
  ASSUME NEW E
  PROVE  GoodCalls(E, [w \in Workers |-> Idle])
<1>1. PICK t : t \in Tenants
  BY ConstantsAssumption
<1>2. Idle \in CallType(DOMAIN E) /\ SoundIn(E, Idle)
  BY <1>1, FreshCall DEF Ops, TagUsers, TagSessions
<1> HIDE DEF Idle
<1> QED  BY <1>2 DEF GoodCalls

LEMMA InitKeeps == Init => IInv
BY EmptyCacheGood, IdleCallsGood DEF Init, IInv, GoodServer

LEMMA BeginKeeps ==
  ASSUME IInv, NEW w \in Workers, Begin(w)
  PROVE  IInv'
<1>1. PICK t \in Tenants, u \in Users, s \in Sessions :
        \/ \E k \in Keys : Set(w, t, u, s, k) \/ SaveTurn(w, t, u, s, k)
                             \/ Get(w, t, u, s, k) \/ Delete(w, t, u, s, k)
        \/ \E op \in {"search", "recall"}, tag \in BOOLEAN, limit \in Limits :
             Activate(w, op, t, u, s, tag, limit)
        \/ \E tag \in BOOLEAN : List(w, t, u, s, tag)
        \/ \E K \in SUBSET Keys : SetBatch(w, t, u, s, K) \/ SetProfile(w, t, u, K)
  BY DEF Begin
<1>2. u \in TagUsers /\ s \in TagSessions /\ Empty \in TagSessions
  BY DEF TagUsers, TagSessions
<1>3. ASSUME NEW k \in Keys, Set(w, t, u, s, k) \/ SaveTurn(w, t, u, s, k)
      PROVE  IInv'
  <2>1. Tagged(k, FALSE) \in BOOLEAN
    BY TagIsBoolean
  <2> QED  BY <1>2, <1>3, <2>1, WriteKeeps DEF Set, SaveTurn
<1>4. ASSUME NEW k \in Keys, Get(w, t, u, s, k) \/ Delete(w, t, u, s, k)
      PROVE  IInv'
  BY <1>2, <1>4, LookupKeeps
<1>5. ASSUME NEW op \in {"search", "recall"}, NEW tag \in BOOLEAN,
             NEW limit \in Limits, Activate(w, op, t, u, s, tag, limit)
      PROVE  IInv'
  BY <1>2, <1>5, ActivateKeeps
<1>6. ASSUME NEW tag \in BOOLEAN, List(w, t, u, s, tag) PROVE IInv'
  BY <1>2, <1>6, ListKeeps
<1>7. ASSUME NEW K \in SUBSET Keys, SetBatch(w, t, u, s, K) PROVE IInv'
  BY <1>2, <1>7, WriteBatchKeeps DEF SetBatch
<1>8. ASSUME NEW K \in SUBSET Keys, SetProfile(w, t, u, K) PROVE IInv'
  BY <1>2, <1>8, WriteBatchKeeps DEF SetProfile
<1> QED  BY <1>1, <1>3, <1>4, <1>5, <1>6, <1>7, <1>8

LEMMA StepKeeps ==
  ASSUME IInv, NEW w \in Workers, Step(w)
  PROVE  IInv'
<1>1. CASE RequestFails(w)
  BY <1>1, ReturnKeeps DEF RequestFails, Outcomes
<1> QED  BY <1>1, CacheOwnKeeps, ReadKeeps, ActivateKeyKeeps, ForgetKeeps,
            DropCacheKeeps, ListPageKeeps, CacheItemKeeps, ItemsDoneKeeps,
            SendChunkKeeps, ServeItemKeeps, TurnKeeps, CacheResultKeeps DEF Step

LEMMA NextKeeps ==
  ASSUME IInv, [Next]_vars
  PROVE  IInv'
<1>1. CASE \E w \in Workers : Begin(w) \/ Step(w)
  BY <1>1, BeginKeeps, StepKeeps
<1>2. CASE Tick
  BY <1>2 DEF Tick, IInv
<1>3. CASE Restart
  BY <1>3, EmptyCacheGood, IdleCallsGood DEF Restart, IInv
<1>4. CASE UNCHANGED vars
  BY <1>4 DEF vars, IInv
<1> QED  BY <1>1, <1>2, <1>3, <1>4 DEF Next

(* Of all steps only Forget takes an engram away. *)
LEMMA OnlyForgetRemoves ==
  ASSUME [Next]_vars, NEW id \in live, id \notin live'
  PROVE  \E w \in Workers : Forget(w)
<1>1. ASSUME NEW w \in Workers, Begin(w) PROVE FALSE
  <2>1. ASSUME NEW t, NEW u, NEW s, NEW k, Set(w, t, u, s, k) \/ SaveTurn(w, t, u, s, k)
        PROVE  FALSE
    <3>1. ASSUME NEW tag, Write(w, t, u, s, k, tag) PROVE live \subseteq live'
      BY <3>1 DEF Write, ServerWrites
    <3> QED  BY <2>1, <3>1 DEF Set, SaveTurn
  <2>2. \A t, u, s, k : ~Get(w, t, u, s, k) /\ ~Delete(w, t, u, s, k)
    BY DEF Get, Delete
  <2>3. ASSUME NEW op, NEW t, NEW u, NEW s, NEW tag, NEW limit,
               Activate(w, op, t, u, s, tag, limit)
        PROVE  FALSE
    <3>1. live' = live
      BY <2>3 DEF Activate
    <3> QED  BY <3>1
  <2>4. \A t, u, s, tag : ~List(w, t, u, s, tag)
    BY DEF List
  <2>5. \A t, u, s, K : ~SetBatch(w, t, u, s, K) /\ ~SetProfile(w, t, u, K)
    BY DEF SetBatch, SetProfile, WriteBatch
  <2> QED  BY <1>1, <2>1, <2>2, <2>3, <2>4, <2>5 DEF Begin
<1>2. ASSUME NEW w \in Workers, Step(w), ~Forget(w) PROVE FALSE
  <2>1. ~ServeItem(w)
    BY DEF ServeItem, ServerWrites
  <2>2. ~CacheOwn(w) /\ ~Read(w) /\ ~ActivateKey(w) /\ ~DropCache(w)
    BY DEF CacheOwn, Read, ActivateKey, DropCache
  <2>3. ~ListPage(w) /\ ~CacheItem(w) /\ ~ItemsDone(w) /\ ~SendChunk(w)
    BY DEF ListPage, CacheItem, ItemsDone, SendChunk
  <2>4. ~ReceiveResults(w) /\ ~CacheResult(w) /\ ~NextChunk(w) /\ ~RequestFails(w)
    BY DEF ReceiveResults, CacheResult, NextChunk, RequestFails
  <2> QED  BY <1>2, <2>1, <2>2, <2>3, <2>4 DEF Step
<1>3. ~Tick /\ ~Restart /\ ~UNCHANGED vars
  BY DEF Tick, Restart, vars
<1> QED  BY <1>1, <1>2, <1>3 DEF Next

THEOREM Invariance == Spec => []IInv
<1>1. Init => IInv
  BY InitKeeps
<1>2. IInv /\ [Next]_vars => IInv'
  BY NextKeeps
<1> QED  BY <1>1, <1>2, PTL DEF Spec

-----------------------------------------------------------------------------
(* What a step leaves as it was. *)

(* A step moves one call and no other. *)
LEMMA CallGoes ==
  ASSUME IInv, NEW w \in Workers, NEW d, Goto(w, d)
  PROVE  call'[w] = d /\ \A v \in Workers \ {w} : call'[v] = call[v]
BY DEF IInv, GoodCalls, Goto

(* The server only ever appends engrams. *)
LEMMA OnlyAppends ==
  ASSUME [Next]_vars
  PROVE  engrams' = engrams \/ \E e : engrams' = Append(engrams, e)
<1> DEFINE grows == engrams' = engrams \/ \E e : engrams' = Append(engrams, e)
<1>1. ASSUME NEW t, NEW u, NEW s, NEW k, NEW tag, NEW id,
             ServerWrites(t, u, s, k, tag, id)
      PROVE  grows
  BY <1>1 DEF ServerWrites
<1> HIDE DEF grows
<1>2. ASSUME NEW w \in Workers, Begin(w) PROVE grows
  <2>1. ASSUME NEW t, NEW u, NEW s, NEW k, NEW tag, Write(w, t, u, s, k, tag)
        PROVE  grows
    <3>1. CASE UNCHANGED engrams
      BY <3>1 DEF grows
    <3> QED  BY <2>1, <1>1, <3>1 DEF Write
  <2>2. ASSUME UNCHANGED engrams PROVE grows
    BY <2>2 DEF grows
  <2>3. ASSUME NEW t, NEW u, NEW s, NEW k, Get(w, t, u, s, k) \/ Delete(w, t, u, s, k)
        PROVE  grows
    BY <2>2, <2>3 DEF Get, Delete
  <2>4. ASSUME NEW op, NEW t, NEW u, NEW s, NEW tag, NEW limit,
               Activate(w, op, t, u, s, tag, limit)
        PROVE  grows
    BY <2>2, <2>4 DEF Activate
  <2>5. ASSUME NEW t, NEW u, NEW s, NEW tag, List(w, t, u, s, tag) PROVE grows
    BY <2>2, <2>5 DEF List
  <2>6. ASSUME NEW t, NEW u, NEW s, NEW K, NEW tag, WriteBatch(w, t, u, s, K, tag)
        PROVE  grows
    BY <2>2, <2>6 DEF WriteBatch
  <2> QED  BY <1>2, <2>1, <2>3, <2>4, <2>5, <2>6
           DEF Begin, Set, SaveTurn, SetBatch, SetProfile
<1>3. ASSUME NEW w \in Workers, Step(w) PROVE grows
  <2>1. ASSUME UNCHANGED engrams PROVE grows
    BY <2>1 DEF grows
  <2>2. CASE ServeItem(w)
    BY <2>1, <2>2, <1>1 DEF ServeItem
  <2> QED  BY <1>3, <2>1, <2>2
           DEF Step, CacheOwn, Read, ActivateKey, Forget, DropCache, ListPage,
               CacheItem, ItemsDone, SendChunk, ReceiveResults, CacheResult,
               NextChunk, RequestFails
<1>4. ASSUME Tick \/ Restart \/ UNCHANGED vars PROVE grows
  BY <1>4 DEF Tick, Restart, vars, grows
<1> QED  BY <1>2, <1>3, <1>4 DEF Next, grows

LEMMA ServerExtends ==
  ASSUME IInv, [Next]_vars
  PROVE  Extends(engrams, engrams')
<1>1. engrams \in Seq(EngramType)
  BY DEF IInv, GoodServer
<1>2. engrams' \in Seq(EngramType)
  BY NextKeeps DEF IInv, GoodServer
<1>3. CASE engrams' = engrams
  BY <1>3 DEF Extends
<1>4. ASSUME NEW e, engrams' = Append(engrams, e) PROVE Extends(engrams, engrams')
  BY <1>1, <1>4 DEF Extends
<1> QED  BY <1>3, <1>4, OnlyAppends

SameRequest(c, d) ==
  /\ d.op = c.op /\ d.t = c.t /\ d.u = c.u /\ d.s = c.s /\ d.k = c.k
  /\ d.tag = c.tag /\ d.keys = c.keys /\ d.atStart = c.atStart

(* A call keeps what it was asked from its first step to its last. *)
LEMMA StepKeepsRequest ==
  ASSUME IInv, NEW w \in Workers, Step(w)
  PROVE  /\ SameRequest(call[w], call'[w])
         /\ \A v \in Workers \ {w} : call'[v] = call[v]
<1> DEFINE same(d) == SameRequest(call[w], d)
<1>1. call \in [Workers -> CallType(DOMAIN engrams)]
  BY DEF IInv, GoodCalls
<1>2. ASSUME NEW d, Goto(w, d), same(d)
      PROVE  same(call'[w]) /\ \A v \in Workers \ {w} : call'[v] = call[v]
  BY <1>1, <1>2 DEF Goto
<1>3. call[w] \in CallType(DOMAIN engrams)
  BY <1>1
<1>4. \A outcome : same(Returned(call[w], outcome))
  BY <1>3 DEF Returned, CallType, SameRequest
<1> DEFINE c == call[w]
<1>5. CASE CacheOwn(w)
  <2> DEFINE d == [Returned(c, "ok") EXCEPT
                     !.result = IF c.op = "get" THEN {c.id} ELSE {}]
  <2>1. same(d)
    BY <1>3 DEF Returned, CallType, SameRequest
  <2>2. Goto(w, d)
    BY <1>5 DEF CacheOwn
  <2> HIDE DEF d
  <2> QED  BY <2>1, <2>2, <1>2
<1>6. CASE Read(w)
  <2> DEFINE d == [Returned(c, "ok") EXCEPT !.result = {c.id}]
  <2>1. same(d)
    BY <1>3 DEF Returned, CallType, SameRequest
  <2>2. Goto(w, d) \/ Goto(w, Returned(c, "missing"))
    BY <1>6 DEF Read, Return
  <2> QED  BY <2>1, <2>2, <1>2, <1>4
<1>7. CASE ActivateKey(w)
  <2> DEFINE d(id, pc) == [c EXCEPT !.id = id, !.pc = pc]
  <2>1. \A id, pc : same(d(id, pc))
    BY <1>3 DEF CallType, SameRequest
  <2>2. \/ \E id, pc : Goto(w, d(id, pc))
        \/ \E outcome : Goto(w, Returned(c, outcome))
    BY <1>7 DEF ActivateKey, Return
  <2> QED  BY <2>1, <2>2, <1>2, <1>4
<1>8. CASE Forget(w) \/ DropCache(w) \/ RequestFails(w)
  <2> DEFINE d == [c EXCEPT !.pc = "drop"]
  <2>1. same(d)
    BY <1>3 DEF CallType, SameRequest
  <2>2. Goto(w, d) \/ \E outcome : Goto(w, Returned(c, outcome))
    BY <1>8 DEF Forget, DropCache, RequestFails, Return
  <2> QED  BY <2>1, <2>2, <1>2, <1>4
<1>9. CASE ListPage(w)
  <2> DEFINE d(I, f, n) ==
               [c EXCEPT !.pc = "items", !.items = I, !.full = f, !.total = n]
  <2>1. \A I, f, n : same(d(I, f, n))
    BY <1>3 DEF CallType, SameRequest
  <2>2. PICK I, f, n : Goto(w, d(I, f, n))
    BY <1>9 DEF ListPage
  <2>3. same(d(I, f, n))
    BY <2>1
  <2> HIDE DEF d
  <2> QED  BY <2>2, <2>3, <1>2
<1>10. CASE CacheItem(w)
  <2> DEFINE d(id) == [c EXCEPT !.items = @ \ {id}, !.count = @ + 1,
                                !.result = @ \cup {id}]
  <2>1. \A id : same(d(id))
    BY <1>3 DEF CallType, SameRequest
  <2>2. \E id : Goto(w, d(id))
    BY <1>10 DEF CacheItem
  <2> QED  BY <2>1, <2>2, <1>2
<1>11. CASE ItemsDone(w)
  <2> DEFINE d == [c EXCEPT !.pc = "page", !.off = NextOffset(c)]
  <2>1. same(d)
    BY <1>3 DEF CallType, SameRequest
  <2>2. Goto(w, d) \/ Goto(w, Returned(c, "ok"))
    BY <1>11 DEF ItemsDone, Return
  <2> QED  BY <2>1, <2>2, <1>2, <1>4
<1>12. CASE SendChunk(w)
  <2> DEFINE d(C) == [c EXCEPT !.pc = "serve", !.chunk = C, !.sent = Sent(c, C)]
  <2>1. \A C : same(d(C))
    BY <1>3 DEF CallType, SameRequest
  <2>2. Goto(w, Returned(c, "ok")) \/ \E C : Goto(w, d(C))
    BY <1>12 DEF SendChunk, Return
  <2> QED  BY <2>1, <2>2, <1>2, <1>4
<1>13. CASE ServeItem(w)
  <2> DEFINE d(k, id, err) ==
        [c EXCEPT !.chunk = @ \ {k}, !.answers = @ \cup {Answer(k, id, err)},
                  !.stored = IF err THEN @ ELSE @ \cup {k}]
  <2>1. \A k, id, err : same(d(k, id, err))
    BY <1>3 DEF CallType, SameRequest
  <2> DEFINE silent(k) == [c EXCEPT !.chunk = @ \ {k}]
  <2>2. \/ \E k, id, err : Goto(w, d(k, id, err))
        \/ \E k : Goto(w, silent(k))
    BY <1>13 DEF ServeItem
  <2>3. \A k : same(silent(k))
    BY <1>3 DEF CallType, SameRequest
  <2> HIDE DEF d, silent
  <2> QED  BY <2>1, <2>2, <2>3, <1>2
<1>14. CASE ReceiveResults(w) \/ NextChunk(w)
  <2> DEFINE d(pc) == [c EXCEPT !.pc = pc]
  <2>1. \A pc : same(d(pc))
    BY <1>3 DEF CallType, SameRequest
  <2>2. \E pc : Goto(w, d(pc))
    BY <1>14 DEF ReceiveResults, NextChunk
  <2> QED  BY <2>1, <2>2, <1>2
<1>15. CASE CacheResult(w)
  <2> DEFINE d(a) == [c EXCEPT !.answers = @ \ {a}]
  <2>1. \A a : same(d(a))
    BY <1>3 DEF CallType, SameRequest
  <2>2. Goto(w, Returned(c, "failed")) \/ \E a : Goto(w, d(a))
    BY <1>15 DEF CacheResult, Return
  <2> QED  BY <2>1, <2>2, <1>2, <1>4
<1> QED  BY <1>5, <1>6, <1>7, <1>8, <1>9, <1>10, <1>11, <1>12, <1>13, <1>14,
            <1>15 DEF Step

(* A call that is writing a batch. *)
InBatch(c) == c.pc \in {"send", "serve", "results"}

(* How a call begins; no call begins by forgetting anything. *)
Opened(d) ==
  /\ d.op = "set" => \/ d.pc = "cache" /\ d.outcome = "none"
                     \/ d.pc = "done" /\ d.outcome = "failed"
  /\ d.op = "list" =>
       /\ d.pc = "page" /\ d.off = 0 /\ d.count = 0
       /\ d.result = {} /\ d.atStart = live /\ d.outcome = "none"
  /\ d.op = "batch" => d.pc = "send" /\ d.stored = {} /\ d.outcome = "none"
  /\ InBatch(d) => d.op = "batch"
  /\ d.op = "delete" => ~d.tag

LEMMA BeginOpens ==
  ASSUME IInv, NEW w \in Workers, Begin(w)
  PROVE  /\ Opened(call'[w]) /\ live \subseteq live'
         /\ \A v \in Workers \ {w} : call'[v] = call[v]
<1> DEFINE grows == live \subseteq live'
           goal == /\ Opened(call'[w]) /\ grows
                   /\ \A v \in Workers \ {w} : call'[v] = call[v]
<1>1. ASSUME NEW d, Goto(w, d), Opened(d), grows PROVE goal
  BY <1>1, CallGoes
<1>2. live' = live => grows
  OBVIOUS
<1>3. ASSUME NEW t, NEW u, NEW s, NEW k, NEW tag, NEW id,
             ServerWrites(t, u, s, k, tag, id)
      PROVE  grows
  BY <1>3 DEF ServerWrites
<1> HIDE DEF goal, grows
<1>4. ASSUME NEW t, NEW u, NEW s, NEW k, NEW tag, Write(w, t, u, s, k, tag)
      PROVE  goal
  <2> DEFINE c == [NewCall("set", t, u, s) EXCEPT !.k = k]
             d(id) == [c EXCEPT !.pc = "cache", !.id = id]
             failed == Returned(c, "failed")
  <2>1. Opened(failed)
    BY DEF Returned, NewCall, Idle, Opened, InBatch
  <2>2. \A id : Opened(d(id))
    BY DEF NewCall, Idle, Opened, InBatch
  <2>3. Goto(w, failed) \/ \E id : Goto(w, d(id))
    BY <1>4 DEF Write
  <2>4. live' = live \/ \E id : ServerWrites(t, u, s, k, tag, id)
    BY <1>4 DEF Write
  <2>5. grows
    BY <1>2, <1>3, <2>4
  <2> HIDE DEF c, d, failed
  <2> QED  BY <1>1, <2>1, <2>2, <2>3, <2>5
<1>5. ASSUME NEW t, NEW u, NEW s, NEW k, Get(w, t, u, s, k) \/ Delete(w, t, u, s, k)
      PROVE  goal
  <2> DEFINE d(op, id, pc) == [NewCall(op, t, u, s) EXCEPT !.k = k, !.id = id, !.pc = pc]
  <2>1. \A op \in {"get", "delete"}, pc \in {"read", "forget", "activate"} :
          \A id : Opened(d(op, id, pc))
    BY DEF NewCall, Idle, Opened, InBatch
  <2>2. \E op \in {"get", "delete"}, pc \in {"read", "forget", "activate"} :
          \E id : Goto(w, d(op, id, pc))
    BY <1>5 DEF Get, Delete
  <2>3. grows
    BY <1>2, <1>5 DEF Get, Delete
  <2> HIDE DEF d
  <2> QED  BY <1>1, <2>1, <2>2, <2>3
<1>6. ASSUME NEW op, NEW t, NEW u, NEW s, NEW tag, NEW limit,
             Activate(w, op, t, u, s, tag, limit)
      PROVE  goal
  <2> DEFINE c == [NewCall(op, t, u, s) EXCEPT !.tag = tag, !.limit = limit]
             d(A) == [c EXCEPT !.pc = "items", !.items = A]
             failed == Returned(c, "failed")
  <2>1. op \in {"search", "recall"}
    BY <1>6 DEF Activate
  <2>2. Opened(failed)
    BY <2>1 DEF Returned, NewCall, Idle, Opened, InBatch
  <2>3. \A A : Opened(d(A))
    BY <2>1 DEF NewCall, Idle, Opened, InBatch
  <2>4. Goto(w, failed) \/ \E A : Goto(w, d(A))
    BY <1>6 DEF Activate
  <2>5. grows
    BY <1>2, <1>6 DEF Activate
  <2> HIDE DEF c, d, failed
  <2> QED  BY <1>1, <2>2, <2>3, <2>4, <2>5
<1>7. ASSUME NEW t, NEW u, NEW s, NEW tag, List(w, t, u, s, tag) PROVE goal
  <2> DEFINE d == [NewCall("list", t, u, s) EXCEPT !.tag = tag, !.pc = "page", !.atStart = live]
  <2>1. Opened(d)
    BY DEF NewCall, Idle, Opened, InBatch
  <2>2. Goto(w, d) /\ grows
    BY <1>2, <1>7 DEF List
  <2> HIDE DEF d
  <2> QED  BY <1>1, <2>1, <2>2
<1>8. ASSUME NEW t, NEW u, NEW s, NEW K, NEW tag, WriteBatch(w, t, u, s, K, tag)
      PROVE  goal
  <2> DEFINE d == [NewCall("batch", t, u, s) EXCEPT !.tag = tag, !.keys = K, !.pc = "send"]
  <2>1. Opened(d)
    BY DEF NewCall, Idle, Opened, InBatch
  <2>2. Goto(w, d) /\ grows
    BY <1>2, <1>8 DEF WriteBatch
  <2> HIDE DEF d
  <2> QED  BY <1>1, <2>1, <2>2
<1>9. goal
  BY <1>4, <1>5, <1>6, <1>7, <1>8 DEF Begin, Set, SaveTurn, SetBatch, SetProfile
<1> QED  BY <1>9 DEF goal, grows

(* No other call turns into a batch. *)
LEMMA NoBatchStep ==
  ASSUME IInv, NEW w \in Workers, Step(w), ~ InBatch(call[w])
  PROVE  ~ InBatch(call'[w])
<1> DEFINE c == call[w]
           goal == ~ InBatch(call'[w])
<1>1. c \in CallType(DOMAIN engrams)
  BY CallAt DEF GoodCall
<1>2. ASSUME NEW d, Goto(w, d), d.pc \in PCs \ {"send", "serve", "results"} PROVE goal
  BY <1>2, CallGoes DEF InBatch
<1>3. ASSUME NEW outcome, Return(w, outcome) PROVE goal
  <2>1. Returned(c, outcome).pc = "done"
    BY <1>1 DEF Returned, CallType
  <2> QED  BY <1>2, <1>3, <2>1 DEF Return, PCs
<1>4. ~ (SendChunk(w) \/ ServeItem(w) \/ ReceiveResults(w) \/ CacheResult(w) \/ NextChunk(w))
  BY DEF InBatch, SendChunk, ServeItem, ReceiveResults, CacheResult, NextChunk
<1> HIDE DEF goal, c
<1>5. ASSUME CacheOwn(w) PROVE goal
  <2> DEFINE d(R) == [Returned(c, "ok") EXCEPT !.result = R]
  <2>1. \E R : Goto(w, d(R))
    BY <1>5 DEF CacheOwn, c
  <2>2. \A R : d(R).pc = "done"
    BY <1>1 DEF Returned, CallType
  <2> HIDE DEF d
  <2> QED  BY <1>2, <2>1, <2>2 DEF PCs
<1>6. ASSUME Read(w) PROVE goal
  <2> DEFINE d == [Returned(c, "ok") EXCEPT !.result = {c.id}]
  <2>1. Goto(w, d) \/ Return(w, "missing")
    BY <1>6 DEF Read, c
  <2>2. d.pc = "done"
    BY <1>1 DEF Returned, CallType
  <2> HIDE DEF d
  <2> QED  BY <1>2, <1>3, <2>1, <2>2 DEF PCs
<1>7. ASSUME ActivateKey(w) PROVE goal
  <2> DEFINE d(id, pc) == [c EXCEPT !.id = id, !.pc = pc]
  <2>1. \/ \E id : \E pc \in {"cache", "forget"} : Goto(w, d(id, pc))
        \/ \E outcome : Return(w, outcome)
    BY <1>7 DEF ActivateKey, c
  <2>2. \A id, pc : d(id, pc).pc = pc
    BY <1>1 DEF CallType
  <2> HIDE DEF d
  <2> QED  BY <1>2, <1>3, <2>1, <2>2 DEF PCs
<1>8. ASSUME Forget(w) PROVE goal
  <2> DEFINE d == [c EXCEPT !.pc = "drop"]
  <2>1. Goto(w, d) \/ Return(w, "missing") \/ Return(w, "failed")
    BY <1>8 DEF Forget, c
  <2>2. d.pc = "drop"
    BY <1>1 DEF CallType
  <2> HIDE DEF d
  <2> QED  BY <1>2, <1>3, <2>1, <2>2 DEF PCs
<1>9. ASSUME DropCache(w) \/ RequestFails(w) PROVE goal
  BY <1>3, <1>9 DEF DropCache, RequestFails
<1>10. ASSUME ListPage(w) PROVE goal
  <2> DEFINE d(I, full, n) == [c EXCEPT !.pc = "items", !.items = I, !.full = full, !.total = n]
  <2>1. \E I, full, n : Goto(w, d(I, full, n))
    BY <1>10 DEF ListPage, c
  <2>2. \A I, full, n : d(I, full, n).pc = "items"
    BY <1>1 DEF CallType
  <2> HIDE DEF d
  <2> QED  BY <1>2, <2>1, <2>2 DEF PCs
<1>11. ASSUME CacheItem(w) PROVE goal
  <2> DEFINE d(id) == [c EXCEPT !.items = @ \ {id}, !.count = @ + 1, !.result = @ \cup {id}]
  <2>1. (\E id : Goto(w, d(id))) /\ c.pc = "items"
    BY <1>11 DEF CacheItem, c
  <2>2. \A id : d(id).pc = c.pc
    BY <1>1 DEF CallType
  <2> HIDE DEF d
  <2> QED  BY <1>2, <2>1, <2>2 DEF PCs
<1>12. ASSUME ItemsDone(w) PROVE goal
  <2> DEFINE d(off) == [c EXCEPT !.pc = "page", !.off = off]
  <2>1. (\E off : Goto(w, d(off))) \/ Return(w, "ok")
    BY <1>12 DEF ItemsDone, c
  <2>2. \A off : d(off).pc = "page"
    BY <1>1 DEF CallType
  <2> HIDE DEF d
  <2> QED  BY <1>2, <1>3, <2>1, <2>2 DEF PCs
<1>13. goal
  BY <1>4, <1>5, <1>6, <1>7, <1>8, <1>9, <1>10, <1>11, <1>12 DEF Step
<1> QED  BY <1>13 DEF goal

-----------------------------------------------------------------------------
(* Batches.  What was sent and is no longer waiting to be served is stored *)
(* or is in an answer with an error, unless the server passes over items;  *)
(* an answer without an error may be dropped, one with an error ends the   *)
(* call.                                                                   *)

BatchSound(c) ==
  c.op = "batch" =>
    /\ c.pc \in {"done", "send", "serve", "results"}
    /\ c.chunk \subseteq c.keys /\ c.stored \subseteq c.keys
    /\ c.chunk \subseteq c.sent
    /\ "silent" \notin Faults /\ c.pc # "done" =>
         \A k \in c.sent \ c.chunk :
           k \in c.stored \/ \E a \in c.answers : a.err /\ a.key = k
    /\ c.pc \in {"send", "results"} => c.chunk = {}
    /\ c.pc = "send" => c.answers = {}
    /\ c.outcome = "ok" => c.pc = "done" /\ ("silent" \notin Faults => c.stored = c.keys)

BatchesSound == \A w \in Workers : BatchSound(call[w])

LEMMA BatchPut ==
  ASSUME IInv, BatchesSound, NEW w \in Workers, NEW d, Goto(w, d), BatchSound(d)
  PROVE  BatchesSound'
<1>1. call'[w] = d /\ \A v \in Workers \ {w} : call'[v] = call[v]
  BY DEF IInv, GoodCalls, Goto
<1>2. ASSUME NEW v \in Workers PROVE BatchSound(call'[v])
  BY <1>1 DEF BatchesSound
<1> QED  BY <1>2 DEF BatchesSound

LEMMA NoBatch ==
  ASSUME IInv, BatchesSound, NEW w \in Workers, NEW d, Goto(w, d), d.op # "batch"
  PROVE  BatchesSound'
BY BatchPut DEF BatchSound

(* A call that returns has stored what it stored. *)
LEMMA BatchReturns ==
  ASSUME IInv, BatchesSound, NEW w \in Workers, NEW outcome, Return(w, outcome),
         call[w].op = "batch" /\ outcome = "ok" /\ "silent" \notin Faults
           => call[w].stored = call[w].keys
  PROVE  BatchesSound'
<1> DEFINE c == call[w]
           d == Returned(c, outcome)
<1>1. c \in CallType(DOMAIN engrams) /\ BatchSound(c)
  BY CallAt DEF GoodCall, BatchesSound
<1>2. /\ d.op = c.op /\ d.pc = "done" /\ d.chunk = {} /\ d.stored = c.stored
      /\ d.keys = c.keys /\ d.outcome = outcome
  BY <1>1 DEF Returned, CallType
<1>3. BatchSound(d)
  BY <1>1, <1>2 DEF BatchSound
<1> HIDE DEF d
<1> QED  BY <1>3, BatchPut DEF Return, d

LEMMA BeginBatch ==
  ASSUME IInv, BatchesSound, NEW w \in Workers, Begin(w)
  PROVE  BatchesSound'
<1> DEFINE goal == BatchesSound'
<1>1. ASSUME NEW d, Goto(w, d), d.op # "batch" PROVE goal
  BY <1>1, NoBatch
<1>2. ASSUME NEW t, NEW u, NEW s, NEW K, NEW tag, WriteBatch(w, t, u, s, K, tag)
      PROVE  goal
  <2> DEFINE d == [NewCall("batch", t, u, s) EXCEPT !.tag = tag, !.keys = K, !.pc = "send"]
  <2>1. BatchSound(d)
    BY DEF BatchSound, NewCall, Idle
  <2>2. Goto(w, d)
    BY <1>2 DEF WriteBatch
  <2> HIDE DEF d
  <2> QED  BY <2>1, <2>2, BatchPut
<1> HIDE DEF goal
<1>3. ASSUME NEW t, NEW u, NEW s, NEW k, NEW tag, Write(w, t, u, s, k, tag)
      PROVE  goal
  <2> DEFINE c == [NewCall("set", t, u, s) EXCEPT !.k = k]
             d(id) == [c EXCEPT !.pc = "cache", !.id = id]
  <2>1. Returned(c, "failed").op # "batch" /\ \A id : d(id).op # "batch"
    BY DEF Returned, NewCall, Idle
  <2>2. Goto(w, Returned(c, "failed")) \/ \E id : Goto(w, d(id))
    BY <1>3 DEF Write
  <2> HIDE DEF c, d
  <2> QED  BY <1>1, <2>1, <2>2
<1>4. ASSUME NEW t, NEW u, NEW s, NEW k, Get(w, t, u, s, k) \/ Delete(w, t, u, s, k)
      PROVE  goal
  <2> DEFINE d(op, id, pc) == [NewCall(op, t, u, s) EXCEPT !.k = k, !.id = id, !.pc = pc]
  <2>1. \A op \in {"get", "delete"} : \A id, pc : d(op, id, pc).op # "batch"
    BY DEF NewCall, Idle
  <2>2. \E op \in {"get", "delete"} : \E id, pc : Goto(w, d(op, id, pc))
    BY <1>4 DEF Get, Delete
  <2> HIDE DEF d
  <2> QED  BY <1>1, <2>1, <2>2
<1>5. ASSUME NEW op, NEW t, NEW u, NEW s, NEW tag, NEW limit,
             Activate(w, op, t, u, s, tag, limit)
      PROVE  goal
  <2> DEFINE c == [NewCall(op, t, u, s) EXCEPT !.tag = tag, !.limit = limit]
             d(A) == [c EXCEPT !.pc = "items", !.items = A]
  <2>1. op \in {"search", "recall"}
    BY <1>5 DEF Activate
  <2>2. Returned(c, "failed").op # "batch" /\ \A A : d(A).op # "batch"
    BY <2>1 DEF Returned, NewCall, Idle
  <2>3. Goto(w, Returned(c, "failed")) \/ \E A : Goto(w, d(A))
    BY <1>5 DEF Activate
  <2> HIDE DEF c, d
  <2> QED  BY <1>1, <2>2, <2>3
<1>6. ASSUME NEW t, NEW u, NEW s, NEW tag, List(w, t, u, s, tag) PROVE goal
  <2> DEFINE d == [NewCall("list", t, u, s) EXCEPT !.tag = tag, !.pc = "page", !.atStart = live]
  <2>1. d.op # "batch" /\ Goto(w, d)
    BY <1>6 DEF List, NewCall, Idle
  <2> HIDE DEF d
  <2> QED  BY <1>1, <2>1
<1>7. goal
  BY <1>2, <1>3, <1>4, <1>5, <1>6 DEF Begin, Set, SaveTurn, SetBatch, SetProfile
<1> QED  BY <1>7 DEF goal

(* Steps of the other calls. *)
LEMMA OtherSteps ==
  ASSUME IInv, BatchesSound, NEW w \in Workers,
         \/ CacheOwn(w) \/ Read(w) \/ ActivateKey(w) \/ Forget(w) \/ DropCache(w)
         \/ ListPage(w) \/ CacheItem(w) \/ ItemsDone(w)
  PROVE  BatchesSound'
<1> DEFINE c == call[w]
           goal == BatchesSound'
<1>1. c \in CallType(DOMAIN engrams)
  BY CallAt DEF GoodCall
<1>2. c.op # "batch"
  <2>1. c.pc \in {"cache", "read", "activate", "forget", "drop", "page", "items"}
    BY DEF CacheOwn, Read, ActivateKey, Forget, DropCache, ListPage, CacheItem, ItemsDone
  <2>2. BatchSound(c)
    BY DEF BatchesSound
  <2> QED  BY <2>1, <2>2 DEF BatchSound
<1>3. ASSUME NEW d, Goto(w, d), d.op = c.op PROVE goal
  BY <1>2, <1>3, NoBatch
<1>4. ASSUME NEW outcome, Return(w, outcome) PROVE goal
  BY <1>2, <1>4, BatchReturns
<1> HIDE DEF goal, c
<1>5. ASSUME CacheOwn(w) PROVE goal
  <2> DEFINE d(R) == [Returned(c, "ok") EXCEPT !.result = R]
  <2>1. \E R : Goto(w, d(R))
    BY <1>5 DEF CacheOwn, c
  <2>2. \A R : d(R).op = c.op
    BY <1>1 DEF Returned, CallType
  <2> HIDE DEF d
  <2> QED  BY <1>3, <2>1, <2>2
<1>6. ASSUME Read(w) PROVE goal
  <2> DEFINE d == [Returned(c, "ok") EXCEPT !.result = {c.id}]
  <2>1. Goto(w, d) \/ Return(w, "missing")
    BY <1>6 DEF Read, c
  <2>2. d.op = c.op
    BY <1>1 DEF Returned, CallType
  <2> HIDE DEF d
  <2> QED  BY <1>3, <1>4, <2>1, <2>2
<1>7. ASSUME ActivateKey(w) PROVE goal
  <2> DEFINE d(id, pc) == [c EXCEPT !.id = id, !.pc = pc]
  <2>1. (\E id, pc : Goto(w, d(id, pc))) \/ \E outcome : Return(w, outcome)
    BY <1>7 DEF ActivateKey, c
  <2>2. \A id, pc : d(id, pc).op = c.op
    BY <1>1 DEF CallType
  <2> HIDE DEF d
  <2> QED  BY <1>3, <1>4, <2>1, <2>2
<1>8. ASSUME Forget(w) PROVE goal
  <2> DEFINE d == [c EXCEPT !.pc = "drop"]
  <2>1. Goto(w, d) \/ Return(w, "missing") \/ Return(w, "failed")
    BY <1>8 DEF Forget, c
  <2>2. d.op = c.op
    BY <1>1 DEF CallType
  <2> HIDE DEF d
  <2> QED  BY <1>3, <1>4, <2>1, <2>2
<1>9. ASSUME DropCache(w) PROVE goal
  BY <1>4, <1>9 DEF DropCache
<1>10. ASSUME ListPage(w) PROVE goal
  <2> DEFINE d(I, full, n) == [c EXCEPT !.pc = "items", !.items = I, !.full = full, !.total = n]
  <2>1. \E I, full, n : Goto(w, d(I, full, n))
    BY <1>10 DEF ListPage, c
  <2>2. \A I, full, n : d(I, full, n).op = c.op
    BY <1>1 DEF CallType
  <2> HIDE DEF d
  <2> QED  BY <1>3, <2>1, <2>2
<1>11. ASSUME CacheItem(w) PROVE goal
  <2> DEFINE d(id) == [c EXCEPT !.items = @ \ {id}, !.count = @ + 1, !.result = @ \cup {id}]
  <2>1. \E id : Goto(w, d(id))
    BY <1>11 DEF CacheItem, c
  <2>2. \A id : d(id).op = c.op
    BY <1>1 DEF CallType
  <2> HIDE DEF d
  <2> QED  BY <1>3, <2>1, <2>2
<1>12. ASSUME ItemsDone(w) PROVE goal
  <2> DEFINE d(off) == [c EXCEPT !.pc = "page", !.off = off]
  <2>1. (\E off : Goto(w, d(off))) \/ Return(w, "ok")
    BY <1>12 DEF ItemsDone, c
  <2>2. \A off : d(off).op = c.op
    BY <1>1 DEF CallType
  <2> HIDE DEF d
  <2> QED  BY <1>3, <1>4, <2>1, <2>2
<1>13. goal
  BY <1>5, <1>6, <1>7, <1>8, <1>9, <1>10, <1>11, <1>12
<1> QED  BY <1>13 DEF goal

LEMMA SendChunkBatch ==
  ASSUME IInv, BatchesSound, NEW w \in Workers, SendChunk(w)
  PROVE  BatchesSound'
<1> DEFINE c == call[w]
           d(C) == [c EXCEPT !.pc = "serve", !.chunk = C, !.sent = c.sent \cup C]
<1>1. c \in CallType(DOMAIN engrams) /\ BatchSound(c) /\ c.pc = "send"
  BY CallAt DEF GoodCall, BatchesSound, SendChunk
<1>2. ASSUME c.sent = c.keys, Return(w, "ok") PROVE BatchesSound'
  <2>1. ASSUME c.op = "batch", "silent" \notin Faults PROVE c.stored = c.keys
    <3>1. c.stored \subseteq c.keys /\ \A k \in c.sent : k \in c.stored
      BY <1>1, <2>1 DEF BatchSound
    <3> QED  BY <1>2, <3>1
  <2> QED  BY <1>2, <2>1, BatchReturns
<1>3. ASSUME NEW C \in SUBSET (c.keys \ c.sent), Goto(w, d(C)) PROVE BatchesSound'
  <2>1. BatchSound(d(C))
    BY <1>1 DEF BatchSound, CallType
  <2> HIDE DEF d
  <2> QED  BY <1>3, <2>1, BatchPut
<1>4. \/ c.sent = c.keys /\ Return(w, "ok")
      \/ \E C \in SUBSET (c.keys \ c.sent) : Goto(w, d(C))
  BY DEF SendChunk, Chunks, Sent
<1> HIDE DEF d
<1> QED  BY <1>2, <1>3, <1>4

LEMMA ServeItemBatch ==
  ASSUME IInv, BatchesSound, NEW w \in Workers, ServeItem(w)
  PROVE  BatchesSound'
<1> DEFINE c == call[w]
           d(k, id, err) ==
             [c EXCEPT !.chunk = @ \ {k}, !.answers = @ \cup {Answer(k, id, err)},
                       !.stored = IF err THEN @ ELSE @ \cup {k}]
<1>1. c \in CallType(DOMAIN engrams) /\ BatchSound(c) /\ c.pc = "serve"
  BY CallAt DEF GoodCall, BatchesSound, ServeItem
<1>2. ASSUME NEW k \in c.chunk, NEW id, NEW err \in BOOLEAN
      PROVE  BatchSound(d(k, id, err))
  <2>1. /\ d(k, id, err).op = c.op /\ d(k, id, err).pc = "serve"
        /\ d(k, id, err).keys = c.keys /\ d(k, id, err).sent = c.sent
        /\ d(k, id, err).chunk = c.chunk \ {k}
        /\ d(k, id, err).answers = c.answers \cup {Answer(k, id, err)}
        /\ d(k, id, err).stored = IF err THEN c.stored ELSE c.stored \cup {k}
        /\ d(k, id, err).outcome = c.outcome
    BY <1>1 DEF CallType
  <2> HIDE DEF d, c
  <2>2. Answer(k, id, err).key = k /\ Answer(k, id, err).err = err
    BY DEF Answer
  <2> DEFINE a == Answer(k, id, err)
             e == d(k, id, err)
  <2> HIDE DEF a, e
  <2>3. CASE c.op # "batch"
    BY <2>1, <2>3 DEF BatchSound
  <2>4. CASE c.op = "batch"
    <3>1. ASSUME NEW l \in c.sent \ (c.chunk \ {k}), "silent" \notin Faults
          PROVE  l \in e.stored \/ \E x \in e.answers : x.err /\ x.key = l
      <4>1. l = k \/ l \in c.sent \ c.chunk
        OBVIOUS
      <4>2. l \in c.sent \ c.chunk =>
              l \in c.stored \/ \E x \in c.answers : x.err /\ x.key = l
        BY <1>1, <2>4, <3>1 DEF BatchSound
      <4>3. e.answers = c.answers \cup {a} /\ a.key = k /\ a.err = err
        BY <2>1, <2>2 DEF e, a
      <4>4. e.stored = IF err THEN c.stored ELSE c.stored \cup {k}
        BY <2>1 DEF e
      <4> QED  BY <4>1, <4>2, <4>3, <4>4
    <3>2. e.chunk \subseteq e.keys /\ e.stored \subseteq e.keys /\ e.chunk \subseteq e.sent
      BY <1>1, <2>1, <2>4 DEF BatchSound, e
    <3>3. c.outcome # "ok"
      BY <1>1, <2>4 DEF BatchSound
    <3> QED  BY <2>1, <3>1, <3>2, <3>3 DEF BatchSound, e
  <2> QED  BY <2>3, <2>4
<1> DEFINE silent(k) == [c EXCEPT !.chunk = @ \ {k}]
<1>3. ASSUME NEW k \in c.chunk, "silent" \in Faults PROVE BatchSound(silent(k))
  <2>1. /\ silent(k).op = c.op /\ silent(k).pc = "serve" /\ silent(k).keys = c.keys
        /\ silent(k).sent = c.sent /\ silent(k).chunk = c.chunk \ {k}
        /\ silent(k).stored = c.stored /\ silent(k).outcome = c.outcome
    BY <1>1 DEF CallType
  <2> HIDE DEF silent, c
  <2> QED  BY <1>1, <1>3, <2>1 DEF BatchSound
<1>4. \E k \in c.chunk :
        \/ Goto(w, d(k, NoId, TRUE)) \/ \E id : Goto(w, d(k, id, FALSE))
        \/ "silent" \in Faults /\ Goto(w, silent(k))
  BY DEF ServeItem
<1> HIDE DEF d, silent
<1> QED  BY <1>2, <1>3, <1>4, BatchPut

LEMMA TurnBatch ==
  ASSUME IInv, BatchesSound, NEW w \in Workers, ReceiveResults(w) \/ NextChunk(w)
  PROVE  BatchesSound'
<1> DEFINE c == call[w]
           d(pc) == [c EXCEPT !.pc = pc]
<1>1. c \in CallType(DOMAIN engrams) /\ BatchSound(c)
  BY CallAt DEF GoodCall, BatchesSound
<1>2. \/ c.pc = "serve" /\ c.chunk = {} /\ Goto(w, d("results"))
      \/ c.pc = "results" /\ c.answers = {} /\ Goto(w, d("send"))
  BY DEF ReceiveResults, NextChunk
<1>3. /\ c.pc = "serve" /\ c.chunk = {} => BatchSound(d("results"))
      /\ c.pc = "results" /\ c.answers = {} => BatchSound(d("send"))
  BY <1>1 DEF BatchSound, CallType
<1> HIDE DEF d
<1> QED  BY <1>2, <1>3, BatchPut

LEMMA CacheResultBatch ==
  ASSUME IInv, BatchesSound, NEW w \in Workers, CacheResult(w)
  PROVE  BatchesSound'
<1> DEFINE c == call[w]
           d(a) == [c EXCEPT !.answers = @ \ {a}]
<1>1. c \in CallType(DOMAIN engrams) /\ BatchSound(c) /\ c.pc = "results"
  BY CallAt DEF GoodCall, BatchesSound, CacheResult
<1>2. ASSUME NEW a \in c.answers, ~a.err PROVE BatchSound(d(a))
  BY <1>1, <1>2 DEF BatchSound, CallType
<1>3. CASE Return(w, "failed")
  BY <1>3, BatchReturns
<1>4. ASSUME NEW a \in c.answers, ~a.err, Goto(w, d(a)) PROVE BatchesSound'
  <2>1. BatchSound(d(a))
    BY <1>2, <1>4
  <2> HIDE DEF d
  <2> QED  BY <1>4, <2>1, BatchPut
<1> QED  BY <1>3, <1>4 DEF CacheResult, Refused

LEMMA BatchesKeep ==
  ASSUME IInv, BatchesSound, [Next]_vars
  PROVE  BatchesSound'
<1>1. ASSUME NEW w \in Workers, Step(w) PROVE BatchesSound'
  <2>1. CASE RequestFails(w)
    BY <2>1, BatchReturns DEF RequestFails
  <2> QED  BY <1>1, <2>1, OtherSteps, SendChunkBatch, ServeItemBatch, TurnBatch,
              CacheResultBatch DEF Step
<1>2. CASE Tick \/ UNCHANGED vars
  BY <1>2 DEF Tick, vars, BatchesSound
<1>3. CASE Restart
  BY <1>3 DEF Restart, BatchesSound, BatchSound, Idle
<1> QED  BY <1>1, <1>2, <1>3, BeginBatch DEF Next

-----------------------------------------------------------------------------
(* The theorems. *)

(* Every variable keeps its type, for any tenants, users, sessions,        *)
(* concepts, goroutines, page and batch sizes, with or without faults.     *)
THEOREM TypeCorrect == Spec => []TypeOK
BY Invariance, IInvMeaning, PTL

(* The ID cache of muninn_store.go never leads a caller to an engram of    *)
(* another tenant, user, session or concept, and calls in flight do not    *)
(* carry such an id either.                                                *)
THEOREM CacheIsSound == Spec => [](CacheSound /\ InFlightSound)
BY Invariance, IInvMeaning, PTL

(* Whatever Get, Search, Activate and List hand out is in the scope that   *)
(* the caller asked for.                                                   *)
THEOREM AnswersAreInScope == Spec => []AnswersInScope
<1>1. IInv => AnswersInScope
  BY IInvMeaning DEF InFlightSound, CallSound, AnswersInScope
<1> QED  BY <1>1, Invariance, PTL

(* Nothing but a Delete whose tenant, user, session and concept an engram  *)
(* carries makes the server forget it.                                     *)
THEOREM OnlyRequestedForgotten == Spec => ForgetsOnlyRequested
<1> DEFINE asked(id) == \E w \in Workers :
             LET c == call[w]
             IN  /\ c.op = "delete" /\ c.pc = "forget"
                 /\ Fits(id, c.t, c.u, c.s, c.k)
           A == \A id \in live \ live' : asked(id)
<1>1. IInv /\ [Next]_vars => [A]_vars
  <2> SUFFICES ASSUME IInv, [Next]_vars, NEW id \in live, id \notin live'
               PROVE  asked(id)
    OBVIOUS
  <2>1. PICK w \in Workers : Forget(w)
    BY OnlyForgetRemoves
  <2>2. call[w].pc = "forget" /\ id = call[w].id
    BY <2>1 DEF Forget
  <2>3. CallSound(call[w])
    BY IInvMeaning DEF InFlightSound
  <2> QED  BY <2>2, <2>3 DEF CallSound
<1> QED  BY <1>1, Invariance, PTL DEF Spec, ForgetsOnlyRequested

(* SetBatch and SetProfile answer nil only when the server stored every    *)
(* entry, for any number of entries and any size of a chunk, with errors   *)
(* and missing ids in any position and requests that fail, if the server   *)
(* does one or the other with every item it is sent.                       *)
THEOREM BatchStoresAll ==
  ASSUME "silent" \notin Faults
  PROVE  Spec => []BatchOkMeansAllStored
<1>1. Init => BatchesSound
  BY DEF Init, BatchesSound, BatchSound, Idle
<1>2. IInv /\ BatchesSound /\ [Next]_vars => BatchesSound'
  BY BatchesKeep
<1>3. BatchesSound => BatchOkMeansAllStored
  BY DEF BatchesSound, BatchSound, BatchOkMeansAllStored
<1> QED  BY <1>1, <1>2, <1>3, Invariance, PTL DEF Spec
=============================================================================
