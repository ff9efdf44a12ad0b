----------------------------- MODULE MuninnStore -----------------------------
(***************************************************************************)
(* The tenant-scoped memory store of memory/muninn_store.go: the calls of  *)
(* MuninnStore, the ID cache they share under a mutex, and the MuninnDB    *)
(* server behind them.                                                     *)
(*                                                                         *)
(* One step is what no other goroutine can see in the middle: one section  *)
(* under s.mu, or one request to the server.  A call is local between two  *)
(* of those, so it starts in the same step as the first of them.           *)
(*                                                                         *)
(* Left out: contents and scores of an engram, and its key-prefix tag when *)
(* that is not the profile tag.  The server is external.  It may answer a  *)
(* write with the engram it already has under the same concept and tags or *)
(* with a new one, may leave a matching engram out of an activation, may   *)
(* refuse a write or an activation, and refuses to read an engram that was *)
(* forgotten.  What it may do besides is in Faults, so that a property can *)
(* name what it rests on:                                                  *)
(*   "transport"  a request or its answer is lost                          *)
(*   "restart"    the process restarts and the cache is empty              *)
(*   "silent"     a batch item is neither stored nor answered with an error*)
(*   "twice"      to forget what is forgotten succeeds                     *)
(***************************************************************************)
EXTENDS Naturals, Sequences, FiniteSets

CONSTANTS
  Tenants,      \* vault names
  Char,         \* characters of ids and concepts
  Users,        \* user ids, sequences of characters; may hold the empty one
  Sessions,     \* session ids, sequences of characters; may hold the empty one
  Keys,         \* concepts, sequences of characters
  ProfileKeys,  \* concepts whose key prefix is the word "profile"
  Workers,      \* goroutines that call the store
  Calls,        \* the operations that goroutines call in this instance
  Faults,       \* what can go wrong in this instance, see above
  Limits,       \* limits a caller passes to Search and Activate
  BatchSize,    \* requests per batch write (50 in the code)
  PageSize,     \* engrams per listed page (100 in the code)
  ActLimit,     \* activations Get and Delete ask for (20 in the code)
  NewestFirst,  \* the order in which the server lists engrams
  Ahead,        \* how far the server's clock may be ahead of ours
  MaxEngrams,   \* bound: engrams the server ever creates
  MaxTime       \* bound: ticks of our clock

Empty == <<>>
NoId == 0
NoTenant == "no tenant"

ASSUME ConstantsAssumption ==
  /\ Tenants # {}
  /\ NoTenant \notin Tenants
  /\ ":" \in Char
  /\ Users \subseteq Seq(Char) /\ Sessions \subseteq Seq(Char)
  /\ Keys \subseteq Seq(Char) /\ ProfileKeys \subseteq Keys
  /\ Limits \subseteq Nat
  /\ BatchSize \in Nat \ {0} /\ PageSize \in Nat \ {0} /\ ActLimit \in Nat \ {0}
  /\ NewestFirst \in BOOLEAN
  /\ Ahead \in Nat /\ MaxEngrams \in Nat /\ MaxTime \in Nat

(* The edge hands out UUIDs as user and session ids, so they hold no ':'.  *)
(* Concepts are whatever the model or the user wrote.                      *)
ASSUME NoColonAssumption ==
  \A x \in Users \cup Sessions : \A i \in 1..Len(x) : x[i] # ":"

VARIABLES
  engrams,  \* every engram the server ever created; an id is a position
  live,     \* the ids the server has not forgotten
  idCache,  \* tenant -> cache key -> engram id, or NoId
  call,     \* worker -> the call it is in, or the one it returned from
  now       \* our clock

vars == <<engrams, live, idCache, call, now>>

-----------------------------------------------------------------------------
(* Cache keys, scopes and the server's view of its engrams.                *)

(* Definitions named ...Bug are the faults that the properties are tested   *)
(* against; nothing else uses them.                                        *)

CacheKeyBug(u, s, k) == u \o <<":">> \o k    \* forgets the session

CacheKey(u, s, k) == u \o <<":">> \o s \o <<":">> \o k

TagUsers == Users \cup {Empty}
TagSessions == Sessions \cup {Empty}
CacheKeys ==
  {CacheKey(u, s, k) : u \in TagUsers, s \in TagSessions, k \in Keys}

Ids == DOMAIN engrams

(* tags_all / passesUserSessionFilter: an empty user or session is not     *)
(* part of the filter.                                                     *)
InScope(e, u, s, tag) ==
  /\ u # Empty => e.user = u
  /\ s # Empty => e.session = s
  /\ tag => e.profile

(* id is what a call scoped to (t, u, s) means by concept k *)
Fits(id, t, u, s, k) ==
  /\ id \in Ids
  /\ engrams[id].vault = t
  /\ engrams[id].key = k
  /\ InScope(engrams[id], u, s, FALSE)

Vault(t) == {id \in live : engrams[id].vault = t}

ScopeBug(t, u, s, tag) ==    \* leaves the session out of tags_all
  {id \in Vault(t) : InScope(engrams[id], u, Empty, tag)}

Scope(t, u, s, tag) == {id \in Vault(t) : InScope(engrams[id], u, s, tag)}

(* What a ranked activation can answer: any matching engrams, at most n.   *)
Activations(t, u, s, tag, n) ==
  {A \in SUBSET Scope(t, u, s, tag) : Cardinality(A) <= n}

Before(i, j) == IF NewestFirst THEN i >= j ELSE i <= j

Page(t, off) ==
  LET rank(id) == Cardinality({j \in Vault(t) : Before(j, id)})
  IN  {id \in Vault(t) : off < rank(id) /\ rank(id) <= off + PageSize}

(* The server stamps an engram by its own clock, in whole seconds: a stamp *)
(* may lie behind our clock and a little ahead of it.  NoStamp is read as  *)
(* the zero time.                                                          *)
NoStamp == 0
Stamps == NoStamp .. now + Ahead

(* The ids the server may answer a write with, and what it then holds. *)
Engram(t, u, s, k, tag, at) ==
  [vault |-> t, user |-> u, session |-> s, key |-> k, profile |-> tag,
   at |-> at]

Known(t, u, s, k, tag) ==
  {id \in Vault(t) : /\ engrams[id].user = u /\ engrams[id].session = s
                     /\ engrams[id].key = k /\ engrams[id].profile = tag}

(* TagsForKey: the prefix of the concept is a tag, "profile" included. *)
Tagged(k, extra) == extra \/ k \in ProfileKeys

ServerWrites(t, u, s, k, tag, id) ==
  \/ /\ id \in Known(t, u, s, k, tag)
     /\ UNCHANGED <<engrams, live>>
  \/ /\ Len(engrams) < MaxEngrams
     /\ id = Len(engrams) + 1
     /\ \E at \in Stamps :
          engrams' = Append(engrams, Engram(t, u, s, k, tag, at))
     /\ live' = live \cup {id}

-----------------------------------------------------------------------------
(* The cache: each of these is one section under s.mu. *)

SetIDCacheBug(t, u, s, k, id) ==    \* makes the tenant's map anew
  idCache' = [idCache EXCEPT ![t] = [x \in {CacheKey(u, s, k)} |-> id]]

SetIDCache(t, u, s, k, id) ==
  idCache' = [idCache EXCEPT ![t][CacheKey(u, s, k)] = id]

LookupIDCacheBug(t, u, s, k) ==    \* looks for the session-less entry
  idCache[t][CacheKey(u, Empty, k)]

LookupIDCache(t, u, s, k) == idCache[t][CacheKey(u, s, k)]

DeleteIDCacheBug(t, u, s, k) == UNCHANGED idCache
DeleteIDCache(t, u, s, k) ==
  idCache' = [idCache EXCEPT ![t][CacheKey(u, s, k)] = NoId]

-----------------------------------------------------------------------------
(* Calls.  pc is what the call does next; "done" is a call that returned,  *)
(* with its outcome and the entries it answered.  atStart and stored are   *)
(* only there for the properties.                                          *)

Idle ==
  [op |-> "none", pc |-> "done", t |-> NoTenant, u |-> Empty, s |-> Empty,
   k |-> Empty, tag |-> FALSE, limit |-> 0, id |-> NoId,
   keys |-> {}, sent |-> {}, chunk |-> {}, answers |-> {}, stored |-> {},
   items |-> {}, off |-> 0, count |-> 0, total |-> 0, full |-> FALSE,
   result |-> {}, atStart |-> {}, outcome |-> "none"]

Goto(w, c) == call' = [call EXCEPT ![w] = c]

Returned(c, outcome) ==
  [c EXCEPT !.pc = "done", !.outcome = outcome, !.id = NoId, !.items = {},
            !.sent = {}, !.chunk = {}, !.answers = {}, !.off = 0, !.count = 0,
            !.total = 0, !.full = FALSE]

Return(w, outcome) == Goto(w, Returned(call[w], outcome))

Ready(w, op) == call[w].pc = "done" /\ op \in Calls

NewCall(op, t, u, s) == [Idle EXCEPT !.op = op, !.t = t, !.u = u, !.s = s]

(* Set and SaveTurn: one write, which the server may refuse, then its id   *)
(* is cached.                                                              *)
Write(w, t, u, s, k, tag) ==
  /\ Ready(w, "set")
  /\ LET c == [NewCall("set", t, u, s) EXCEPT !.k = k]
     IN  \/ \E id \in Ids \cup {Len(engrams) + 1} :
              /\ ServerWrites(t, u, s, k, tag, id)
              /\ \/ Goto(w, [c EXCEPT !.pc = "cache", !.id = id])
                 \/ /\ "transport" \in Faults
                    /\ Goto(w, Returned(c, "failed"))
         \/ /\ Goto(w, Returned(c, "failed"))
            /\ UNCHANGED <<engrams, live>>
  /\ UNCHANGED <<idCache, now>>

Set(w, t, u, s, k) == Write(w, t, u, s, k, Tagged(k, FALSE))

(* SaveTurn writes the user and session tags and no other. *)
SaveTurn(w, t, u, s, k) == Write(w, t, u, s, k, FALSE)

(* The end of Set, SaveTurn and of Get's fallback: the id is cached under  *)
(* the caller's own user and session.                                      *)
CacheOwn(w) ==
  LET c == call[w]
  IN  /\ c.pc = "cache"
      /\ SetIDCache(c.t, c.u, c.s, c.k, c.id)
      /\ Goto(w, [Returned(c, "ok") EXCEPT
                    !.result = IF c.op = "get" THEN {c.id} ELSE {}])
      /\ UNCHANGED <<engrams, live, now>>

-----------------------------------------------------------------------------
(* Get and Delete: the cached id when there is one, else an activation     *)
(* filtered by the caller's tags and searched for the exact concept.       *)

Get(w, t, u, s, k) ==
  /\ Ready(w, "get")
  /\ LET id == LookupIDCache(t, u, s, k)
     IN  Goto(w, [NewCall("get", t, u, s) EXCEPT
                    !.k = k, !.id = id,
                    !.pc = IF id # NoId THEN "read" ELSE "activate"])
  /\ UNCHANGED <<engrams, live, idCache, now>>

(* client.Read of the cached id; an error leaves the cache as it is. *)
Read(w) ==
  LET c == call[w]
  IN  /\ c.pc = "read"
      /\ \/ /\ c.id \in live
            /\ Goto(w, [Returned(c, "ok") EXCEPT !.result = {c.id}])
         \/ /\ c.id \notin live
            /\ Return(w, "missing")
      /\ UNCHANGED <<engrams, live, idCache, now>>

Delete(w, t, u, s, k) ==
  /\ Ready(w, "delete")
  /\ LET id == LookupIDCache(t, u, s, k)
     IN  Goto(w, [NewCall("delete", t, u, s) EXCEPT
                    !.k = k, !.id = id,
                    !.pc = IF id # NoId THEN "forget" ELSE "activate"])
  /\ UNCHANGED <<engrams, live, idCache, now>>

(* The fallback of both: the first activation with exactly this concept. *)
ActivateKey(w) ==
  LET c == call[w]
  IN  /\ c.pc = "activate"
      /\ \E A \in Activations(c.t, c.u, c.s, FALSE, ActLimit) :
           LET exact == {id \in A : engrams[id].key = c.k}
           IN  \/ \E id \in exact :
                    Goto(w, [c EXCEPT
                               !.id = id,
                               !.pc = IF c.op = "get" THEN "cache" ELSE "forget"])
               \/ /\ exact = {}
                  /\ Return(w, IF c.op = "get" THEN "nil" ELSE "notFound")
      /\ UNCHANGED <<engrams, live, idCache, now>>

(* client.Forget: if the server makes an error of an engram already        *)
(* forgotten, the cache entry stays.                                       *)
Forget(w) ==
  LET c == call[w]
  IN  /\ c.pc = "forget"
      /\ live' = live \ {c.id}
      /\ \/ /\ c.id \in live \/ "twice" \in Faults
            /\ Goto(w, [c EXCEPT !.pc = "drop"])
         \/ /\ c.id \notin live
            /\ Return(w, "missing")
         \/ /\ "transport" \in Faults    \* forgotten, but the answer is lost
            /\ Return(w, "failed")
      /\ UNCHANGED <<engrams, idCache, now>>

DropCache(w) ==
  LET c == call[w]
  IN  /\ c.pc = "drop"
      /\ DeleteIDCache(c.t, c.u, c.s, c.k)
      /\ Return(w, "ok")
      /\ UNCHANGED <<engrams, live, now>>

-----------------------------------------------------------------------------
(* Search, Activate and List cache what they were answered, item by item,  *)
(* under the user and session its own tags name.                           *)

DefaultLimit(limit) == IF limit = 0 THEN 10 ELSE limit

(* Search asks for three times the limit once any tag filters. *)
EffectiveLimit(op, u, s, tag, limit) ==
  IF op = "search" /\ (u # Empty \/ s # Empty \/ tag)
  THEN 3 * DefaultLimit(limit)
  ELSE DefaultLimit(limit)

Activate(w, op, t, u, s, tag, limit) ==
  /\ Ready(w, op)
  /\ op \in {"search", "recall"}
  /\ op = "recall" => ~tag    \* Activate filters by user and session only
  /\ \/ \E A \in Activations(t, u, s, tag,
                             EffectiveLimit(op, u, s, tag, limit)) :
          Goto(w, [NewCall(op, t, u, s) EXCEPT
                     !.tag = tag, !.limit = limit, !.pc = "items", !.items = A])
     \/ Goto(w, Returned([NewCall(op, t, u, s) EXCEPT
                            !.tag = tag, !.limit = limit], "failed"))
  /\ UNCHANGED <<engrams, live, idCache, now>>

List(w, t, u, s, tag) ==
  /\ Ready(w, "list")
  /\ Goto(w, [NewCall("list", t, u, s) EXCEPT
                !.tag = tag, !.pc = "page", !.atStart = live])
  /\ UNCHANGED <<engrams, live, idCache, now>>

(* client.ListEngrams: one page of the vault; the filters are ours. *)
ListPage(w) ==
  LET c == call[w]
      page == Page(c.t, c.off)
  IN  /\ c.pc = "page"
      /\ Goto(w, [c EXCEPT
                    !.pc = "items",
                    !.items = {id \in page : InScope(engrams[id], c.u, c.s, c.tag)},
                    !.full = (Cardinality(page) = PageSize),
                    !.total = Cardinality(Vault(c.t))])
      /\ UNCHANGED <<engrams, live, idCache, now>>

CacheItem(w) ==
  LET c == call[w]
  IN  /\ c.pc = "items"
      /\ \E id \in c.items :
           /\ c.op = "list" => \A j \in c.items : Before(id, j)
           /\ SetIDCache(c.t, engrams[id].user, engrams[id].session,
                         engrams[id].key, id)
           /\ Goto(w, [c EXCEPT !.items = @ \ {id}, !.count = @ + 1,
                                !.result = @ \cup {id}])
      /\ UNCHANGED <<engrams, live, now>>

(* List stops on a short page, or once it holds as many as the vault. *)
LastPage(c) == ~c.full \/ c.count >= c.total

NextOffsetSkipBug(c) == c.off + PageSize + 1
NextOffset(c) == c.off + PageSize

ItemsDone(w) ==
  LET c == call[w]
  IN  /\ c.pc = "items"
      /\ c.items = {}
      /\ IF c.op = "list" /\ ~LastPage(c)
         THEN Goto(w, [c EXCEPT !.pc = "page", !.off = NextOffset(c)])
         ELSE Return(w, "ok")
      /\ UNCHANGED <<engrams, live, idCache, now>>

-----------------------------------------------------------------------------
(* SetBatch and SetProfile: writeBatchTags over a Go map, whose order is   *)
(* arbitrary.  The server stores a batch item by item.                     *)

WriteBatch(w, t, u, s, K, tag) ==
  /\ Ready(w, "batch")
  /\ Goto(w, [NewCall("batch", t, u, s) EXCEPT
                !.tag = tag, !.keys = K, !.pc = "send"])
  /\ UNCHANGED <<engrams, live, idCache, now>>

SetBatchBug(w, t, u, s, K) ==    \* tags facts as SetProfile does
  WriteBatch(w, t, u, s, K, TRUE)

SetBatch(w, t, u, s, K) == WriteBatch(w, t, u, s, K, FALSE)
SetProfile(w, t, u, K) == WriteBatch(w, t, u, Empty, K, TRUE)

(* requests[start:end]: the next BatchSize of the requests not yet sent *)
Chunks(c) ==
  LET rest == c.keys \ c.sent
  IN  {C \in SUBSET rest : \/ Cardinality(C) = BatchSize
                           \/ C = rest /\ Cardinality(C) < BatchSize}

SentBug(c, C) == c.sent    \* start does not move past the chunk
Sent(c, C) == c.sent \cup C

SendChunk(w) ==
  LET c == call[w]
  IN  /\ c.pc = "send"
      /\ \/ /\ c.sent = c.keys
            /\ Return(w, "ok")
         \/ /\ c.sent # c.keys
            /\ \E C \in Chunks(c) :
                 Goto(w, [c EXCEPT !.pc = "serve", !.chunk = C,
                                   !.sent = Sent(c, C)])
      /\ UNCHANGED <<engrams, live, idCache, now>>

Answer(k, id, err) == [key |-> k, id |-> id, err |-> err]

(* The server takes one item: it refuses it, or stores it and answers its  *)
(* id or an answer without one.  Silent, it does nothing with the item: no *)
(* answer and one with neither id nor error are the same to the caller.    *)
ServeItem(w) ==
  LET c == call[w]
      answered(k, id, err) ==
        [c EXCEPT !.chunk = @ \ {k}, !.answers = @ \cup {Answer(k, id, err)},
                  !.stored = IF err THEN @ ELSE @ \cup {k}]
  IN  /\ c.pc = "serve"
      /\ \E k \in c.chunk :
           \/ /\ Goto(w, answered(k, NoId, TRUE))
              /\ UNCHANGED <<engrams, live>>
           \/ /\ "silent" \in Faults
              /\ Goto(w, [c EXCEPT !.chunk = @ \ {k}])
              /\ UNCHANGED <<engrams, live>>
           \/ \E id \in Ids \cup {Len(engrams) + 1} :
                /\ ServerWrites(c.t, c.u, c.s, k, Tagged(k, c.tag), id)
                /\ \/ Goto(w, answered(k, id, FALSE))
                   \/ Goto(w, answered(k, NoId, FALSE))
      /\ UNCHANGED <<idCache, now>>

(* The results arrive once the whole chunk was served. *)
ReceiveResults(w) ==
  LET c == call[w]
  IN  /\ c.pc = "serve"
      /\ c.chunk = {}
      /\ Goto(w, [c EXCEPT !.pc = "results"])
      /\ UNCHANGED <<engrams, live, idCache, now>>

KeyOfBug(c, a) == CHOOSE k \in c.keys : TRUE    \* always the first key
KeyOf(c, a) == a.key

RefusedBug(a) == FALSE    \* an item error is not looked at
Refused(a) == a.err

(* One result: an error ends the call and leaves the rest uncached, a      *)
(* result without an id is skipped, any other id is cached.                *)
CacheResult(w) ==
  LET c == call[w]
      next(a) == [c EXCEPT !.answers = @ \ {a}]
  IN  /\ c.pc = "results"
      /\ \E a \in c.answers :
           \/ /\ Refused(a)
              /\ Return(w, "failed")
              /\ UNCHANGED idCache
           \/ /\ ~Refused(a) /\ a.id = NoId
              /\ Goto(w, next(a))
              /\ UNCHANGED idCache
           \/ /\ ~Refused(a) /\ a.id # NoId
              /\ SetIDCache(c.t, c.u, c.s, KeyOf(c, a), a.id)
              /\ Goto(w, next(a))
      /\ UNCHANGED <<engrams, live, now>>

NextChunk(w) ==
  LET c == call[w]
  IN  /\ c.pc = "results"
      /\ c.answers = {}
      /\ Goto(w, [c EXCEPT !.pc = "send"])
      /\ UNCHANGED <<engrams, live, idCache, now>>

-----------------------------------------------------------------------------
(* Faults, the clock, and the next-state relation. *)

(* A request fails in transport, or its answer does not come back. *)
RequestFails(w) ==
  /\ "transport" \in Faults
  /\ call[w].pc \in {"read", "activate", "forget", "page", "serve"}
  /\ Return(w, "failed")
  /\ UNCHANGED <<engrams, live, idCache, now>>

(* The process dies: calls in flight are lost and the cache starts empty. *)
Restart ==
  /\ "restart" \in Faults
  /\ idCache' = [t \in Tenants |-> [x \in CacheKeys |-> NoId]]
  /\ call' = [w \in Workers |-> Idle]
  /\ UNCHANGED <<engrams, live, now>>

Tick ==
  /\ now < MaxTime
  /\ now' = now + 1
  /\ UNCHANGED <<engrams, live, idCache, call>>

Init ==
  /\ engrams = <<>>
  /\ live = {}
  /\ idCache = [t \in Tenants |-> [x \in CacheKeys |-> NoId]]
  /\ call = [w \in Workers |-> Idle]
  /\ now = 0

Begin(w) ==
  \E t \in Tenants, u \in Users, s \in Sessions :
    \/ \E k \in Keys : Set(w, t, u, s, k) \/ SaveTurn(w, t, u, s, k)
                         \/ Get(w, t, u, s, k) \/ Delete(w, t, u, s, k)
    \/ \E op \in {"search", "recall"}, tag \in BOOLEAN, limit \in Limits :
         Activate(w, op, t, u, s, tag, limit)
    \/ \E tag \in BOOLEAN : List(w, t, u, s, tag)
    \/ \E K \in SUBSET Keys : SetBatch(w, t, u, s, K) \/ SetProfile(w, t, u, K)

Step(w) ==
  \/ CacheOwn(w) \/ Read(w) \/ ActivateKey(w) \/ Forget(w) \/ DropCache(w)
  \/ ListPage(w) \/ CacheItem(w) \/ ItemsDone(w)
  \/ SendChunk(w) \/ ServeItem(w) \/ ReceiveResults(w) \/ CacheResult(w)
  \/ NextChunk(w)
  \/ RequestFails(w)

Next ==
  \/ \E w \in Workers : Begin(w) \/ Step(w)
  \/ Tick
  \/ Restart

Spec == Init /\ [][Next]_vars

(* A goroutine inside a call keeps running and the server answers or the   *)
(* request fails; nobody is obliged to start a call, and the clock and the *)
(* crashes are free.                                                       *)
Fairness == \A w \in Workers : WF_vars(Step(w))

LiveSpec == Spec /\ Fairness

-----------------------------------------------------------------------------
(* Properties. *)

PCs == {"done", "cache", "read", "activate", "forget", "drop", "page", "items",
        "send", "serve", "results"}
Ops == {"none", "set", "get", "delete", "search", "recall", "list", "batch"}
Outcomes == {"none", "ok", "nil", "notFound", "missing", "failed"}

AnswerType(I) == [key : Keys, id : I \cup {NoId}, err : BOOLEAN]

(* a call that knows of the ids I *)
CallType(I) ==
  [op : Ops, pc : PCs, t : Tenants \cup {NoTenant}, u : TagUsers,
   s : TagSessions, k : Keys \cup {Empty}, tag : BOOLEAN, limit : Nat,
   id : I \cup {NoId},
   keys : SUBSET Keys, sent : SUBSET Keys, chunk : SUBSET Keys,
   answers : SUBSET AnswerType(I), stored : SUBSET Keys,
   items : SUBSET I, off : Nat, count : Nat, total : Nat, full : BOOLEAN,
   result : SUBSET I, atStart : SUBSET I, outcome : Outcomes]

EngramType ==
  [vault : Tenants, user : TagUsers, session : TagSessions, key : Keys,
   profile : BOOLEAN, at : Nat]

(* Every variable has its type; in particular no id in the cache or in a   *)
(* call in flight was invented by the client.                              *)
TypeOK ==
  /\ engrams \in Seq(EngramType)
  /\ live \subseteq Ids
  /\ idCache \in [Tenants -> [CacheKeys -> Ids \cup {NoId}]]
  /\ call \in [Workers -> CallType(Ids)]
  /\ now \in Nat

(* The ID cache never leads across a boundary: the id cached for (tenant,  *)
(* user, session, concept) is an engram of that tenant's vault, with that  *)
(* concept and with every tag the caller is scoped by -- although fills    *)
(* come from six calls, under the caller's ids or under the engram's tags, *)
(* and the three ids are flattened into one string.                        *)
CacheSound ==
  \A t \in Tenants, u \in TagUsers, s \in TagSessions, k \in Keys :
    LET id == LookupIDCache(t, u, s, k)
    IN  id # NoId => Fits(id, t, u, s, k)

(* A call in flight carries the same guarantee between its steps: the id   *)
(* it is about to read, forget or cache fits its own scope, and so does    *)
(* every item and every batch result still to be cached, whatever the      *)
(* other calls did to the server and the cache since the answer came.      *)
CallSound(c) ==
  /\ c.pc # "done" => c.t \in Tenants
  /\ c.pc \in {"cache", "read", "activate", "forget", "drop"} => c.k \in Keys
  /\ c.pc \in {"cache", "read", "forget"} => Fits(c.id, c.t, c.u, c.s, c.k)
  /\ c.pc = "read" => c.op = "get"
  /\ c.pc = "activate" => c.op \in {"get", "delete"}
  /\ c.pc = "forget" => c.op = "delete"
  /\ c.pc = "items" => c.op \in {"search", "recall", "list"}
  /\ c.pc = "page" => c.op = "list"
  /\ c.op = "get" => ~c.tag
  /\ \A id \in c.items \cup c.result :
       engrams[id].vault = c.t /\ InScope(engrams[id], c.u, c.s, c.tag)
  /\ c.op = "get" => \A id \in c.result : engrams[id].key = c.k
  /\ \A a \in c.answers : a.id # NoId => Fits(a.id, c.t, c.u, c.s, a.key)

InFlightSound == \A w \in Workers : CallSound(call[w])

(* What a call hands to its caller belongs to the caller: Get answers an   *)
(* entry of that concept in scope, Search, Activate and List answer        *)
(* entries of the vault that carry the tags asked for.                     *)
AnswersInScope ==
  \A w \in Workers :
    LET c == call[w]
    IN  \A id \in c.result :
          /\ engrams[id].vault = c.t
          /\ InScope(engrams[id], c.u, c.s, c.tag)
          /\ c.op = "get" => engrams[id].key = c.k

(* An engram is forgotten only by a Delete whose tenant, user, session and *)
(* concept it carries, whether the id came from the cache or not.          *)
ForgetsOnlyRequested ==
  [][\A id \in live \ live' :
       \E w \in Workers :
         LET c == call[w]
         IN  /\ c.op = "delete" /\ c.pc = "forget"
             /\ Fits(id, c.t, c.u, c.s, c.k)]_vars

(* SetBatch answers nil only when the server stored every entry, over all  *)
(* chunks, with per-item errors and missing ids in any position: provided  *)
(* the server is not silent about an item, for the code does not count the *)
(* results it is given.                                                    *)
BatchOkMeansAllStored ==
  \A w \in Workers :
    call[w].op = "batch" /\ call[w].outcome = "ok"
      => call[w].stored = call[w].keys

(* "List returns all memories": each engram that matches the filters and   *)
(* was there from the first page to the last is in the answer.             *)
ListIsComplete ==
  \A w \in Workers :
    LET c == call[w]
    IN  c.op = "list" /\ c.outcome = "ok"
          => Scope(c.t, c.u, c.s, c.tag) \cap c.atStart \subseteq c.result

(* With one caller at a time, each with a session, and no lost answer, no  *)
(* cached id is left pointing at a forgotten engram between calls.         *)
CacheLive ==
  (\A w \in Workers : call[w].pc = "done")
    => \A t \in Tenants : \A x \in CacheKeys : idCache[t][x] \in live \cup {NoId}

(* The store as its callers see it: requests with the concepts still to be *)
(* dealt with, and entries.                                                *)
Kind(op) ==
  CASE op \in {"set", "batch"} -> "write"
    [] op = "delete" -> "delete"
    [] OTHER -> "read"

RequestOf(c) ==
  [kind |-> Kind(c.op), t |-> c.t, u |-> c.u, s |-> c.s, tag |-> c.tag,
   keys |-> CASE c.op = "batch" -> c.keys
              [] c.op \in {"set", "get", "delete"} -> {c.k}
              [] OTHER -> Keys]

Unsettled(c) ==
  CASE c.pc \in {"send", "serve", "results"} -> (c.keys \ c.sent) \cup c.chunk
    [] c.op = "delete" /\ c.pc \in {"activate", "forget"} -> {c.k}
    [] OTHER -> {}

EntryOf(id) ==
  LET e == engrams[id]
  IN  [id |-> id, vault |-> e.vault, user |-> e.user, session |-> e.session,
       key |-> e.key, profile |-> e.profile]

(* An entry counts as answered as soon as the server has answered it. *)
Answered(c) ==
  c.items \cup c.result
    \cup IF c.op = "get" /\ c.pc = "cache" THEN {c.id} ELSE {}

Memory ==
  INSTANCE ScopedMemory WITH
    Callers <- Workers,
    Requests <- [kind : {"write", "delete", "read"}, t : Tenants, u : TagUsers,
                 s : TagSessions, tag : BOOLEAN, keys : SUBSET Keys],
    EntryIds <- 1..MaxEngrams,
    ever <- {EntryOf(id) : id \in Ids},
    kept <- {EntryOf(id) : id \in live},
    asked <- [w \in Workers |-> RequestOf(call[w])],
    open <- {w \in Workers : call[w].pc # "done"},
    todo <- [w \in Workers |-> Unsettled(call[w])],
    heard <- [w \in Workers |-> {EntryOf(id) : id \in Answered(call[w])}]

(* The store is a scoped memory, with cached ids that may be stale, batches *)
(* in chunks, paged listings, failing requests and restarts: an answer was  *)
(* in scope and not forgotten at some moment of the call, a delete hits at  *)
(* most one entry and one that was asked for, and a write puts each concept *)
(* at most once, into the caller's own scope.                               *)
ImplementsMemory == Memory!Spec

(* Every call returns: no page loop, chunk loop or item loop runs forever, *)
(* and no call waits for another one.                                      *)
CallReturns ==
  \A w \in Workers : call[w].pc # "done" ~> call[w].pc = "done"

(* Get answers (nil, nil), not an error, when the entry does not exist.    *)
GetMissingIsNil ==
  \A w \in Workers : ~(call[w].op = "get" /\ call[w].outcome = "missing")
=============================================================================
