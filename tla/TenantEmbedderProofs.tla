------------------------- MODULE TenantEmbedderProofs -------------------------
(***************************************************************************)
(* Theorems about TenantEmbedder, for any providers, tenants, hashes and   *)
(* lists of texts.                                                         *)
(***************************************************************************)
EXTENDS TenantEmbedder, TLAPS

-----------------------------------------------------------------------------
(* Arithmetic of the fallback loop. *)

LEMMA ModSmall ==
  ASSUME NEW n \in Nat \ {0}, NEW x \in Nat, x < n
  PROVE  x % n = x
  BY SMT

LEMMA ModOnce ==
  ASSUME NEW n \in Nat \ {0}, NEW x \in Nat, n <= x, x < n + n
  PROVE  x % n = x - n
  BY SMT

LEMMA ModRange ==
  ASSUME NEW n \in Nat \ {0}, NEW x \in Nat
  PROVE  x % n \in 0..n-1
  BY SMT

(* Starting at c, the index j comes up after (j + n - c) % n rounds. *)
LEMMA RoundOf ==
  ASSUME NEW n \in Nat \ {0}, NEW c \in 0..n-1, NEW j \in 0..n-1
  PROVE  /\ (j + n - c) % n \in 0..n-1
         /\ (c + ((j + n - c) % n)) % n = j
  <1>1. CASE j >= c
    <2>1. (j + n - c) % n = j - c
      <3>1. j + n - c \in Nat /\ n <= j + n - c /\ j + n - c < n + n
        BY <1>1, SMT
      <3>2. (j + n - c) % n = (j + n - c) - n
        BY <3>1, ModOnce
      <3> QED BY <3>2, SMT
    <2>2. c + (j - c) = j /\ j \in Nat /\ j < n /\ j - c \in 0..n-1
      BY <1>1, SMT
    <2>3. j % n = j
      BY <2>2, ModSmall
    <2> QED BY <2>1, <2>2, <2>3
  <1>2. CASE j < c
    <2>1. (j + n - c) % n = j + n - c
      <3>1. j + n - c \in Nat /\ j + n - c < n
        BY <1>2, SMT
      <3> QED BY <3>1, ModSmall
    <2>2. /\ c + (j + n - c) = j + n /\ j + n \in Nat
          /\ n <= j + n /\ j + n < n + n
          /\ j + n - c \in 0..n-1 /\ (j + n) - n = j
      BY <1>2, SMT
    <2>3. (j + n) % n = j
      BY <2>2, ModOnce
    <2> QED BY <2>1, <2>2, <2>3
  <1> QED BY <1>1, <1>2, SMT

LEMMA EveryIndexHasItsRound ==
  ASSUME NEW n \in Nat \ {0}, NEW c \in 0..n-1, NEW j \in 0..n-1
  PROVE  \E a \in 0..n-1 : (c + a) % n = j
  <1> DEFINE a == (j + n - c) % n
  <1>1. a \in 0..n-1 /\ (c + a) % n = j
    BY RoundOf
  <1> HIDE DEF a
  <1> QED BY <1>1

(* The other way round: round a reaches the index that a is the round of. *)
LEMMA RoundAt ==
  ASSUME NEW n \in Nat \ {0}, NEW c \in 0..n-1, NEW a \in 0..n-1
  PROVE  /\ (c + a) % n \in 0..n-1
         /\ (((c + a) % n) + n - c) % n = a
  <1>1. CASE c + a < n
    <2>1. c + a \in Nat /\ (c + a) + n - c = a + n /\ a + n \in Nat
          /\ n <= a + n /\ a + n < n + n /\ (a + n) - n = a /\ c + a \in 0..n-1
      BY <1>1, SMT
    <2>2. (c + a) % n = c + a
      BY <1>1, <2>1, ModSmall
    <2>3. (a + n) % n = a
      BY <2>1, ModOnce
    <2> QED BY <2>1, <2>2, <2>3
  <1>2. CASE c + a >= n
    <2>1. /\ c + a \in Nat /\ n <= c + a /\ c + a < n + n
          /\ (c + a - n) + n - c = a /\ a \in Nat /\ a < n
          /\ c + a - n \in 0..n-1
      BY <1>2, SMT
    <2>2. (c + a) % n = c + a - n
      <3> DEFINE x == c + a
      <3>1. x \in Nat /\ n <= x /\ x < n + n
        BY <2>1
      <3> HIDE DEF x
      <3>2. x % n = x - n
        BY <3>1, ModOnce
      <3> QED BY <3>2 DEF x
    <2>3. a % n = a
      BY <2>1, ModSmall
    <2> QED BY <2>1, <2>2, <2>3
  <1> QED BY <1>1, <1>2, SMT

-----------------------------------------------------------------------------
(* Deployments. *)

(* A deployment is a list of distinct providers, and has at least one. *)
LEMMA DeploymentLists ==
  ASSUME NEW d \in Deployments
  PROVE  /\ d \in Seq(All)
         /\ Len(d) \in DOMAIN Registry
         /\ Len(d) \in Nat \ {0}
         /\ \A i, j \in 1..Len(d) : d[i] = d[j] => i = j
  <1>0. PICK n \in DOMAIN Registry :
          d \in {[i \in 1..n |-> Registry[f[i]]] :
                  f \in Increasing(n, DOMAIN Registry)}
    BY DEF Deployments
  <1>1. PICK f \in Increasing(n, DOMAIN Registry) : d = [i \in 1..n |-> Registry[f[i]]]
    BY <1>0
  <1>2. Registry \in Seq(All) /\ DOMAIN Registry = 1..Len(Registry)
    BY RegistryAssumption
  <1>3. n \in Nat \ {0}
    BY <1>2
  <1>4. f \in [1..n -> DOMAIN Registry] /\ \A i, j \in 1..n : i < j => f[i] < f[j]
    BY DEF Increasing
  <1>5. d \in [1..n -> All]
    BY <1>1, <1>4 DEF All
  <1>6. d \in Seq(All) /\ Len(d) = n
    BY <1>3, <1>5
  <1>7. ASSUME NEW i \in 1..n, NEW j \in 1..n, d[i] = d[j]
        PROVE  i = j
    <2>1. f[i] = f[j]
      BY <1>1, <1>4, <1>7, RegistryAssumption
    <2>2. f[i] \in Nat /\ f[j] \in Nat
      BY <1>2, <1>4
    <2>3. ~(i < j) /\ ~(j < i)
      BY <1>4, <2>1, <2>2
    <2> QED BY <1>3, <2>3
  <1> QED BY <1>3, <1>6, <1>7

LEMMA SlotRange ==
  ASSUME NEW t \in Tenants, NEW n \in DOMAIN Registry
  PROVE  Slot[n][t] \in 0..n-1
  <1>1. n \in Nat \ {0}
    BY RegistryAssumption
  <1>2. Hash[t].hi \in Nat /\ Hash[t].lo \in Nat
    BY HashAssumption
  <1>3. 65536 % n \in Nat
    BY <1>1, ModRange
  <1> DEFINE h == Hash[t].hi * (65536 % n) + Hash[t].lo
  <1>4. h \in Nat
    BY <1>2, <1>3
  <1>5. Slot[n][t] = h % n
    BY DEF Slot
  <1> HIDE DEF h
  <1>6. h % n \in 0..n-1
    BY <1>1, <1>4, ModRange
  <1> QED BY <1>5, <1>6

-----------------------------------------------------------------------------
(* The inductive invariant. *)

Cell == [model : All \cup {"none"}, text : Texts \cup {"none"}]

(* The providers that a call has gone past. *)
Passed(r) ==
  IF r.tenant = NoTenant THEN {}
  ELSE IF r.last THEN {providers[i] : i \in 1..N}
  ELSE {providers[((providerIndex(r.tenant) + a) % N) + 1] : a \in 0..r.attempt-1}

(* What excuses a provider that was passed by without fault of its own. *)
Excused(r) == r.cancelled /\ \A k \in DOMAIN r.vecs : r.vecs[k] = NoVector

(* An element holds the vector that the present provider made of its text, *)
(* unless the text is to do, in error or one the service had no vector for.*)
(* Elements are in the order of the texts and lack only such a text; and   *)
(* OpenAI's texts are to do all at once.                                   *)
Placed(r) ==
  /\ r.todo \cap (r.errs \cup r.gaps) = {}
  /\ r.place \in Contract!InOrder(r.texts)
  /\ \A i \in DOMAIN r.texts \ r.gaps : \E k \in DOMAIN r.place : r.place[k] = i
  /\ \A k \in DOMAIN r.place :
       r.vecs[k] = IF r.place[k] \in r.todo \cup r.errs \cup r.gaps THEN NoVector
                   ELSE Vector(NextProvider(r), r.texts[r.place[k]])
  /\ Kind[NextProvider(r)] = "openai" /\ r.todo # {} => r.todo = DOMAIN r.texts

(* The call has a reason for every provider it left, and for its error. *)
Reasons(r) ==
  /\ r.tenant = NoTenant => r.last
  /\ Passed(r) \subseteq r.failed \/ Excused(r)
  /\ r.errs # {} => NextProvider(r) \in r.failed \/ r.cancelled

Billed(r) ==
  r.bills = IF r.pc = "ok" /\ hooked THEN <<NextProvider(r)>> ELSE <<>>

Ended(r) ==
  /\ r.pc = "ok" => r.todo = {} /\ r.errs = {}
  /\ r.pc = "failed" => r.last /\ r.errs # {}

Well(r) ==
  /\ r \in RequestType
  /\ r.attempt < N
  /\ r.todo \cup r.errs \cup r.gaps \subseteq DOMAIN r.texts
  /\ Len(r.vecs) = Len(r.place) /\ Len(r.vecs) <= Len(r.texts)

CallInv(r) == Placed(r) /\ Reasons(r) /\ Billed(r) /\ Ended(r)

IInv == TypeOK /\ (req.pc # "none" => CallInv(req))

-----------------------------------------------------------------------------
(* What the invariant gives each step. *)

LEMMA ProviderCount ==
  ASSUME TypeOK
  PROVE  /\ N \in Nat \ {0} /\ N \in DOMAIN Registry
         /\ providers \in Seq(All)
         /\ \A i \in 1..N : providers[i] \in All
         /\ \A i, j \in 1..N : providers[i] = providers[j] => i = j
  BY DeploymentLists DEF TypeOK, N

LEMMA IndexRange ==
  ASSUME TypeOK, NEW t \in Tenants
  PROVE  providerIndex(t) \in 0..N-1
  BY ProviderCount, SlotRange DEF providerIndex

LEMMA NextIsProvider ==
  ASSUME TypeOK, NEW r, r.last \in BOOLEAN, r.attempt \in 0..N-1,
         r.last \/ r.tenant \in Tenants
  PROVE  NextProvider(r) \in All
  <1>1. CASE r.last
    BY <1>1, ProviderCount DEF NextProvider
  <1>2. CASE ~r.last
    <2>1. (providerIndex(r.tenant) + r.attempt) % N \in 0..N-1
      BY <1>2, ProviderCount, IndexRange, RoundAt
    <2> DEFINE i == (providerIndex(r.tenant) + r.attempt) % N
    <2>2. NextProvider(r) = providers[i + 1]
      BY <1>2 DEF NextProvider
    <2>3. i + 1 \in 1..N
      BY <2>1, ProviderCount
    <2> QED BY <2>2, <2>3, ProviderCount
  <1> QED BY <1>1, <1>2

LEMMA TextsAreLists ==
  ASSUME NEW x \in TextLists \cup {<<>>}
  PROVE  x \in Seq(Texts) /\ Len(x) \in Nat /\ DOMAIN x = 1..Len(x)
  <1>1. CASE x \in TextLists
    BY <1>1, TextsAssumption
  <1>2. CASE x = <<>>
    BY <1>2
  <1> QED BY <1>1, <1>2

(* What TypeOK says of the call, as facts the steps can cite. *)
LEMMA CallFacts ==
  ASSUME TypeOK
  PROVE  /\ DOMAIN req.texts = 1..Len(req.texts) /\ Len(req.texts) \in Nat
         /\ req.texts \in Seq(Texts)
         /\ req.vecs \in Seq(Cell) /\ req.place \in Seq(Nat)
         /\ DOMAIN req.vecs = DOMAIN req.place
         /\ DOMAIN req.vecs \subseteq 1..Len(req.texts)
         /\ req.attempt \in 0..N-1 /\ req.last \in BOOLEAN
         /\ req.cancelled \in BOOLEAN
  <1>1. req.texts \in TextLists \cup {<<>>}
    BY DEF TypeOK, RequestType
  <1>2. /\ req.texts \in Seq(Texts) /\ Len(req.texts) \in Nat
        /\ DOMAIN req.texts = 1..Len(req.texts)
    BY <1>1, TextsAreLists
  <1>3. /\ req.vecs \in Seq(Cell) /\ req.place \in Seq(Nat)
        /\ Len(req.vecs) = Len(req.place) /\ Len(req.vecs) <= Len(req.texts)
    BY DEF TypeOK, RequestType, Cell
  <1>4. req.attempt \in 0..N-1 /\ req.last \in BOOLEAN /\ req.cancelled \in BOOLEAN
    BY ProviderCount DEF TypeOK, RequestType
  <1> QED BY <1>2, <1>3, <1>4

(* A step that leaves the deployment and the hook alone has to answer for  *)
(* the new value of the call only.                                         *)
LEMMA Carried ==
  ASSUME TypeOK, UNCHANGED <<providers, hooked>>, up' \subseteq All,
         Well(req'), req'.pc # "none" => CallInv(req')
  PROVE  IInv'
  <1>1. N' = N
    BY DEF N
  <1>2. TypeOK'
    BY <1>1 DEF TypeOK, Well
  <1>3. \A r : NextProvider(r)' = NextProvider(r)
    BY <1>1 DEF NextProvider, providerIndex
  <1>4. (CallInv(req))' <=> CallInv(req')
    <2>1. (Placed(req))' <=> Placed(req')
      BY <1>3 DEF Placed
    <2>2. (Reasons(req))' <=> Reasons(req')
      BY <1>1, <1>3 DEF Reasons, Passed, Excused, providerIndex
    <2>3. (Billed(req))' <=> Billed(req')
      BY <1>3 DEF Billed
    <2>4. (Ended(req))' <=> Ended(req')
      BY DEF Ended
    <2> QED BY <2>1, <2>2, <2>3, <2>4 DEF CallInv
  <1> QED BY <1>2, <1>4 DEF IInv

-----------------------------------------------------------------------------
(* The invariant holds at the start, and each action keeps it. *)

LEMMA IdleIsWell ==
  ASSUME providers \in Deployments
  PROVE  Well(Idle)
  <1>1. N \in Nat \ {0}
    BY DeploymentLists DEF N
  <1>2. Idle \in RequestType
    BY DEF Idle, RequestType
  <1> QED BY <1>1, <1>2 DEF Well, Idle

LEMMA InitInv ==
  ASSUME Init
  PROVE  IInv
  <1>1. Well(Idle)
    BY IdleIsWell DEF Init
  <1>2. req = Idle /\ Idle.pc = "none"
    BY DEF Init, Idle
  <1> QED BY <1>1, <1>2 DEF Init, IInv, TypeOK, Well

(* A provider's call starts with everything to do. *)
LEMMA CallIsWell ==
  ASSUME TypeOK, NEW r \in RequestType, r.attempt < N
  PROVE  /\ Well(Call(r))
         /\ Call(r).pc = "embed" /\ Call(r).errs = {} /\ Call(r).bills = r.bills
         /\ Call(r).tenant = r.tenant /\ Call(r).texts = r.texts
         /\ Call(r).attempt = r.attempt /\ Call(r).last = r.last
         /\ Call(r).failed = r.failed /\ Call(r).cancelled = r.cancelled
         /\ \A k \in DOMAIN Call(r).vecs : Call(r).vecs[k] = NoVector
         /\ Placed(Call(r)) /\ Ended(Call(r))
  <1>1. r.texts \in Seq(Texts) /\ Len(r.texts) \in Nat /\ DOMAIN r.texts = 1..Len(r.texts)
    BY TextsAreLists DEF RequestType
  <1> DEFINE v == [i \in 1..Len(r.texts) |-> NoVector]
             w == [i \in 1..Len(r.texts) |-> i]
  <1>2. v \in Seq(Cell) /\ Len(v) = Len(r.texts) /\ w \in Seq(Nat) /\ Len(w) = Len(r.texts)
    <2>1. NoVector \in Cell
      BY DEF NoVector, Cell
    <2>2. v \in [1..Len(r.texts) -> Cell]
      BY <2>1
    <2>3. w \in [1..Len(r.texts) -> Nat]
      BY <1>1
    <2> QED BY <1>1, <2>2, <2>3
  <1>3. Call(r) = [r EXCEPT !.pc = "embed", !.todo = 1..Len(r.texts), !.errs = {},
                            !.gaps = {}, !.place = w, !.vecs = v]
    BY <1>1 DEF Call
  <1>4. /\ DOMAIN v = 1..Len(r.texts) /\ \A i \in DOMAIN v : v[i] = NoVector
        /\ DOMAIN w = 1..Len(r.texts) /\ \A i \in DOMAIN w : w[i] = i
    OBVIOUS
  <1>9. w \in Contract!InOrder(r.texts)
    <2>1. w \in [1..Len(r.texts) -> DOMAIN r.texts]
      BY <1>1
    <2>2. \A i, j \in 1..Len(r.texts) : i < j => w[i] < w[j]
      BY <1>4
    <2>3. Len(r.texts) \in 0..Len(r.texts)
      BY <1>1
    <2> HIDE DEF w
    <2> QED BY <2>1, <2>2, <2>3 DEF Contract!InOrder
  <1> HIDE DEF v, w
  <1>5. Call(r) \in RequestType
    <2>1. 1..Len(r.texts) \in SUBSET Nat
      BY <1>1
    <2> QED BY <1>2, <1>3, <2>1 DEF RequestType, Cell
  <1>6. /\ Call(r).pc = "embed" /\ Call(r).errs = {} /\ Call(r).bills = r.bills
        /\ Call(r).tenant = r.tenant /\ Call(r).texts = r.texts
        /\ Call(r).attempt = r.attempt /\ Call(r).last = r.last
        /\ Call(r).failed = r.failed /\ Call(r).cancelled = r.cancelled
        /\ Call(r).todo = 1..Len(r.texts) /\ Call(r).vecs = v /\ Call(r).gaps = {}
        /\ Call(r).place = w
    BY <1>3 DEF RequestType
  <1>7. Well(Call(r))
    BY <1>1, <1>2, <1>5, <1>6 DEF Well
  <1>8. Placed(Call(r))
    BY <1>1, <1>4, <1>6, <1>9 DEF Placed
  <1> QED BY <1>4, <1>6, <1>7, <1>8 DEF Ended

LEMMA EmbedInv ==
  ASSUME IInv, NEW t \in Tenants, NEW x \in TextLists, Embed(t, x)
  PROVE  IInv'
  <1> DEFINE b == t = NoTenant
             r == [Idle EXCEPT !.tenant = t, !.texts = x, !.last = b]
  <1>0. b \in BOOLEAN /\ (b <=> t = NoTenant)
    OBVIOUS
  <1>1. TypeOK /\ req' = Call(r) /\ UNCHANGED <<providers, hooked, up>>
    BY DEF IInv, Embed
  <1>2. N \in Nat \ {0}
    BY <1>1, ProviderCount
  <1>3. /\ r \in RequestType /\ r.attempt = 0 /\ r.tenant = t /\ r.bills = <<>>
        /\ r.last = b
    <2> HIDE DEF b
    <2>1. Idle \in RequestType /\ Idle.attempt = 0 /\ Idle.bills = <<>>
      BY DEF Idle, RequestType
    <2> QED BY <1>0, <2>1 DEF RequestType
  <1> HIDE DEF b, r
  <1>4. /\ Well(Call(r)) /\ Placed(Call(r)) /\ Ended(Call(r))
        /\ Call(r).pc = "embed" /\ Call(r).errs = {} /\ Call(r).bills = <<>>
        /\ Call(r).tenant = t /\ Call(r).attempt = 0 /\ Call(r).last = b
    BY <1>1, <1>2, <1>3, CallIsWell
  <1>5. Passed(Call(r)) = {}
    <2>1. 0..Call(r).attempt-1 = {}
      BY <1>4
    <2>2. Call(r).tenant = NoTenant \/ ~Call(r).last
      BY <1>0, <1>4
    <2> QED BY <2>1, <2>2 DEF Passed
  <1>6. Reasons(Call(r)) /\ Billed(Call(r))
    BY <1>0, <1>4, <1>5 DEF Reasons, Billed
  <1>7. CallInv(req')
    BY <1>1, <1>4, <1>6 DEF CallInv
  <1> QED BY <1>1, <1>4, <1>7, Carried DEF TypeOK

LEMMA PresentProvider ==
  ASSUME IInv, req.pc # "none"
  PROVE  NextProvider(req) \in All
  <1>1. TypeOK /\ (req.tenant = NoTenant => req.last)
    BY DEF IInv, CallInv, Reasons
  <1>2. req.tenant \in Tenants \cup {NoTenant}
    BY <1>1 DEF TypeOK, RequestType
  <1>3. req.last \in BOOLEAN /\ req.attempt \in 0..N-1
    BY <1>1, CallFacts
  <1> QED BY <1>1, <1>2, <1>3, NextIsProvider

LEMMA RequestsAreToDo ==
  ASSUME NEW r, Kind[NextProvider(r)] \in {"openai", "nvidia", "gemini"},
         NEW I \in Requests(r)
  PROVE  I \subseteq r.todo
  BY DEF Requests

(* Without a change of provider, the reasons for the providers gone past   *)
(* stay what they were.                                                    *)
LEMMA ReasonsStay ==
  ASSUME NEW r, NEW s, Reasons(r), r.failed \subseteq s.failed, r.cancelled => s.cancelled,
         s.tenant = r.tenant, s.last = r.last, s.attempt = r.attempt, s.texts = r.texts,
         Excused(r) => \A k \in DOMAIN s.vecs : s.vecs[k] = NoVector,
         s.errs # {} => NextProvider(r) \in s.failed \/ s.cancelled
  PROVE  Reasons(s)
  <1>1. Passed(s) = Passed(r) /\ NextProvider(s) = NextProvider(r)
    BY DEF Passed, NextProvider
  <1> QED BY <1>1 DEF Reasons, Excused

(* A list from which some texts are missing is still one in their order.   *)
LEMMA ListedInOrder ==
  ASSUME NEW x \in Seq(Texts), NEW I \in SUBSET (1..Len(x)), NEW n \in 0..Len(x),
         NEW f \in Increasing(n, I)
  PROVE  f \in Contract!InOrder(x)
  <1>1. f \in [1..n -> I] /\ \A i, j \in 1..n : i < j => f[i] < f[j]
    BY DEF Increasing
  <1>2. I \subseteq DOMAIN x
    OBVIOUS
  <1>3. f \in [1..n -> DOMAIN x]
    BY <1>1, <1>2
  <1> QED BY <1>1, <1>3 DEF Contract!InOrder

LEMMA HttpRequestInv ==
  ASSUME IInv, HttpRequest
  PROVE  IInv'
  <1> DEFINE P == NextProvider(req)
  <1>0. /\ TypeOK /\ req.pc = "embed" /\ Placed(req) /\ Reasons(req) /\ Billed(req)
        /\ UNCHANGED <<providers, up, hooked>>
    BY DEF IInv, CallInv, HttpRequest
  <1>1. P \in All
    BY <1>0, PresentProvider
  <1>2. Kind[P] \in {"openai", "nvidia", "gemini"}
    BY <1>1, RegistryAssumption
  <1>3. PICK I \in Requests(req) :
          \/ /\ P \in up /\ ~req.cancelled
             /\ \E f \in Places(req, P, I) :
                  \E E \in SUBSET {i \in I : \E k \in DOMAIN f : f[k] = i} :
                    req' = [req EXCEPT !.todo = @ \ I, !.gaps = @ \cup (I \ E),
                                       !.place = f, !.vecs = Out(req, P, I, E, f)]
          \/ /\ P \notin up \/ req.cancelled \/ EmptyResponse(P)
             /\ req' = [req EXCEPT !.todo = @ \ I, !.errs = @ \cup I,
                          !.failed = IF P \in up /\ req.cancelled THEN @
                                     ELSE @ \cup {P}]
    BY DEF HttpRequest
  <1>4. I \subseteq req.todo /\ req.todo \cup req.errs \cup req.gaps \subseteq 1..Len(req.texts)
    <2>1. req.todo \cup req.errs \cup req.gaps \subseteq 1..Len(req.texts)
      BY <1>0, CallFacts DEF TypeOK
    <2> QED BY <1>2, <2>1, RequestsAreToDo
  <1> DEFINE n == Len(req.texts)
  <1>5. /\ req \in RequestType /\ req.vecs \in Seq(Cell) /\ req.place \in Seq(Nat)
        /\ DOMAIN req.vecs = DOMAIN req.place
        /\ req.texts \in Seq(Texts) /\ n \in Nat /\ DOMAIN req.texts = 1..n
        /\ req.attempt < N /\ Len(req.vecs) = Len(req.place) /\ Len(req.vecs) <= n
    BY <1>0, CallFacts DEF TypeOK
  <1>8. Kind[P] = "openai" /\ req.todo # {} => req.todo = DOMAIN req.texts /\ I = req.todo
    BY <1>0 DEF Placed, Requests
  <1>9. req.todo # {}
    BY DEF HttpRequest, Settled
  <1>6. CASE /\ P \in up /\ ~req.cancelled
             /\ \E f \in Places(req, P, I) :
                  \E E \in SUBSET {i \in I : \E k \in DOMAIN f : f[k] = i} :
                    req' = [req EXCEPT !.todo = @ \ I, !.gaps = @ \cup (I \ E),
                                       !.place = f, !.vecs = Out(req, P, I, E, f)]
    <2>1. PICK f \in Places(req, P, I) :
            \E E \in SUBSET {i \in I : \E k \in DOMAIN f : f[k] = i} :
              req' = [req EXCEPT !.todo = @ \ I, !.gaps = @ \cup (I \ E),
                                 !.place = f, !.vecs = Out(req, P, I, E, f)]
      BY <1>6
    <2>2. PICK E \in SUBSET {i \in I : \E k \in DOMAIN f : f[k] = i} :
            req' = [req EXCEPT !.todo = req.todo \ I, !.gaps = req.gaps \cup (I \ E),
                               !.place = f, !.vecs = Out(req, P, I, E, f)]
      BY <1>5, <2>1
    <2>3. req.gaps \cup (I \ E) \in SUBSET Nat
      BY <1>4, <1>5 DEF RequestType
    <2>4. f \in Contract!InOrder(req.texts) /\ (Kind[P] # "openai" => f = req.place)
      BY <1>0, <1>4, <1>5, ListedInOrder DEF Placed, Places
    <2>5. PICK m \in 0..n : f \in [1..m -> 1..n]
      BY <1>5, <2>4 DEF Contract!InOrder
    <2>6. f \in Seq(Nat) /\ Len(f) = m /\ m \in Nat /\ m <= n /\ DOMAIN f = 1..m
      BY <1>5, <2>5
    <2> DEFINE v == Out(req, P, I, E, f)
    <2>7. /\ DOMAIN v = 1..m
          /\ \A k \in 1..m : v[k] = IF f[k] \in E THEN Vector(P, req.texts[f[k]])
                                    ELSE IF f[k] \in I THEN NoVector ELSE req.vecs[k]
          /\ v = [k \in 1..m |-> v[k]]
      BY <2>6 DEF Out
    <2> HIDE DEF v
    <2>8. \A k \in 1..m : f[k] \notin I => f = req.place
      BY <1>8, <1>9, <1>5, <2>4, <2>5
    <2>9. v \in Seq(Cell) /\ Len(v) = m
      <3>1. ASSUME NEW k \in 1..m PROVE v[k] \in Cell
        <4>1. CASE f[k] \in E
          <5>1. req.texts[f[k]] \in Texts
            BY <1>5, <2>5
          <5>2. Vector(P, req.texts[f[k]]) \in Cell
            BY <1>1, <5>1 DEF Vector, Cell
          <5> QED BY <2>7, <4>1, <5>2
        <4>2. CASE f[k] \notin E /\ f[k] \in I
          <5>1. NoVector \in Cell
            BY DEF NoVector, Cell
          <5> QED BY <2>7, <4>2, <5>1
        <4>3. CASE f[k] \notin E /\ f[k] \notin I
          <5>1. k \in DOMAIN req.vecs
            BY <1>5, <2>6, <2>8, <4>3
          <5>2. req.vecs[k] \in Cell
            BY <1>5, <5>1
          <5> QED BY <2>7, <4>3, <5>2
        <4> QED BY <4>1, <4>2, <4>3
      <3>2. v \in [1..m -> Cell]
        BY <2>7, <3>1
      <3> QED BY <2>6, <3>2
    <2>10. req' = [req EXCEPT !.todo = req.todo \ I, !.gaps = req.gaps \cup (I \ E),
                              !.place = f, !.vecs = v]
      BY <2>2 DEF v
    <2>11. /\ req'.todo = req.todo \ I /\ req'.vecs = v /\ req'.texts = req.texts
           /\ req'.place = f /\ req'.gaps = req.gaps \cup (I \ E)
           /\ req'.errs = req.errs /\ req'.failed = req.failed /\ req'.pc = "embed"
           /\ req'.cancelled = req.cancelled /\ req'.tenant = req.tenant
           /\ req'.last = req.last /\ req'.attempt = req.attempt /\ req'.bills = req.bills
      BY <1>0, <1>5, <2>10 DEF RequestType
    <2>12. req' \in RequestType
      BY <1>5, <2>3, <2>6, <2>9, <2>10 DEF RequestType, Cell
    <2>13. Well(req')
      <3>1. req'.todo \cup req'.errs \cup req'.gaps \subseteq DOMAIN req'.texts
        BY <1>4, <1>5, <2>11
      <3> QED BY <1>5, <2>6, <2>9, <2>11, <2>12, <3>1 DEF Well
    <2>14. NextProvider(req') = P
      BY <2>11 DEF NextProvider
    <2>15. Placed(req')
      <3>0. req.todo \cap (req.errs \cup req.gaps) = {}
        BY <1>0 DEF Placed
      <3>1. req'.todo \cap (req'.errs \cup req'.gaps) = {}
        BY <1>4, <2>11, <3>0
      <3>2. ASSUME NEW k \in DOMAIN req'.place
            PROVE  req'.vecs[k]
                     = IF req'.place[k] \in req'.todo \cup req'.errs \cup req'.gaps
                       THEN NoVector
                       ELSE Vector(NextProvider(req'), req'.texts[req'.place[k]])
        <4>1. k \in 1..m
          BY <2>6, <2>11
        <4>2. v[k] = IF f[k] \in E THEN Vector(P, req.texts[f[k]])
                     ELSE IF f[k] \in I THEN NoVector ELSE req.vecs[k]
          BY <2>7, <4>1
        <4>3. CASE f[k] \in E
          <5>1. f[k] \notin req'.todo \cup req'.errs \cup req'.gaps
            BY <1>4, <2>11, <3>0, <4>3
          <5> QED BY <2>11, <2>14, <4>2, <4>3, <5>1
        <4>4. CASE f[k] \in I \ E
          BY <2>11, <4>2, <4>4
        <4>5. CASE f[k] \notin I
          <5>1. f = req.place /\ k \in DOMAIN req.place
            BY <2>6, <2>8, <4>1, <4>5
          <5>2. req.vecs[k] = IF f[k] \in req.todo \cup req.errs \cup req.gaps THEN NoVector
                              ELSE Vector(P, req.texts[f[k]])
            BY <1>0, <5>1 DEF Placed
          <5>3. f[k] \in req'.todo \cup req'.errs \cup req'.gaps
                  <=> f[k] \in req.todo \cup req.errs \cup req.gaps
            BY <2>11, <4>5
          <5> QED BY <2>11, <2>14, <4>2, <4>5, <5>2, <5>3
        <4> QED BY <4>3, <4>4, <4>5
      <3>3. ASSUME NEW i \in DOMAIN req'.texts \ req'.gaps
            PROVE  \E k \in DOMAIN req'.place : req'.place[k] = i
        <4>1. i \in DOMAIN req.texts /\ i \notin req.gaps /\ i \notin I \ E
          BY <2>11, <3>3
        <4>2. CASE i \in E
          BY <2>2, <2>11, <4>2
        <4>3. CASE i \notin I
          <5>1. f = req.place
            BY <1>8, <1>9, <2>4, <4>1, <4>3
          <5> QED BY <1>0, <2>11, <4>1, <5>1 DEF Placed
        <4> QED BY <4>1, <4>2, <4>3
      <3>4. Kind[P] = "openai" => req'.todo = {}
        BY <1>8, <1>9, <2>11
      <3>5. req'.place \in Contract!InOrder(req'.texts)
        BY <2>4, <2>11
      <3> QED BY <2>14, <3>1, <3>2, <3>3, <3>4, <3>5 DEF Placed
    <2>16. ~Excused(req)
      BY <1>6 DEF Excused
    <2>17. Reasons(req')
      <3>1. req'.errs # {} => P \in req'.failed \/ req'.cancelled
        BY <1>0, <2>11 DEF Reasons
      <3> QED BY <1>0, <2>11, <2>16, <3>1, ReasonsStay
    <2>18. Billed(req') /\ Ended(req')
      BY <1>0, <2>11 DEF Billed, Ended
    <2> QED BY <1>0, <2>13, <2>15, <2>17, <2>18, Carried DEF CallInv, TypeOK
  <1>7. CASE /\ P \notin up \/ req.cancelled \/ EmptyResponse(P)
             /\ req' = [req EXCEPT !.todo = @ \ I, !.errs = @ \cup I,
                          !.failed = IF P \in up /\ req.cancelled THEN @
                                     ELSE @ \cup {P}]
    <2>1. PICK f \in SUBSET All :
            /\ req' = [req EXCEPT !.todo = req.todo \ I, !.errs = req.errs \cup I,
                                  !.failed = f]
            /\ req.failed \subseteq f
            /\ P \in f \/ req.cancelled
      <3>1. req.failed \subseteq All
        BY <1>5 DEF RequestType
      <3> QED BY <1>1, <1>5, <1>7, <3>1
    <2>2. /\ req'.todo = req.todo \ I /\ req'.vecs = req.vecs /\ req'.texts = req.texts
          /\ req'.gaps = req.gaps /\ req'.place = req.place
          /\ req'.errs = req.errs \cup I /\ req'.failed = f /\ req'.pc = "embed"
          /\ req'.cancelled = req.cancelled /\ req'.tenant = req.tenant
          /\ req'.last = req.last /\ req'.attempt = req.attempt /\ req'.bills = req.bills
      BY <1>0, <1>5, <2>1 DEF RequestType
    <2>3. req' \in RequestType
      <3>1. req.todo \ I \in SUBSET Nat /\ req.errs \cup I \in SUBSET Nat
        BY <1>4, <1>5 DEF RequestType
      <3> QED BY <1>5, <2>1, <3>1 DEF RequestType
    <2>4. Well(req')
      BY <1>4, <1>5, <2>2, <2>3 DEF Well
    <2>5. NextProvider(req') = P
      BY <2>2 DEF NextProvider
    <2>6. Placed(req')
      <3>1. req'.todo \cup req'.errs = req.todo \cup req.errs
        BY <1>4, <2>2
      <3>2. req'.todo \cap (req'.errs \cup req'.gaps) = {}
        BY <1>0, <1>4, <2>2 DEF Placed
      <3>3. Kind[P] = "openai" => req'.todo = {}
        BY <1>8, <1>9, <2>2
      <3>4. req'.todo \cup req'.errs \cup req'.gaps = req.todo \cup req.errs \cup req.gaps
        BY <2>2, <3>1
      <3> QED BY <1>0, <2>2, <2>5, <3>2, <3>3, <3>4 DEF Placed
    <2>7. Reasons(req')
      <3>1. Excused(req) => \A k \in DOMAIN req'.vecs : req'.vecs[k] = NoVector
        BY <2>2 DEF Excused
      <3>2. req'.errs # {} => P \in req'.failed \/ req'.cancelled
        BY <2>1, <2>2
      <3>3. req.failed \subseteq req'.failed /\ (req.cancelled => req'.cancelled)
        BY <2>1, <2>2
      <3> QED BY <1>0, <2>2, <3>1, <3>2, <3>3, ReasonsStay
    <2>8. Billed(req') /\ Ended(req')
      BY <1>0, <2>2 DEF Billed, Ended
    <2> QED BY <1>0, <2>4, <2>6, <2>7, <2>8, Carried DEF CallInv, TypeOK
  <1> QED BY <1>3, <1>6, <1>7

LEMMA ProviderAnswersInv ==
  ASSUME IInv, ProviderAnswers
  PROVE  IInv'
  <1>1. /\ TypeOK /\ CallInv(req) /\ req.pc = "embed" /\ req.errs = {} /\ Settled(req)
        /\ req' = [req EXCEPT !.pc = "ok", !.bills = Bill(req)]
        /\ UNCHANGED <<providers, up, hooked>>
    BY DEF IInv, ProviderAnswers
  <1>2. Bill(req) = IF hooked THEN <<NextProvider(req)>> ELSE <<>>
    BY <1>1 DEF Bill, Billed, CallInv
  <1>3. Bill(req) \in Seq(All)
    BY <1>1, <1>2, PresentProvider
  <1>4. req \in RequestType
    BY <1>1 DEF TypeOK
  <1>5. /\ req'.todo = req.todo /\ req'.vecs = req.vecs /\ req'.texts = req.texts
        /\ req'.gaps = req.gaps /\ req'.place = req.place
        /\ req'.errs = {} /\ req'.failed = req.failed /\ req'.pc = "ok"
        /\ req'.cancelled = req.cancelled /\ req'.tenant = req.tenant
        /\ req'.last = req.last /\ req'.attempt = req.attempt /\ req'.bills = Bill(req)
    BY <1>1, <1>4 DEF RequestType
  <1>6. Well(req')
    <2>1. req' \in RequestType
      BY <1>1, <1>3, <1>4 DEF RequestType
    <2> QED BY <1>1, <1>5, <2>1 DEF Well, TypeOK
  <1>7. NextProvider(req') = NextProvider(req)
    BY <1>5 DEF NextProvider
  <1>8. Placed(req')
    BY <1>1, <1>5, <1>7 DEF CallInv, Placed
  <1>9. Reasons(req')
    <2>1. Excused(req) => \A k \in DOMAIN req'.vecs : req'.vecs[k] = NoVector
      BY <1>5 DEF Excused
    <2>2. req'.errs = {} /\ req.failed \subseteq req'.failed
      BY <1>5
    <2>3. Reasons(req) /\ (req.cancelled => req'.cancelled)
      BY <1>1, <1>5 DEF CallInv
    <2> QED BY <1>5, <2>1, <2>2, <2>3, ReasonsStay
  <1>10. Billed(req')
    BY <1>2, <1>5, <1>7 DEF Billed
  <1>11. Ended(req')
    BY <1>1, <1>5 DEF Ended, Settled
  <1> QED BY <1>1, <1>6, <1>8, <1>9, <1>10, <1>11, Carried DEF CallInv, TypeOK

(* The provider that fails joins the ones gone past, and after the last    *)
(* round every provider has had its turn.                                  *)
LEMMA PassedGrows ==
  ASSUME TypeOK, NEW r, NEW s, r.tenant \in Tenants \ {NoTenant}, s.tenant = r.tenant,
         ~r.last, s.last \in BOOLEAN, r.attempt \in 0..N-1,
         \/ s.last /\ LastAttempt(r)
         \/ ~s.last /\ s.attempt = r.attempt + 1
  PROVE  Passed(s) \subseteq Passed(r) \cup {NextProvider(r)}
  <1> DEFINE c == providerIndex(r.tenant)
             at(a) == providers[((c + a) % N) + 1]
  <1>1. N \in Nat \ {0} /\ c \in 0..N-1
    BY ProviderCount, IndexRange
  <1>2. Passed(r) = {at(a) : a \in 0..r.attempt-1} /\ NextProvider(r) = at(r.attempt)
    BY DEF Passed, NextProvider
  <1>3. CASE ~s.last /\ s.attempt = r.attempt + 1
    <2>1. Passed(s) = {at(a) : a \in 0..s.attempt-1}
      BY <1>3 DEF Passed
    <2>2. \A a \in 0..s.attempt-1 : a \in 0..r.attempt-1 \/ a = r.attempt
      BY <1>3
    <2> HIDE DEF at
    <2> QED BY <1>2, <2>1, <2>2
  <1>4. CASE s.last /\ LastAttempt(r)
    <2>1. Passed(s) = {providers[i] : i \in 1..N}
      BY <1>4 DEF Passed
    <2>2. r.attempt = N - 1
      BY <1>1, <1>4 DEF LastAttempt
    <2>3. ASSUME NEW i \in 1..N
          PROVE  \E a \in 0..N-1 : providers[i] = at(a)
      <3>1. PICK j \in 0..N-1 : j + 1 = i
        <4>1. i - 1 \in 0..N-1 /\ (i - 1) + 1 = i
          BY <1>1
        <4> QED BY <4>1
      <3>2. PICK k \in 0..N-1 : k = c
        BY <1>1
      <3>3. PICK a \in 0..N-1 : (k + a) % N = j
        BY <1>1, EveryIndexHasItsRound
      <3>4. at(a) = providers[j + 1]
        BY <3>2, <3>3
      <3> HIDE DEF at
      <3> QED BY <3>1, <3>3, <3>4
    <2>4. \A a \in 0..N-1 : a \in 0..r.attempt-1 \/ a = r.attempt
      BY <1>1, <2>2
    <2> HIDE DEF at
    <2> QED BY <1>2, <2>1, <2>3, <2>4
  <1> QED BY <1>3, <1>4

LEMMA ProviderFailsInv ==
  ASSUME IInv, ProviderFails
  PROVE  IInv'
  <1> DEFINE P == NextProvider(req)
  <1>1. /\ TypeOK /\ CallInv(req) /\ req.pc = "embed" /\ req.errs # {}
        /\ UNCHANGED <<providers, up, hooked>>
    BY DEF IInv, ProviderFails
  <1>2. req \in RequestType /\ req.attempt \in 0..N-1 /\ req.last \in BOOLEAN
    BY <1>1, CallFacts DEF TypeOK
  <1>3. P \in req.failed \/ req.cancelled
    BY <1>1 DEF CallInv, Reasons
  <1>4. CASE req.last /\ req' = [req EXCEPT !.pc = "failed"]
    <2>1. /\ req'.todo = req.todo /\ req'.vecs = req.vecs /\ req'.texts = req.texts
          /\ req'.gaps = req.gaps /\ req'.place = req.place
          /\ req'.errs = req.errs /\ req'.failed = req.failed /\ req'.pc = "failed"
          /\ req'.cancelled = req.cancelled /\ req'.tenant = req.tenant
          /\ req'.last = req.last /\ req'.attempt = req.attempt /\ req'.bills = req.bills
      BY <1>2, <1>4 DEF RequestType
    <2>2. req' \in RequestType
      BY <1>2, <1>4 DEF RequestType
    <2>3. Well(req')
      BY <1>1, <2>1, <2>2 DEF Well, TypeOK
    <2>4. NextProvider(req') = P
      BY <2>1 DEF NextProvider
    <2>5. Placed(req')
      BY <1>1, <2>1, <2>4 DEF CallInv, Placed
    <2>6. Reasons(req')
      <3>1. Excused(req) => \A k \in DOMAIN req'.vecs : req'.vecs[k] = NoVector
        BY <2>1 DEF Excused
      <3>2. /\ Reasons(req) /\ req.failed \subseteq req'.failed
            /\ (req.cancelled => req'.cancelled)
            /\ (req'.errs # {} => P \in req'.failed \/ req'.cancelled)
        BY <1>1, <1>3, <2>1 DEF CallInv
      <3> QED BY <2>1, <3>1, <3>2, ReasonsStay
    <2>7. Billed(req') /\ Ended(req')
      BY <1>1, <1>4, <2>1 DEF CallInv, Billed, Ended
    <2> QED BY <1>1, <2>3, <2>5, <2>6, <2>7, Carried DEF CallInv, TypeOK
  <1>5. ASSUME NEW r \in RequestType, req' = Call(r), ~req.last,
               r.attempt \in 0..N-1, r.last \in BOOLEAN,
               r.tenant = req.tenant, r.texts = req.texts, r.bills = req.bills,
               r.failed = req.failed, r.cancelled = req.cancelled,
               \/ r.last /\ LastAttempt(req)
               \/ ~r.last /\ r.attempt = req.attempt + 1
        PROVE  IInv'
    <2>1. r.attempt < N
      BY <1>1, <1>5, ProviderCount
    <2>2. /\ Well(Call(r)) /\ Placed(Call(r)) /\ Ended(Call(r))
          /\ Call(r).pc = "embed" /\ Call(r).errs = {} /\ Call(r).bills = r.bills
          /\ Call(r).tenant = r.tenant /\ Call(r).texts = r.texts
          /\ Call(r).attempt = r.attempt /\ Call(r).last = r.last
          /\ Call(r).failed = r.failed /\ Call(r).cancelled = r.cancelled
          /\ \A k \in DOMAIN Call(r).vecs : Call(r).vecs[k] = NoVector
      BY <1>1, <2>1, CallIsWell
    <2>3. req.tenant \in Tenants \ {NoTenant}
      BY <1>1, <1>2, <1>5 DEF CallInv, Reasons, RequestType
    <2>4. Passed(Call(r)) \subseteq Passed(req) \cup {P}
      BY <1>1, <1>2, <1>5, <2>2, <2>3, PassedGrows
    <2>5. Reasons(Call(r))
      <3>1. CASE Excused(req) \/ P \notin req.failed
        <4>1. Call(r).cancelled
          BY <1>3, <1>5, <2>2, <3>1 DEF Excused
        <4> QED BY <1>5, <2>2, <2>3, <4>1 DEF Reasons, Excused
      <3>2. CASE Passed(req) \subseteq req.failed /\ P \in req.failed
        BY <1>5, <2>2, <2>3, <2>4, <3>2 DEF Reasons
      <3> QED BY <1>1, <3>1, <3>2 DEF CallInv, Reasons
    <2>6. Billed(Call(r))
      BY <1>1, <1>5, <2>2 DEF CallInv, Billed
    <2> QED BY <1>1, <1>5, <2>2, <2>5, <2>6, Carried DEF CallInv, TypeOK
  <1>6. CASE ~req.last /\ LastAttempt(req) /\ req' = Call([req EXCEPT !.last = TRUE])
    <2> DEFINE r == [req EXCEPT !.last = TRUE]
    <2>1. /\ r \in RequestType /\ r.last /\ r.attempt = req.attempt
          /\ r.tenant = req.tenant /\ r.texts = req.texts /\ r.bills = req.bills
          /\ r.failed = req.failed /\ r.cancelled = req.cancelled
      BY <1>2 DEF RequestType
    <2>2. req' = Call(r) /\ r.last \in BOOLEAN
      BY <1>6, <2>1
    <2> HIDE DEF r
    <2> QED BY <1>2, <1>5, <1>6, <2>1, <2>2
  <1>7. CASE /\ ~req.last /\ ~LastAttempt(req)
             /\ req' = Call([req EXCEPT !.attempt = @ + 1])
    <2> DEFINE r == [req EXCEPT !.attempt = req.attempt + 1]
    <2>0. req.attempt + 1 \in Nat
      BY <1>2 DEF RequestType
    <2>1. /\ r \in RequestType /\ r.last = req.last /\ r.attempt = req.attempt + 1
          /\ r.tenant = req.tenant /\ r.texts = req.texts /\ r.bills = req.bills
          /\ r.failed = req.failed /\ r.cancelled = req.cancelled
      BY <1>2, <2>0 DEF RequestType
    <2>2. req' = Call(r) /\ r.attempt \in 0..N-1
      <3>1. N \in Nat
        BY <1>1, ProviderCount
      <3>2. req.attempt + 1 \in 0..N-1
        BY <1>2, <1>7, <3>1 DEF LastAttempt
      <3>3. req' = Call(r)
        BY <1>2, <1>7 DEF RequestType
      <3> QED BY <2>1, <3>2, <3>3
    <2> HIDE DEF r
    <2> QED BY <1>2, <1>5, <1>7, <2>1, <2>2
  <1> QED BY <1>4, <1>6, <1>7 DEF ProviderFails

LEMMA CancelInv ==
  ASSUME IInv, Cancel
  PROVE  IInv'
  <1>1. /\ TypeOK /\ CallInv(req) /\ req.pc = "embed"
        /\ req' = [req EXCEPT !.cancelled = TRUE]
        /\ UNCHANGED <<providers, up, hooked>>
    BY DEF IInv, Cancel
  <1>2. req \in RequestType
    BY <1>1 DEF TypeOK
  <1>3. /\ req'.todo = req.todo /\ req'.vecs = req.vecs /\ req'.texts = req.texts
        /\ req'.gaps = req.gaps /\ req'.place = req.place
        /\ req'.errs = req.errs /\ req'.failed = req.failed /\ req'.pc = req.pc
        /\ req'.cancelled /\ req'.tenant = req.tenant
        /\ req'.last = req.last /\ req'.attempt = req.attempt /\ req'.bills = req.bills
        /\ req' \in RequestType
    BY <1>1, <1>2 DEF RequestType
  <1>4. Well(req')
    BY <1>1, <1>3 DEF Well, TypeOK
  <1>5. NextProvider(req') = NextProvider(req)
    BY <1>3 DEF NextProvider
  <1>6. Placed(req') /\ Billed(req') /\ Ended(req')
    BY <1>1, <1>3, <1>5 DEF CallInv, Placed, Billed, Ended
  <1>7. Reasons(req')
    <2>1. Excused(req) => \A k \in DOMAIN req'.vecs : req'.vecs[k] = NoVector
      BY <1>3 DEF Excused
    <2>2. Reasons(req) /\ req.failed \subseteq req'.failed
      BY <1>1, <1>3 DEF CallInv
    <2> QED BY <1>3, <2>1, <2>2, ReasonsStay
  <1> QED BY <1>1, <1>4, <1>6, <1>7, Carried DEF CallInv, TypeOK

LEMMA SetBillingHookInv ==
  ASSUME IInv, SetBillingHook
  PROVE  IInv'
  <1>1. TypeOK /\ req.pc = "none" /\ hooked' = TRUE /\ UNCHANGED <<providers, up, req>>
    BY DEF IInv, SetBillingHook
  <1>2. N' = N
    BY <1>1 DEF N
  <1>3. TypeOK'
    BY <1>1, <1>2 DEF TypeOK
  <1> QED BY <1>1, <1>3 DEF IInv

LEMMA FlipInv ==
  ASSUME IInv, NEW p \in All, Flip(p)
  PROVE  IInv'
  <1>1. TypeOK /\ UNCHANGED <<providers, hooked, req>>
    BY DEF IInv, Flip
  <1>2. up' \subseteq All
    BY <1>1 DEF Flip, TypeOK
  <1>3. Well(req) /\ (req.pc # "none" => CallInv(req))
    BY <1>1 DEF IInv, TypeOK, Well
  <1> QED BY <1>1, <1>2, <1>3, Carried

LEMMA RedeployInv ==
  ASSUME IInv, Redeploy
  PROVE  IInv'
  <1>1. providers' \in Deployments /\ hooked' = FALSE /\ req' = Idle /\ up' = up
    BY DEF Redeploy
  <1>2. \A d \in Deployments : Len(d) \in Nat \ {0}
    BY DeploymentLists
  <1>3. N' \in Nat \ {0}
    BY <1>1, <1>2 DEF N
  <1>4. Well(Idle)
    BY IdleIsWell DEF IInv, TypeOK
  <1>5. Idle.pc = "none" /\ Idle.attempt = 0
    BY DEF Idle
  <1>6. TypeOK'
    <2>1. req'.attempt < N'
      BY <1>1, <1>3, <1>5
    <2>2. /\ req' \in RequestType /\ Len(req'.vecs) = Len(req'.place)
          /\ Len(req'.vecs) <= Len(req'.texts)
          /\ req'.todo \cup req'.errs \cup req'.gaps \subseteq DOMAIN req'.texts
      BY <1>1, <1>4 DEF Well
    <2>3. up' \subseteq All
      BY <1>1 DEF IInv, TypeOK
    <2> QED BY <1>1, <2>1, <2>2, <2>3 DEF TypeOK
  <1> QED BY <1>1, <1>5, <1>6 DEF IInv

THEOREM Invariance == Spec => []IInv
  <1>1. Init => IInv
    BY InitInv
  <1>2. IInv /\ [Next]_vars => IInv'
    <2> SUFFICES ASSUME IInv, [Next]_vars
                 PROVE  IInv'
      OBVIOUS
    <2>1. CASE \E t \in Tenants, x \in TextLists : Embed(t, x)
      BY <2>1, EmbedInv
    <2>2. CASE HttpRequest
      BY <2>2, HttpRequestInv
    <2>3. CASE ProviderAnswers
      BY <2>3, ProviderAnswersInv
    <2>4. CASE ProviderFails
      BY <2>4, ProviderFailsInv
    <2>5. CASE Cancel
      BY <2>5, CancelInv
    <2>6. CASE SetBillingHook
      BY <2>6, SetBillingHookInv
    <2>7. CASE \E p \in All : Flip(p)
      BY <2>7, FlipInv
    <2>8. CASE Redeploy
      BY <2>8, RedeployInv
    <2>9. CASE UNCHANGED vars
      <3>1. UNCHANGED <<providers, up, hooked, req>>
        BY <2>9 DEF vars
      <3>2. Well(req) /\ (req.pc # "none" => CallInv(req)) /\ up \subseteq All /\ TypeOK
        BY DEF IInv, TypeOK, Well
      <3> QED BY <3>1, <3>2, Carried
    <2> QED BY <2>1, <2>2, <2>3, <2>4, <2>5, <2>6, <2>7, <2>8, <2>9 DEF Next, Step
  <1> QED BY <1>1, <1>2, PTL DEF Spec

-----------------------------------------------------------------------------
(* What follows from the invariant. *)

(* Every variable keeps its type in every behaviour. *)
THEOREM TypeCorrect == Spec => []TypeOK
  <1>1. IInv => TypeOK
    BY DEF IInv
  <1> QED BY <1>1, Invariance, PTL

LEMMA FailureExcused ==
  ASSUME IInv
  PROVE  FailsOnlyWithoutProvider
  <1> SUFFICES ASSUME req.pc = "failed", ~req.cancelled
               PROVE  IF req.tenant = NoTenant THEN providers[1] \in req.failed
                      ELSE {providers[i] : i \in 1..N} \subseteq req.failed
    BY DEF FailsOnlyWithoutProvider
  <1>1. req.last /\ req.errs # {}
    BY DEF IInv, CallInv, Ended
  <1>2. NextProvider(req) = providers[1]
    BY <1>1 DEF NextProvider
  <1>3. Reasons(req)
    BY DEF IInv, CallInv
  <1>4. CASE req.tenant = NoTenant
    BY <1>1, <1>2, <1>3, <1>4 DEF Reasons
  <1>5. CASE req.tenant # NoTenant
    BY <1>1, <1>3, <1>5 DEF Reasons, Excused, Passed
  <1> QED BY <1>4, <1>5

(* A call whose context lives fails only after every provider its tenant   *)
(* may fall back to was found down or gave nothing.                        *)
THEOREM FailureHasCause == Spec => []FailsOnlyWithoutProvider
  BY Invariance, FailureExcused, PTL

(* An answer's vectors are the present provider's. *)
LEMMA AnswerOfPresent ==
  ASSUME IInv, req.pc = "ok"
  PROVE  Answered \subseteq {NextProvider(req)}
  <1>1. Placed(req) /\ TypeOK
    BY DEF IInv, CallInv
  <1>2. DOMAIN req.vecs = DOMAIN req.place
    BY <1>1, CallFacts
  <1>3. ASSUME NEW k \in DOMAIN req.place
        PROVE  req.vecs[k].model \in {NoVector.model, NextProvider(req)}
    <2>1. req.vecs[k] \in {NoVector, Vector(NextProvider(req), req.texts[req.place[k]])}
      BY <1>1 DEF Placed
    <2>2. Vector(NextProvider(req), req.texts[req.place[k]]).model = NextProvider(req)
      BY DEF Vector
    <2> QED BY <2>1, <2>2
  <1> QED BY <1>2, <1>3 DEF Answered

LEMMA AnswerBilled ==
  ASSUME IInv
  PROVE  BilledAsAnswered
  <1>1. CASE req.pc = "ok"
    BY <1>1, AnswerOfPresent DEF BilledAsAnswered, IInv, CallInv, Billed
  <1>2. CASE req.pc # "ok"
    BY <1>2 DEF BilledAsAnswered, IInv, CallInv, Billed
  <1> QED BY <1>1, <1>2

(* The hook hears of one model for an answered call, the one whose vectors *)
(* the caller got, and of none for a failed call.                          *)
THEOREM BillingMatchesAnswer == Spec => []BilledAsAnswered
  BY Invariance, AnswerBilled, PTL

(* The present provider of a call that is past its first round comes up in *)
(* round req.attempt, and a provider of an earlier round was gone past.    *)
LEMMA EarlierIsPassed ==
  ASSUME TypeOK, req.tenant \in Tenants \ {NoTenant}, ~req.last,
         NEW k \in 1..N, providers[k] = NextProvider(req), NEW i \in 1..N,
         (i - 1 + N - providerIndex(req.tenant)) % N
           < (k - 1 + N - providerIndex(req.tenant)) % N
  PROVE  providers[i] \in Passed(req)
  <1>1. PICK c \in 0..N-1 : c = providerIndex(req.tenant)
    BY IndexRange
  <1>2. N \in Nat \ {0} /\ req.attempt \in 0..N-1
    BY ProviderCount, CallFacts
  <1>3. PICK x \in 0..N-1 : x + 1 = k
    <2>1. k - 1 \in 0..N-1 /\ (k - 1) + 1 = k
      BY <1>2
    <2> QED BY <2>1
  <1>4. PICK y \in 0..N-1 : y + 1 = i
    <2>1. i - 1 \in 0..N-1 /\ (i - 1) + 1 = i
      BY <1>2
    <2> QED BY <2>1
  <1>5. k - 1 = x /\ i - 1 = y
    BY <1>2, <1>3, <1>4
  <1>6. (c + req.attempt) % N = x
    <2>1. /\ (c + req.attempt) % N \in 0..N-1
          /\ (((c + req.attempt) % N) + N - c) % N = req.attempt
      BY <1>2, RoundAt
    <2>2. PICK z \in 0..N-1 : z = (c + req.attempt) % N
      BY <2>1
    <2>3. NextProvider(req) = providers[z + 1]
      BY <1>1, <2>2 DEF NextProvider
    <2>4. z + 1 \in 1..N
      BY <1>2
    <2>5. z + 1 = x + 1
      BY <1>3, <2>3, <2>4, ProviderCount
    <2> QED BY <2>2, <2>5
  <1>7. (x + N - c) % N = req.attempt
    BY <1>2, <1>6, RoundAt
  <1>8. PICK b \in 0..N-1 : b = (y + N - c) % N /\ (c + b) % N = y
    <2>1. /\ (y + N - c) % N \in 0..N-1
          /\ (c + ((y + N - c) % N)) % N = y
      BY <1>2, RoundOf
    <2> QED BY <2>1
  <1>9. b < req.attempt
    BY <1>1, <1>5, <1>7, <1>8
  <1>10. b \in 0..req.attempt-1
    BY <1>2, <1>9
  <1>11. providers[i] = providers[((providerIndex(req.tenant) + b) % N) + 1]
    BY <1>1, <1>4, <1>8
  <1> QED BY <1>10, <1>11 DEF Passed

LEMMA FallbackPastFailed ==
  ASSUME IInv
  PROVE  FallbackOnlyPastFailed
  <1> SUFFICES ASSUME req.pc = "ok", NEW k \in 1..N, providers[k] \in Answered
               PROVE  \/ req.last /\ req.tenant # NoTenant /\ k = 1
                      \/ \A i \in 1..N :
                           (IF req.tenant = NoTenant THEN i < k
                            ELSE (i - 1 + N - providerIndex(req.tenant)) % N
                                 < (k - 1 + N - providerIndex(req.tenant)) % N)
                           => providers[i] \in req.failed
    BY DEF FallbackOnlyPastFailed
  <1>1. TypeOK /\ Reasons(req) /\ N \in Nat \ {0}
    BY ProviderCount DEF IInv, CallInv
  <1>2. providers[k] = NextProvider(req)
    BY AnswerOfPresent
  <1>3. CASE req.last
    <2>1. NextProvider(req) = providers[1] /\ 1 \in 1..N
      BY <1>1, <1>3 DEF NextProvider
    <2>2. k = 1
      BY <1>1, <1>2, <2>1, ProviderCount
    <2> QED BY <1>3, <2>2
  <1>4. CASE ~req.last
    <2>1. req.tenant \in Tenants \ {NoTenant}
      BY <1>1, <1>4 DEF TypeOK, RequestType, Reasons
    <2>2. ~Excused(req)
      <3>1. PICK j \in DOMAIN req.vecs : /\ req.vecs[j].model = providers[k]
                                         /\ req.vecs[j].model # NoVector.model
        BY DEF Answered
      <3> QED BY <3>1 DEF Excused
    <2>3. Passed(req) \subseteq req.failed
      BY <1>1, <2>2 DEF Reasons
    <2> QED BY <1>1, <1>2, <1>4, <2>1, <2>3, EarlierIsPassed
  <1> QED BY <1>1, <1>3, <1>4, CallFacts

(* A tenant is served by its own provider unless that one, and every other *)
(* before the one that serves it, was found down or gave nothing.          *)
THEOREM FallbackInOrder == Spec => []FallbackOnlyPastFailed
  BY Invariance, FallbackPastFailed, PTL

-----------------------------------------------------------------------------
(* The embedder implements the contract its callers rely on. *)

LEMMA InitImplements ==
  ASSUME Init
  PROVE  Contract!Init
  BY DEF Init, Idle, Caller, Contract!Init, Contract!NoRequest, Contract!Request

LEMMA EmbedAsks ==
  ASSUME IInv, NEW t \in Tenants, NEW x \in TextLists, Embed(t, x)
  PROVE  Contract!Ask(x)
  <1> DEFINE r == [Idle EXCEPT !.tenant = t, !.texts = x, !.last = (t = NoTenant)]
  <1>1. req.pc # "embed" /\ req' = Call(r)
    BY DEF Embed
  <1>2. req'.pc = "embed" /\ req'.texts = x
    BY <1>1 DEF Call, Idle
  <1>3. Caller.state # "waiting"
    <2>1. req.pc \in {"none", "ok", "failed"}
      BY <1>1 DEF IInv, TypeOK, RequestType
    <2> QED BY <2>1 DEF Caller
  <1>4. Caller' = [state |-> "waiting", texts |-> x, out |-> <<>>, gaps |-> {}]
    BY <1>2 DEF Caller
  <1> QED BY <1>3, <1>4 DEF Contract!Ask, Contract!Request

(* While the provider is at work, and when the next one is tried, the      *)
(* caller sees nothing.                                                    *)
LEMMA WorkIsUnseen ==
  ASSUME req'.pc = req.pc, req.pc # "ok", req'.texts = req.texts
  PROVE  Caller' = Caller
  BY DEF Caller

LEMMA AnswerIsPromised ==
  ASSUME IInv, ProviderAnswers
  PROVE  \E m \in All, G \in SUBSET DOMAIN Caller.texts,
            f \in Contract!InOrder(Caller.texts) : Contract!Answer(m, G, f)
  <1> DEFINE P == NextProvider(req)
             v == [k \in DOMAIN req.place |->
                     IF req.place[k] \in req.gaps THEN NoVector
                     ELSE Vector(P, req.texts[req.place[k]])]
  <1>1. /\ TypeOK /\ Placed(req) /\ req.pc = "embed" /\ req.errs = {} /\ Settled(req)
        /\ req' = [req EXCEPT !.pc = "ok", !.bills = Bill(req)]
    BY DEF IInv, CallInv, ProviderAnswers
  <1>2. req.todo = {} /\ P \in All
    BY <1>1, PresentProvider DEF Settled
  <1>3. /\ req'.pc = "ok" /\ req'.texts = req.texts /\ req'.vecs = req.vecs
        /\ req'.gaps = req.gaps /\ req'.place = req.place
    BY <1>1 DEF TypeOK, RequestType
  <1>4. Caller.state = "waiting" /\ Caller.texts = req.texts
    BY <1>1 DEF Caller
  <1>5. Caller' = [state |-> "ok", texts |-> req.texts, out |-> req.vecs,
                   gaps |-> req.gaps]
    BY <1>3 DEF Caller
  <1>6. DOMAIN req.vecs = DOMAIN req.place /\ req.vecs \in Seq(Cell)
    BY <1>1, CallFacts
  <1>7. req.vecs = v
    <2>1. \A k \in DOMAIN req.place : req.vecs[k] = v[k]
      BY <1>1, <1>2, <1>6 DEF Placed
    <2>2. req.vecs = [i \in DOMAIN req.vecs |-> req.vecs[i]]
      BY <1>6
    <2> QED BY <1>6, <2>1, <2>2
  <1>10. /\ req.place \in Contract!InOrder(Caller.texts)
         /\ \A i \in DOMAIN Caller.texts \ req.gaps :
              \E k \in DOMAIN req.place : req.place[k] = i
    BY <1>1, <1>4 DEF Placed
  <1>8. Contract!Answer(P, req.gaps, req.place)
    BY <1>4, <1>5, <1>7, <1>10
       DEF Contract!Answer, Contract!Request, Contract!Vector, Contract!NoVector,
           Vector, NoVector
  <1>9. req.gaps \in SUBSET DOMAIN Caller.texts
    BY <1>1, <1>4 DEF TypeOK
  <1> QED BY <1>2, <1>8, <1>9, <1>10

LEMMA StepImplements ==
  ASSUME IInv, [Next]_vars
  PROVE  [Contract!Next]_Caller
  <1>0. TypeOK /\ req \in RequestType
    BY DEF IInv, TypeOK
  <1>1. CASE \E t \in Tenants, x \in TextLists : Embed(t, x)
    BY <1>1, EmbedAsks DEF Contract!Next
  <1>2. CASE HttpRequest
    <2>1. req'.pc = req.pc /\ req.pc = "embed" /\ req'.texts = req.texts
      BY <1>0, <1>2 DEF HttpRequest, RequestType
    <2> QED BY <2>1, WorkIsUnseen
  <1>3. CASE ProviderAnswers
    BY <1>3, AnswerIsPromised DEF Contract!Next
  <1>4. CASE ProviderFails
    <2>1. CASE req'.pc = "failed" /\ req' = [req EXCEPT !.pc = "failed"]
      <3>1. Caller.state = "waiting" /\ Caller.texts = req.texts
        BY <1>4 DEF ProviderFails, Caller
      <3>2. Caller' = [state |-> "failed", texts |-> req.texts, out |-> <<>>,
                     gaps |-> {}]
        BY <1>0, <2>1 DEF Caller, RequestType
      <3> QED BY <3>1, <3>2 DEF Contract!Next, Contract!Fail, Contract!Request
    <2>2. CASE req'.pc = "embed" /\ req'.texts = req.texts
      BY <1>4, <2>2, WorkIsUnseen DEF ProviderFails
    <2> QED BY <1>0, <1>4, <2>1, <2>2 DEF ProviderFails, Call, RequestType
  <1>5. CASE Cancel
    <2>1. req'.pc = req.pc /\ req.pc = "embed" /\ req'.texts = req.texts
      BY <1>0, <1>5 DEF Cancel, RequestType
    <2> QED BY <2>1, WorkIsUnseen
  <1>6. CASE SetBillingHook \/ (\E p \in All : Flip(p)) \/ UNCHANGED vars
    <2>1. req' = req
      BY <1>6 DEF SetBillingHook, Flip, vars
    <2> QED BY <2>1 DEF Caller
  <1>7. CASE Redeploy
    <2>1. Caller' = [state |-> "none", texts |-> <<>>, out |-> <<>>,
                   gaps |-> {}]
      BY <1>7 DEF Redeploy, Idle, Caller
    <2> QED BY <2>1 DEF Contract!Next, Contract!Restart, Contract!NoRequest,
                        Contract!Request
  <1> QED BY <1>1, <1>2, <1>3, <1>4, <1>5, <1>6, <1>7 DEF Next, Step

(* Whatever the tenants, providers and texts, every behaviour of the       *)
(* embedder is one that EmbedderContract allows.                           *)
THEOREM Implements == Spec => ImplementsContract
  <1>1. Init => Contract!Init
    BY InitImplements
  <1>2. IInv /\ [Next]_vars => [Contract!Next]_Caller
    BY StepImplements
  <1> QED BY <1>1, <1>2, Invariance, PTL DEF Spec, ImplementsContract, Contract!Spec
=============================================================================
