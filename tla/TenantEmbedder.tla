---------------------------- MODULE TenantEmbedder ----------------------------
(***************************************************************************)
(* Embedding for a tenant: embedding/tenant_aware.go over the providers    *)
(* that embedding/registry.go builds, each wrapped by embedding/billing.go.*)
(* A tenant is hashed to one provider; the others are its fallbacks.       *)
(*                                                                         *)
(* One step is one HTTP request to a provider, or the end of a provider's  *)
(* call.  A Gemini provider sends one request per text, each from its own  *)
(* goroutine; NVIDIA one per text in turn; OpenAI one for all texts.       *)
(* Calls share nothing that a call writes, so one call at a time is enough.*)
(*                                                                         *)
(* Left out: API keys, URLs, dimensions and the numbers of a vector.  The  *)
(* HTTP services are external: a request is answered while its service is  *)
(* up and the caller's context has not ended.  Its answer may have status  *)
(* 200 and still lack the vector of a text: an element has no numbers, or  *)
(* OpenAI's list has fewer elements than texts, and the later ones move    *)
(* up.  Its service is taken to keep the order of the texts, since the     *)
(* code reads no index, and to add no element.                             *)
(***************************************************************************)
EXTENDS Naturals, Sequences

CONSTANTS
  Tenants,     \* tenant ids, NoTenant among them for a context without one
  NoTenant,
  Hash,        \* tenant -> its djb2 hash in 32 bits, as two halves of 16
  TextLists,   \* lists of texts
  Registry,    \* every provider, in priority order
  Kind         \* provider -> "openai", "nvidia" or "gemini"

All == {Registry[i] : i \in DOMAIN Registry}

ASSUME RegistryAssumption ==
  /\ Registry \in Seq(All) /\ Registry # <<>>
  /\ \A i, j \in DOMAIN Registry : Registry[i] = Registry[j] => i = j
  /\ Kind \in [All -> {"openai", "nvidia", "gemini"}]

Texts == UNION {{x[i] : i \in DOMAIN x} : x \in TextLists}

ASSUME TextsAssumption == TextLists \subseteq Seq(Texts)

ASSUME HashAssumption == Hash \in [Tenants -> [hi : Nat, lo : Nat]]

NoVector == [model |-> "none", text |-> "none"]

VARIABLES
  providers,   \* the providers that have a key, in priority order
  up,          \* the providers whose service answers
  hooked,      \* whether a billing hook is set on the providers
  req          \* the last call of Embed

vars == <<providers, up, hooked, req>>

N == Len(providers)

-----------------------------------------------------------------------------
(* int(djb2(tenantID)) % n, int having 64 bits *)
Slot ==
  [n \in DOMAIN Registry |->
     [t \in Tenants |-> (Hash[t].hi * (65536 % n) + Hash[t].lo) % n]]

providerIndex(tenant) == Slot[N][tenant]

-----------------------------------------------------------------------------
(* One call.  todo, vecs and errs belong to the provider being tried;      *)
(* bills is what the hook heard; failed, the providers whose service was   *)
(* found down or gave nothing, gaps, the texts that the present provider's *)
(* service had no vector for, place, the text that each element of vecs is *)
(* for, and cancelled are there for the environment and the properties.    *)

Idle ==
  [pc |-> "none", tenant |-> NoTenant, texts |-> <<>>, attempt |-> 0,
   last |-> FALSE, todo |-> {}, place |-> <<>>, vecs |-> <<>>, errs |-> {},
   gaps |-> {}, bills |-> <<>>, failed |-> {}, cancelled |-> FALSE]

NextProviderBug(r) ==
  IF r.last THEN providers[1] ELSE providers[(r.attempt % N) + 1]

(* providers[pidx]; without a tenant, and in the end, the first one *)
NextProvider(r) ==
  IF r.last THEN providers[1]
  ELSE providers[((providerIndex(r.tenant) + r.attempt) % N) + 1]

CallBug(r) ==    \* keeps the vectors that the last provider did return
  IF r.errs = {}
  THEN [r EXCEPT !.pc = "embed", !.todo = DOMAIN r.texts,
                 !.place = [i \in DOMAIN r.texts |-> i],
                 !.vecs = [i \in DOMAIN r.texts |-> NoVector]]
  ELSE [r EXCEPT !.todo = {i \in DOMAIN r.texts : r.vecs[i] = NoVector},
                 !.errs = {}]

(* provider.Embed(ctx, texts) begins. *)
Call(r) ==
  [r EXCEPT !.pc = "embed", !.todo = DOMAIN r.texts, !.errs = {}, !.gaps = {},
            !.place = [i \in DOMAIN r.texts |-> i],
            !.vecs = [i \in DOMAIN r.texts |-> NoVector]]

Embed(tenant, texts) ==
  /\ req.pc # "embed"
  /\ req' = Call([Idle EXCEPT !.tenant = tenant, !.texts = texts,
                              !.last = (tenant = NoTenant)])
  /\ UNCHANGED <<providers, up, hooked>>

(* The texts that the provider may send in its next request. *)
Requests(r) ==
  CASE Kind[NextProvider(r)] = "openai" -> {r.todo}
    [] Kind[NextProvider(r)] = "nvidia" ->
         {{i} : i \in {j \in r.todo : \A k \in r.todo : j <= k}}
    [] Kind[NextProvider(r)] = "gemini" -> {{i} : i \in r.todo}

(* NVIDIA's answer is an error if it has no element at all. *)
EmptyResponse(p) == Kind[p] = "nvidia"

SettledBug(r) == r.todo = {} /\ r.errs = {}    \* no Done after an error

(* Gemini waits for all its goroutines; the others stop at an error. *)
Settled(r) ==
  \/ r.todo = {}
  \/ r.errs # {} /\ Kind[NextProvider(r)] # "gemini"

Vector(p, x) == [model |-> p, text |-> x]

Increasing(n, S) ==
  {f \in [1..n -> S] : \A i, j \in 1..n : i < j => f[i] < f[j]}

(* The texts that the elements of out are for once p has answered for the  *)
(* texts I.  OpenAI's out is the list that came, out[i] its i-th element;  *)
(* the others write an element at the place of its text.                   *)
Places(r, p, I) ==
  IF Kind[p] = "openai" THEN UNION {Increasing(n, I) : n \in 0..Len(r.texts)}
  ELSE {r.place}

(* out, when E are the texts of I whose elements have numbers *)
Out(r, p, I, E, f) ==
  [k \in DOMAIN f |-> IF f[k] \in E THEN Vector(p, r.texts[f[k]])
                      ELSE IF f[k] \in I THEN NoVector ELSE r.vecs[k]]

HttpRequest ==
  LET p == NextProvider(req)
  IN  /\ req.pc = "embed" /\ ~Settled(req)
      /\ \E I \in Requests(req) :
           \/ /\ p \in up /\ ~req.cancelled
              /\ \E f \in Places(req, p, I) :
                   \E E \in SUBSET {i \in I : \E k \in DOMAIN f : f[k] = i} :
                     req' = [req EXCEPT !.todo = @ \ I, !.gaps = @ \cup (I \ E),
                                        !.place = f,
                                        !.vecs = Out(req, p, I, E, f)]
           \/ /\ p \notin up \/ req.cancelled \/ EmptyResponse(p)
              /\ req' = [req EXCEPT !.todo = @ \ I, !.errs = @ \cup I,
                           !.failed = IF p \in up /\ req.cancelled THEN @
                                      ELSE @ \cup {p}]
      /\ UNCHANGED <<providers, up, hooked>>

BillBug(r) ==    \* the provider the tenant is assigned to
  IF hooked THEN <<providers[providerIndex(r.tenant) + 1]>> ELSE <<>>

(* billingEmbedder.Embed: the hook hears of the model after a success. *)
Bill(r) == IF hooked THEN Append(r.bills, NextProvider(r)) ELSE r.bills

ProviderAnswers ==
  /\ req.pc = "embed" /\ Settled(req) /\ req.errs = {}
  /\ req' = [req EXCEPT !.pc = "ok", !.bills = Bill(req)]
  /\ UNCHANGED <<providers, up, hooked>>

LastAttemptBug(r) == r.attempt + 2 >= N
LastAttemptLateBug(r) == r.attempt >= N
LastAttempt(r) == r.attempt + 1 >= N

(* On to the next provider; after all of them the first once more, and its *)
(* error is the caller's.                                                  *)
ProviderFails ==
  /\ req.pc = "embed" /\ Settled(req) /\ req.errs # {}
  /\ \/ /\ req.last
        /\ req' = [req EXCEPT !.pc = "failed"]
     \/ /\ ~req.last /\ LastAttempt(req)
        /\ req' = Call([req EXCEPT !.last = TRUE])
     \/ /\ ~req.last /\ ~LastAttempt(req)
        /\ req' = Call([req EXCEPT !.attempt = @ + 1])
  /\ UNCHANGED <<providers, up, hooked>>

(* The end of the caller's context ends every request made under it. *)
Cancel ==
  /\ req.pc = "embed" /\ ~req.cancelled
  /\ req' = [req EXCEPT !.cancelled = TRUE]
  /\ UNCHANGED <<providers, up, hooked>>

(* TenantAwareEmbedder.SetBillingHook; it races with a call, so it is only *)
(* made when there is none.                                                *)
SetBillingHook ==
  /\ req.pc = "none"
  /\ hooked' = TRUE
  /\ UNCHANGED <<providers, up, req>>

(* A service goes down or comes back. *)
Flip(p) ==
  /\ up' = IF p \in up THEN up \ {p} ELSE up \cup {p}
  /\ UNCHANGED <<providers, hooked, req>>

(* BuildProvidersFromEnvWithKeys: the keys in the environment decide which *)
(* providers there are, never in which order.                              *)
Deployments ==
  UNION {{[i \in 1..n |-> Registry[f[i]]] :
            f \in Increasing(n, DOMAIN Registry)} : n \in DOMAIN Registry}

(* The process starts again, perhaps with keys for other providers. *)
Redeploy ==
  /\ providers' \in Deployments
  /\ hooked' = FALSE
  /\ req' = Idle
  /\ UNCHANGED up

-----------------------------------------------------------------------------

Init ==
  /\ providers \in Deployments
  /\ up \in SUBSET All
  /\ hooked = FALSE
  /\ req = Idle

Step == HttpRequest \/ ProviderAnswers \/ ProviderFails

Next ==
  \/ \E t \in Tenants, x \in TextLists : Embed(t, x)
  \/ Step
  \/ Cancel
  \/ SetBillingHook
  \/ \E p \in All : Flip(p)
  \/ Redeploy

(* Every request ends: the HTTP clients give up after 30 seconds.  Nothing *)
(* is assumed of the services, of the callers or of deployments.           *)
Spec == Init /\ [][Next]_vars /\ WF_vars(Step)

-----------------------------------------------------------------------------

RequestType ==
  [pc : {"none", "embed", "ok", "failed"}, tenant : Tenants \cup {NoTenant},
   texts : TextLists \cup {<<>>}, attempt : Nat, last : BOOLEAN,
   todo : SUBSET Nat, place : Seq(Nat),
   vecs : Seq([model : All \cup {"none"}, text : Texts \cup {"none"}]),
   errs : SUBSET Nat, gaps : SUBSET Nat, bills : Seq(All),
   failed : SUBSET All, cancelled : BOOLEAN]

(* Every variable has its type; a call never tries more providers than     *)
(* there are, and never holds more vectors than texts.                     *)
TypeOK ==
  /\ providers \in Deployments
  /\ up \subseteq All
  /\ hooked \in BOOLEAN
  /\ req \in RequestType
  /\ req.attempt < N
  /\ req.todo \cup req.errs \cup req.gaps \subseteq DOMAIN req.texts
  /\ Len(req.vecs) = Len(req.place) /\ Len(req.vecs) <= Len(req.texts)

(* The caller sees only whether the call is over and its result. *)
Caller ==
  [state |-> CASE req.pc = "none" -> "none" [] req.pc = "embed" -> "waiting"
               [] req.pc = "ok" -> "ok" [] req.pc = "failed" -> "failed",
   texts |-> req.texts,
   out |-> IF req.pc = "ok" THEN req.vecs ELSE <<>>,
   gaps |-> IF req.pc = "ok" THEN req.gaps ELSE {}]

Contract ==
  INSTANCE EmbedderContract WITH
    Models <- All, ask <- Caller

(* Over Gemini's goroutines, a provider that stops in the middle of its    *)
(* texts and any chain of fallbacks, a caller gets an error or vectors of  *)
(* one model in the order of the texts.  Only what the service of that     *)
(* very model had no vector for is empty or left out, so that an answer of *)
(* full length has each vector at the place of its own text, and a shorter *)
(* one is short by texts that OpenAI's service passed over.                *)
ImplementsContract == Contract!Spec

(* A tenant's call fails only if its context ended or every provider's     *)
(* service was found down, or gave nothing, in the course of it: no        *)
(* provider is left untried.                                               *)
FailsOnlyWithoutProvider ==
  (req.pc = "failed" /\ ~req.cancelled) =>
    IF req.tenant = NoTenant THEN providers[1] \in req.failed
    ELSE {providers[i] : i \in 1..N} \subseteq req.failed

(* The models of an answer. *)
Answered == {req.vecs[i].model : i \in DOMAIN req.vecs} \ {NoVector.model}

(* A tenant's texts are embedded by the provider its hash names, or, when  *)
(* that one's service was found down, by the first after it whose service  *)
(* was not; a call without a tenant is the first provider's.               *)
FallbackOnlyPastFailed ==
  req.pc = "ok" =>
    \A k \in 1..N : providers[k] \in Answered =>
      LET before(i) == IF req.tenant = NoTenant THEN i < k
                       ELSE (i - 1 + N - providerIndex(req.tenant)) % N
                            < (k - 1 + N - providerIndex(req.tenant)) % N
      IN  \/ req.last /\ req.tenant # NoTenant /\ k = 1
          \/ \A i \in 1..N : before(i) => providers[i] \in req.failed

(* An answered call is billed once, to the model whose vectors the caller  *)
(* gets, whichever provider that was; a failed one is not billed.          *)
BilledAsAnswered ==
  /\ req.pc = "ok" /\ hooked /\ req.texts # <<>> =>
       Len(req.bills) = 1 /\ Answered \subseteq {req.bills[1]}
  /\ req.pc = "failed" => req.bills = <<>>

(* Every call ends, however the services come and go. *)
EmbedReturns == req.pc = "embed" ~> req.pc # "embed"
=============================================================================
