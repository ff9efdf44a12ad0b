# Verification of egent-tools

TLA+ modules, TLC runs and TLAPS proofs about the Go packages of this
repository: the tenant-scoped memory store and its manager, the embedding
providers, and the knowledge search tool. `PROJECT.json` lists the components,
the runs with their mutants, which lines each definition models, the hazards of
the code, the disagreements between code and documentation that runs show, and
the theorems.

    tlc -config MCScopes.cfg MCMuninnStore      # one run
    tlapm MuninnStoreProofs.tla                 # the proofs of a module

## The system

| component | state | operations | interacts with |
|---|---|---|---|
| `memory.MuninnStore` (`muninn_store.go`) | `idCache`, a map per tenant, under `s.mu` | Set, SaveTurn, SetBatch, SetProfile, Get, Delete, Search, Activate, List, Health | MuninnDB over HTTP; called by tools and manager from many goroutines |
| `memory.Manager` (`manager.go`, `http.go`) | none; goroutines it starts | Recall, RecallProfile, ExtractAndStore(Async), IngestProfile, PurgeOlderThan | the store, the extractor |
| memory tools (`tools.go`), identity (`http.go`) | none | set, get, search, list, delete under the ids of the request | the store |
| extractor (`extractor.go`) | none | Extract: text to facts | an LLM |
| tenant-aware embedder (`tenant_aware.go`, `djb2.go`) | the provider list, fixed at start | Embed, ModelForTenant, SetBillingHook | the providers |
| providers, billing wrapper, registry (`provider_*.go`, `billing.go`, `registry.go`) | the billing hook | Embed | three embedding services |
| knowledge search tool and service (`knowledge/tools.go`, `service.go`) | none; one pipeline per call | InvokableRun, UserFileIDs, Rerank, ExpandParent | Postgres, the retriever, rewriter and reranker |
| query rewriter, NVIDIA reranker | none | Rewrite, Rerank | an LLM, a rerank service |
| `rerank` provider detection and transport, `knowledge/eval`, `NoopStore`, `NewManagerFromEnv` | - | - | not modelled: no state, or tooling |

What is hard: goroutines share the ID cache while each request to the server is
a step of its own; answers are lost after they took effect; the server's list
moves under offset paging; a restart empties the cache; facts are stored by
goroutines nobody waits for; a purge acts on a list that is old when it acts;
a provider fails in the middle of a call; a rerank fails after it changed what
the caller falls back to.

## Modules

| module | models | composed of |
|---|---|---|
| `ScopedMemory` | what callers of `memory.Store` rely on | - |
| `MuninnStore` | the store, its cache and the server behind it | implements `ScopedMemory` |
| `MemoryManager` | the manager and the tools | extends `MuninnStore`, whose `Spec` is its abstract specification |
| `MuninnStoreProofs` | its invariant, safety, batches | extends `MuninnStore` |
| `MuninnStoreQuietProofs` | listings and the cache when the others keep quiet | extends `MuninnStoreProofs` |
| `MemoryManagerProofs` | the manager's invariant, recalls, purges | extends `MemoryManager`, `MuninnStoreProofs` |
| `MemoryFactProofs` | what becomes of facts | extends `MemoryManagerProofs` |
| `ScopedMemoryProofs` | the refinement of `ScopedMemory` | extends `MemoryManagerProofs` |
| `EmbedderContract` | what a caller of an embedder relies on | - |
| `TenantEmbedder` | tenant-aware embedder, billing, registry, the three providers | implements `EmbedderContract` |
| `Djb2` | the hash of a tenant id; only TLC's instance uses it, the embedder and its proofs take any hash | - |
| `TenantEmbedderProofs` | theorems | extends `TenantEmbedder` |
| `KnowledgeResults` | pure functions on lists of documents | - |
| `KnowledgeSearch` | the search tool, the service, rewriter, reranker | extends `KnowledgeResults` |
| `KnowledgeResultsProofs`, `KnowledgeSearchProofs` | lemmas about lists, theorems about searches | extend the two above |
| `MC...` | values of the constants for TLC | one per modelled system; the passing runs of the store go through the manager and its tools (`MCMemoryManager`) |

Definitions keep the names of the source where they can. Those whose name ends
in `Bug` are faults that the properties are tested against: each stands next to
the definition it would replace and nothing else uses it.

### MuninnStore

`engrams` and `live` are the server: every engram it ever created, and the ids
it has not forgotten; `now` is the client's clock. `idCache` is `s.idCache`; user, session
and concept are sequences of characters, because `cacheKey` joins them with
`:` and does not escape it, and a concept may hold a `:`. `call[w]` is the
local state of goroutine `w`. One step is one section under `s.mu` or one
request to the server; a call is local in between. So `Get` is a cache lookup,
then `Read`, or `ActivateKey` and `CacheOwn`; `Delete` ends with `Forget` and
`DropCache`, two steps between which others run; `List` is `ListPage` and one
`CacheItem` per engram; a batch is `SendChunk`, `ServeItem` per request in the
chunk, `ReceiveResults`, `CacheResult` per answer and `NextChunk`.

The server is external and modelled from its use: a write answers with a new
engram, or with an old one of the same concept and tags; an activation may leave
matching engrams out (it is ranked and cut); a forgotten engram cannot be read.
It may refuse any write or activation; an error in a batch item is an answer of
its own (`Answer`). It stamps an engram by its own clock in whole seconds
(`Stamps`): any time up to `Ahead` ticks past ours, or none (`NoStamp`), which
`unixToTime` reads as the zero time. A server's clock ahead of ours makes entries look
fresher, which no passing run needs; `purge_fresh` has it, and the theorems hold
for any `Ahead`. What else may go wrong is in `Faults`, so
that a property can name what it rests on:

| fault | what may happen | why it is a choice |
|---|---|---|
| `"transport"` | a request fails, or takes effect and its answer is lost (`RequestFails`, and inside the actions) | |
| `"restart"` | the process restarts and the cache is empty (`Restart`) | |
| `"silent"` | a batch item is not stored, and its answer is missing or has neither id nor error | `writeBatchTags` looks only at the answers it gets and does not count them (`muninn_store.go:197-206`): what it promises of a batch rests on the server |
| `"twice"` | to forget a forgotten engram succeeds | the client does not say; the test server answers 204 for any id (`muninn_store_test.go:112-114`) |

Assumed: user and session ids hold no `:` (they are UUIDs set by the edge; see
`http.go`). Without it `CacheKeyInjective` is false. `InScope` stands for the
filter that the server applies by tags and for the check the client makes on the
tags of an answer; other tags than user, session and profile are left out, as no
property tells them apart.

### ScopedMemory

A set of entries (`kept`, of all those that were `ever` stored) and, per caller,
the request it waits for: its scope and keys (`asked`, `open`), the keys of a
write or delete still to be dealt with (`todo`) and what was answered so far
(`heard`). There is no cache, no page, no chunk and no server. A write stores
each of its keys at most once and in its own scope; a delete takes one matching
entry at most; an answer is an entry in scope that was kept at some moment of
the call; what was deleted does not come back; a request may end at any moment.
`MuninnStore!Memory` maps the store to it: an engram is an entry, and an entry
counts as answered from the moment the server answered it, which is why a `Get`
or `List` may hand out what has been forgotten since. It promises neither
success nor completeness, which `ListIsComplete`, `BatchOkMeansAllStored` and
the liveness properties are about.

### MemoryManager

`task[w]` is the manager operation of goroutine `w`; its store call is
`call[w]`. `optional` is what `NewManager` found by its type assertions: a store
may lack Activate (`"cognitive"`), SetBatch (`"batch"`) or SetProfile
(`"profile"`), and then `Recall` searches at once and facts are stored one by
one (`StoreFacts`, `NextFact`), with the two ways the code counts them
(`Counted`). `Older` compares the server's stamp with our clock, as the purge
does. `Recall` on a cognitive store is an activation and, when that fails
or finds nothing, a search; `PurgeOlderThan` lists, takes the time, and deletes
entry by entry; extraction is a call of the LLM followed by `StoreFacts`.
`profileFacts`, and `forgot` and `reported` in a task, are history for the
properties. A tool is one store call (`ToolCall`).

### TenantEmbedder

`req` is one call of `Embed`: the provider being tried is a function of tenant,
`attempt` and `last`; `todo`, `vecs` and `errs` are the slices inside that
provider's call. `HttpRequest` is one request: for all texts (OpenAI), for the
next text (NVIDIA), or for any text (Gemini's goroutines). A service may answer
with status 200 and leave texts without a vector (`gaps`), which the code takes
for success. With OpenAI `out[i]` is the i-th element of the list that came
(`provider_openai.go:93-101`): when an element is left out, those after it move
up, to places of other texts, and `place` says which text each element of
`vecs` is for. Assumed of the service: it keeps the order of the texts, since the
code reads no index, and adds no element. A response without data is an error of
NVIDIA's provider alone (`EmptyResponse`). `Slot` reduces a hash of 32 bits, kept as two halves of 16
since TLC's integers are 32 bits themselves; `Djb2` computes that hash for the
instance. `Redeploy` restarts the process with keys for any non-empty choice of
providers; `Flip` takes a service down or up at any moment; `Cancel` ends the
caller's context. Two calls share nothing that a call writes, so one at a time
is enough. `EmbedderContract` promises vectors of one model in the order of the
texts, empty or left out only where that model's service had none. An answer as
long as the texts has each vector in its own place; in a shorter one the vectors
after a gap stand at places of earlier texts, and a caller has to look at the
length.

### KnowledgeSearch

The variables are one run of the tool, step by step as `InvokableRun` calls
out: list the files, rewrite, retrieve per query, fuse, rerank, finish. `tool`
is how the host configured it: with or without a service and a rewriter, and
with a rerank model told to the tool, to the service, to both or to neither.
`LimitOf` and `MinScoreOf` are the defaults and the cut of the two numeric
arguments. The database is not state: other programs write it, so a query finds
any rows, and `Selects` is the WHERE clauses over them. A document is a chunk, a
score level and a set of words. `Rounds` is the double loop of
`deduplicateByFile` row by row: the positions still kept once a chunk has met
every later one of its file (`Meets`). `NvidiaReranker.Rerank` copies a document
but not its `MetaData` map, which holds the score; `RerankFails` therefore
leaves the scores that were written before an invalid index (constant
`InvalidIndex`). `gathered` (what the queries found) and `retrieved` (the fused
list, while no ranking has replaced it) are history for the properties. Left out:
a rerank answer that names a document twice, which `Rerank` does not check and
would return twice; error returns of the score transformer, which has none for
scored documents; what the rewriter does to the text of a line (its outcomes are
a number of queries).

## Runs

Passing runs:

| run | shows | bounds |
|---|---|---|
| `scopes` | cache, calls in flight, answers and forgets stay inside tenant, user and session | 2 goroutines, 2 tenants, callers with and without a session, the tools set/get/delete, failing requests, repeated forgets, 2 engrams |
| `sequential` | a cached id is sound, and live between calls; a batch that answers nil stored everything; OnExtract never hears of a fact that was not stored, when a batch fails half way or some writes of the loop are refused; all operations are those of a scoped memory | 1 goroutine, all operations as tools and extraction above them, over a store with and without batches; two facts in one request; 2 users, a concept that holds `:`, restarts, 2 engrams |
| `recall_and_profile` | recalls stay in scope on both paths, only ingested facts are profile, paging misses nothing while others only write | 2 goroutines, user or none, pages and chunks of 1, refused calls |
| `purge` | a purge counts what it forgot, stays with the entry, spares fresh concepts | 2 goroutines purging, 2 concepts, with and without a session, any stamp up to the present or none, 2 ticks |
| `operations_end` | every manager operation and store call ends; the manager implements the store's specification | 2 goroutines; ingest, profile recall and purge; a store with all optional interfaces or with none; pages of 1; refused writes, a silent server, a second forget |
| `embedding` | one model per answer, order of texts, no provider left untried, fallback only past failed ones, billing, termination | 3 providers, one of each kind, every subset deployed; 2 wrapping hashes and no tenant; 0 or 2 texts; answers with gaps and shortened lists |
| `knowledge` | answers are readable files; dedupe keeps the best of each file, nothing twice, and drops nothing else; what any query found is answered, below the threshold, or gone for a twin, also when another query or the rerank fails | 3 chunks of one file in a chain of likenesses and one of another; 2 users and tenants, a project; 1 rewrite; 3 score levels; the default limit of 1 and one above the maximum of 2; three configurations of the tool |

Runs that find a violation, each a finding in `PROJECT.json`:

| run | property | in short |
|---|---|---|
| `get_missing` | `GetMissingIsNil` | Get fails for ever on an id another key's Delete forgot; documented as (nil, nil) |
| `list_during_delete` | `ListIsComplete` | a delete between two pages hides an engram from List |
| `purge_fresh` | `PurgeSparesFresh` | the purge deletes by concept and takes a fresh engram for the old one |
| `profile_keys` | `ProfileRecallOnlyIngested` | a concept named `profile.x` is recalled as profile though nobody ingested it |
| `rerank` | `RerankFailureKeepsRetrieval` | a failed rerank leaves its scores on the results it should not have touched |

Why these bounds: the faults that matter need two goroutines (one between the
steps of the other), two engrams (the one meant and the one hit), two tenants
or sessions (the caller's and another's), two pages or chunks (a first and a
next) and two ticks (the first time is the one read as none; then old and fresh). The similarity threshold needs six words:
five of six are more than four of five. The purge has no users, which `Delete` treats as it treats sessions; a session
and none are what `PurgeStaysWithEntry` needs. `MaxEngrams` and `MaxTime` are the only
caps; reaching one disables a write or a tick. `MaxLimit` and `MaxRewrites` are
the code's own limits (tools.go and the rewriter's configuration).
`ListIsComplete` passes where nothing is forgotten during the listing and fails
in `list_during_delete` where something is; `ProfileRecallOnlyIngested` passes
without concepts whose prefix is `profile` and fails with one.

Symmetry is over goroutines, and over tenants or users where the properties do
not name them; no run with a liveness property uses it.

Fairness: `ManagerLiveSpec` and `LiveSpec` assume that a goroutine inside an
operation keeps running and each request is answered or fails; nobody has to
start an operation. `TenantEmbedder!Spec` assumes the same of a call: the HTTP
clients give up after 30 s. Nothing is assumed of services, callers or
deployments.

## Proofs

For every value of the constants, under the assumptions named in the modules:

* `Invariance`: `IInv` is an inductive invariant of `MuninnStore`. It is
  exactly `TypeOK`, `CacheSound` and `InFlightSound` (`IInvMeaning`).
  `CacheSound` is not inductive alone: an id reaches the cache some steps after
  the server gave it, so the calls in flight must carry the same fact
  (`InFlightSound`), and both need the types. The argument: the server only
  appends engrams and never changes one, so what fits a scope keeps fitting;
  ids come from the server with the caller's scope or with the engram's own
  tags; and `CacheKeyInjective` says that writing one key changes no other.
* `CacheKeyInjective`: `u:s:k` determines `u`, `s` and `k` when `u` and `s`
  hold no colon, whatever `k` holds.
* `TypeCorrect`, `CacheIsSound`, `AnswersAreInScope`, `OnlyRequestedForgotten`
  follow from `IInv`.
* `BatchStoresAll`: its invariant `BatchesSound` says that whatever a batch has
  sent and the server has already served is stored or is in an answer with an
  error that was not looked at yet. An answer without an error may be dropped,
  so the statement cannot be about answers alone; the last chunk ends with
  nothing waiting and no answers left, hence everything stored. It assumes that
  the server is not silent: the code does not see an answer that is missing.
* `ListsAreComplete` (the "quiet" proofs): `ListsSound` says of a listing that
  each matching engram that was there at its start is in the answer, among the
  items of the page in hand, or ranks behind the offset. Ranks are counted in
  the vault of the moment (`Rank`), so the step from page to page needs that a
  write does not lower a rank and that a short page ends the vault. With the
  newest first a write moves everything back by one, which repeats an engram and
  skips none. The hypothesis `[][ListedStays]_vars` says that nothing is
  forgotten in a vault while it is listed; the code does nothing to ensure it,
  and `list_during_delete` shows one delete breaking the listing. It is
  discharged in `ListsWithoutDeletes` (`"delete" \notin Calls`, as in the run
  `recall_and_profile`) and `LoneListsAreComplete` (one goroutine).
* `CacheStaysLive`: with one goroutine, no lost answers, and a user and a session
  in every call (`Sequential`, the setting of the run `sequential`), cached ids
  name live engrams between calls. `CurrentInv` says where the one call in
  flight may break that: from `Forget` to `DropCache`, under the very key it is
  about to drop. A call without a session breaks it (`get_missing`), and so do a
  second goroutine between those two steps and a `Forget` whose answer is lost.
* `StoreImplementsMemory`: every step of the store is a step of `ScopedMemory`
  or leaves its variables alone. The cases are those of `Step` and `Begin`; they
  rest on `IInv` (the id a `Read` or `Forget` holds fits its request), on
  `BatchesSound` (a chunk was taken from the keys not yet sent, so no key is
  stored twice) and on `AllWellAsked` (only batches send chunks, and no delete
  filters by the profile tag).
  `ManagerUsesAMemory` follows by `ManagerIsACaller`.
* `ManagerIsACaller`: `ManagerSpec` implements the store's `Spec`. Hence
  `CacheIsSoundUnderManager` without a second proof.
* `ManagerInvariance`: `MInv` adds to `IInv` what each operation remembers
  (`GoodTasks`): its ids exist, and the result it waits for is in its scope.
  `ManagerTypeCorrect` and `RecallStaysInScope` follow.
* `PurgeStays`, `PurgeCounts`: `PurgesSound` ties a purge to its store call.
  While the call runs it carries the scope and concept of the entry at the head
  of the list, so `InFlightSound` says what it may forget: an engram of the
  entry's user and session. An entry that has no user or session is deleted
  without one, and then the engram may be anybody's. What was forgotten is what
  was counted, plus one between the server's answer and the return of the call
  (`Uncounted`). `PurgeCounts` assumes that no answer is lost, since a Forget
  whose answer is lost is not counted, and that the server refuses to forget an
  engram twice, since two purges of the same entry would both count it.
* `PurgeSparesFreshEntries`: `AimsSound` says that the entries a purge goes
  through are engrams of its own tenant, and that the head of the list was stamped
  before the cutoff, or not at all, when its delete began. While no concept has two engrams, what
  fits the concept of the head is the head; `purge_fresh` shows two.
* `ReportsOnlyStored`: `WritesSound` says that what a call counts as stored is an
  engram under its own user and session, `FactsSound` that an operation's count
  is at most the number of its facts that arrived, those still to come left out
  for an ingestion, which counts up, and counted in for an extraction, which
  counts down from all of them; a batch counts all facts, but only when it
  answered nil (`BatchesSound`). Like `BatchStoresAll` it assumes that the server
  is not silent.
* `ProfileRecallExplained`, `ProfileRecallIngested`: `ProfileSound` follows the
  profile tag from `IngestProfile` through its store calls to the engrams
  (`ProfileCall`, `ProfileEngrams`) and from the engrams to the answer of a
  recall. They assume `"batch" \notin ToolCalls`, since no tool of `tools.go`
  writes a batch; the second also that no concept has `profile` for its prefix,
  which the run `profile_keys` shows to be needed.
* `TenantEmbedderProofs`: `IInv` is `TypeOK` and, of a call under way, that each
  vector is of the current provider and of the text that `place` names, in
  increasing order, that what is neither to do nor in error nor a gap has its
  vector (`Placed`), that every
  provider passed over was found down or empty (`Reasons`), and that the hook
  heard of the answer once (`Billed`, `Ended`). From it `TypeCorrect`,
  `FailureHasCause`, `FallbackInOrder`, `BillingMatchesAnswer` and `Implements`,
  the refinement of `EmbedderContract`, for any number of providers, any hash
  and any texts. That providers other than the tenant's own are tried in order
  needs that `(slot + attempt) % n` visits each once.
* `KnowledgeResultsProofs`: of lists of any length, what `filterByMinScore`
  keeps, what `Place` permutes, and what the rounds of `deduplicateByFile`
  establish (`SettledUpTo`: of the chunks that have met all later ones, no two
  kept ones are alike, a dropped one has a like of no lower score, and every
  file keeps its best). Induction runs over the set of round numbers for which
  the statement holds: a smallest counterexample exists by well-foundedness
  (`SmallestMember`, `UpTo`), which avoids the theorems with an operator
  parameter.
* `KnowledgeSearchProofs`: `SearchInv` bounds the counters, keeps the files
  searched within those readable when they were listed, keeps every document in
  hand within the files searched and listed once, and says that the answer is
  computed from `matched`. `TypeCorrect`, `OnlyReadableAnswered`, `NothingTwice`,
  `DroppedForTwin` and `BestSurvives` follow, for any database, chunks, words,
  limits and rewrites. `GatheredInv` follows a chunk from the query that
  found it through fusion to the answer: while queries run it is among those
  `found`, from fusion to ranking it is in the list, and a failed rerank leaves
  that list as it is. `NothingFoundIsLost` follows, for any number of queries of
  which any fail. It assumes `~InvalidIndex`; the run `rerank` shows that it
  needs to.

Only model-checked: liveness (`CallReturns`, `OperationEnds`, `EmbedReturns`),
since the prover has no ENABLED, and what `djb2` computes, which is recursion over
data. Every safety property of a passing run is a theorem, under the hypotheses
named above where the code needs them. TLC checks `ImplementsMemory` for one
goroutine only (`sequential`): with two, evaluating the mapping on every step of the
store takes the run past its five minutes, so the interleavings of callers rest on
the proof.

## Known differences between code and documentation without a run

* `Search` and `Activate` ask the server for three times the limit and do not
  cut the answer back (`muninn_store.go:285`).
* "Each workspace is permanently assigned to one provider ... ensuring all
  embeddings within a workspace use the same model" (`tenant_aware.go:14-17`) is
  at odds with the fallback described two lines on, and with a deployment that
  has one key more or less.
* `ModelForTenant` returns "" for every provider of the registry: the billing
  wrapper has no `Model` method (`tenant_aware.go:94`).
* "Max chunks to return" (`knowledge/tools.go:85`) holds per query, not for a
  search with rewrites.
* A purge of an entry without a session, as profile facts are, calls `Delete`
  without one, which may take any session's engram of that concept
  (`manager.go:222`, `muninn_store.go:239-258`); so for an entry without a user.
* A short list from OpenAI's service puts vectors at the places of earlier texts
  and is taken for success (`provider_openai.go:93-101`).
* Scores of the reranker are logits; the threshold is described as 0-1.
* "results are in retrieval order" (`knowledge/tools.go:262`): they are grouped
  by file by then (`tools.go:352`).
* "Billing failures are logged but never block" (`billing.go:15-16`): the hook
  is called synchronously and returns no error to log.
* A tool with a rerank model over a service without one answers unranked and
  says nothing of it, as when the service ranks nothing; `tools.go:216-218` says
  that a failure is surfaced.
* A nil `*LLMQueryRewriter` or `*Service` passed as an interface value is not
  nil to the tool's tests, and the call panics.
* `parseRewrites` takes leading and trailing digits for list numbering:
  "2024 budget" becomes "024 budget", "MP3" becomes "MP"; it does not drop a
  rewrite that equals the query, and a line longer than the scanner's buffer
  silently ends the list.
* One JSON value that is not a string makes the extractor drop all facts.

## Not modelled

* `NoopStore` and `NewManagerFromEnv`: no state; a choice made once.
* `rerank/provider.go`, `transport.go`: build one HTTP client; no order of events.
* `knowledge/eval`: a benchmark run by hand against a live database. Its copy of
  the NVIDIA embedder ignores the input type and is no part of the program.
* Text: prompts, parsing of the extractor's and rewriter's replies, formatting
  of answers, tracing. No property tells two texts apart.

## Plan

Done: the modules and theorems above. What would come next:

1. Two searches at once over a database that changes between listing and
   retrieval, once a document says what a removed member may still see.
2. A profile recall with concepts named like a profile, as a property of a run:
   `ProfileRecallExplained` states it and is so far only proved.
