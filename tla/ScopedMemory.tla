----------------------------- MODULE ScopedMemory -----------------------------
(***************************************************************************)
(* What the callers of memory.Store (memory/store.go) can rely on: a set   *)
(* of entries, each with a tenant, a user, a session and a key.  A write   *)
(* adds entries in the very scope of its caller and each of its keys at    *)
(* most once; a delete takes away at most one entry, of its scope and key; *)
(* a read answers entries of its scope that were kept at some moment       *)
(* between its call and its return.  What was deleted does not come back,  *)
(* and a process that dies leaves the entries as they are.                 *)
(*                                                                         *)
(* Nothing is promised about when a request ends, or that it succeeds.     *)
(***************************************************************************)
CONSTANTS
  Callers,   \* goroutines
  Requests,  \* what they ask: [kind, t, u, s, tag, keys]
  EntryIds,  \* identities of entries
  Empty      \* the user or session of a request that does not name one

VARIABLES
  ever,    \* every entry that was ever stored
  kept,    \* the entries that were not deleted
  asked,   \* caller -> its last request
  open,    \* the callers that wait for an answer
  todo,    \* caller -> the keys its write or delete has still to deal with
  heard    \* caller -> the entries answered to its last request

Entry(id, r, k, tag) ==
  [id |-> id, vault |-> r.t, user |-> r.u, session |-> r.s, key |-> k,
   profile |-> tag]

(* SearchFilter: an empty user or session does not filter. *)
Matching(r) ==
  {e \in kept : /\ e.vault = r.t /\ e.key \in r.keys
                /\ r.u # Empty => e.user = r.u
                /\ r.s # Empty => e.session = r.s
                /\ r.tag => e.profile}

(* A key may carry the tag of a profile entry on its own account. *)
Store(r, k) ==
  /\ r.kind = "write"
  /\ \E id \in EntryIds \ {e.id : e \in ever}, tag \in {TRUE, r.tag} :
       /\ ever' = ever \cup {Entry(id, r, k, tag)}
       /\ kept' = kept \cup {Entry(id, r, k, tag)}

Delete(r, k) ==
  /\ r.kind = "delete"
  /\ \E e \in Matching(r) : e.key = k /\ kept' = kept \ {e}
  /\ UNCHANGED ever

OthersWait(w) ==
  \A v \in Callers \ {w} :
    /\ todo'[v] = todo[v]
    /\ heard'[v] = heard[v]
    /\ asked'[v] = asked[v]
    /\ v \in open' <=> v \in open

(* Some work on request r, of which the keys K are still to be dealt with  *)
(* and to which the entries in answers were answered.                      *)
Work(w, r, K, answers) ==
  /\ OthersWait(w)
  /\ asked'[w] = r
  /\ todo'[w] \subseteq K
  /\ \/ UNCHANGED <<ever, kept>>
     \/ \E k \in K \ todo'[w] : Store(r, k) \/ Delete(r, k)
  /\ heard'[w] \subseteq
       answers \cup IF r.kind = "read" THEN Matching(r) ELSE {}

(* The request may also be served, in part or as a whole, or be refused in *)
(* the same step.                                                          *)
Ask(w) ==
  /\ w \notin open
  /\ Work(w, asked'[w], asked'[w].keys, {})
  /\ asked'[w] \in Requests

Continue(w) == w \in open /\ Work(w, asked[w], todo[w], heard[w])

(* The process dies: all requests are lost. *)
Restart ==
  /\ open' = {}
  /\ heard' = [w \in Callers |-> {}]
  /\ UNCHANGED <<ever, kept>>

Init == ever = {} /\ kept = {} /\ open = {}

Next == (\E w \in Callers : Ask(w) \/ Continue(w)) \/ Restart

Spec == Init /\ [][Next]_<<ever, kept, asked, open, todo, heard>>
=============================================================================
