--------------------------- MODULE EmbedderContract ---------------------------
(***************************************************************************)
(* What the callers of an fp.Embedder can rely on: a call is answered with *)
(* vectors of one model in the order of the texts, or it fails.  Vectors   *)
(* of two models in one answer would not be comparable.  A vector is empty *)
(* or left out only where that model's service had none; an answer as long *)
(* as the texts has each vector at the place of its own text, and in a     *)
(* shorter one they have moved up.                                         *)
(***************************************************************************)
EXTENDS Naturals, Sequences

CONSTANTS
  Models,     \* embedding models
  TextLists   \* lists of texts that callers ask to embed

VARIABLE ask  \* the caller's last request and what came of it

Vector(m, x) == [model |-> m, text |-> x]
NoVector == [model |-> "none", text |-> "none"]

Request(state, texts, out, gaps) ==
  [state |-> state, texts |-> texts, out |-> out, gaps |-> gaps]

NoRequest == Request("none", <<>>, <<>>, {})

Ask(texts) ==
  /\ ask.state # "waiting"
  /\ ask' = Request("waiting", texts, <<>>, {})

(* Lists of texts, by their places, in the order of the texts. *)
InOrder(texts) ==
  UNION {{f \in [1..n -> DOMAIN texts] : \A i, j \in 1..n : i < j => f[i] < f[j]} :
           n \in 0..Len(texts)}

(* f are the texts that the answer has an element for, and gaps those that *)
(* the service had no vector for.                                          *)
Answer(m, gaps, f) ==
  /\ ask.state = "waiting"
  /\ \A i \in DOMAIN ask.texts \ gaps : \E k \in DOMAIN f : f[k] = i
  /\ ask' = Request("ok", ask.texts,
                    [k \in DOMAIN f |->
                       IF f[k] \in gaps THEN NoVector
                       ELSE Vector(m, ask.texts[f[k]])],
                    gaps)

Fail ==
  /\ ask.state = "waiting"
  /\ ask' = Request("failed", ask.texts, <<>>, {})

(* The process restarts; nobody waits for the old answer. *)
Restart == ask' = NoRequest

Init == ask = NoRequest

Next ==
  \/ \E x \in TextLists : Ask(x)
  \/ \E m \in Models, G \in SUBSET DOMAIN ask.texts, f \in InOrder(ask.texts) :
       Answer(m, G, f)
  \/ Fail
  \/ Restart

Spec == Init /\ [][Next]_ask
=============================================================================
