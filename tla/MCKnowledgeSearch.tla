-------------------------- MODULE MCKnowledgeSearch --------------------------
(* Values of KnowledgeSearch's constants for TLC: three chunks of one file, *)
(* of which the middle one reads like both its neighbours, and one chunk of *)
(* another file with the same text.                                         *)
EXTENDS KnowledgeSearch, TLC

CONSTANTS ann, bob, acme, globex

Four == {"a", "b", "c", "d"}
FileOfChunk == [c \in Four |-> IF c = "d" THEN "g" ELSE "f"]
Words == [c \in Four |-> CASE c = "a" -> 1..5 [] c = "b" -> 1..6
                           [] c = "c" -> 2..6 [] c = "d" -> 1..6]
Section == [c \in Four |-> IF c = "d" THEN {} ELSE 7..12]
TwoUsers == {Missing, ann, bob}
TwoTenants == {Missing, acme, globex}
Symmetry == Permutations({ann, bob}) \cup Permutations({acme, globex})
OneProject == {Missing, "plan"}

Tool(service, rewriter, rerankModel, serviceRerankModel) ==
  [service |-> service, rewriter |-> rewriter, rerankModel |-> rerankModel,
   serviceRerankModel |-> serviceRerankModel]
(* Everything configured, nothing, and one half of the rerank wiring. *)
SomeTools == {Tool(TRUE, TRUE, TRUE, TRUE), Tool(FALSE, FALSE, FALSE, FALSE),
              Tool(TRUE, FALSE, TRUE, FALSE)}
=============================================================================
