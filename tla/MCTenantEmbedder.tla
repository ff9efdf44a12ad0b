--------------------------- MODULE MCTenantEmbedder ---------------------------
(* Values of TenantEmbedder's constants for TLC. *)
EXTENDS TenantEmbedder, Djb2

(* "", "ws-3" and "ws-0002", whose hashes wrap: *)
(* 2 and 1 modulo 3; without the wrap it were 0 and 2.   *)
Nobody == <<>>
TenantIds ==
  {Nobody, <<119, 115, 45, 51>>, <<119, 115, 45, 48, 48, 48, 50>>}
Hashes == [t \in TenantIds |-> djb2(t)]
NoneOrTwo == {<<>>, <<"x", "y">>}
Three == <<"text-embedding-3-small", "nv-embed-v1", "gemini-embedding-001">>
KindOf == [p \in All |-> CASE p = Three[1] -> "openai" [] p = Three[2] -> "nvidia"
                           [] p = Three[3] -> "gemini"]
=============================================================================
