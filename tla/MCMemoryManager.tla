--------------------------- MODULE MCMemoryManager ---------------------------
(* Values of MemoryManager's constants for TLC.  Characters other than the *)
(* separator are model values.                                             *)
EXTENDS MemoryManager, TLC

CONSTANTS w1, w2, acme, k, l, s, u, v

Chars == {":", k, l, s, u, v}
NoUser == {<<>>}
OneUser == {<<u>>}
NoUserOrOne == {<<>>, <<u>>}
TwoUsers == {<<u>>, <<v>>}
NoSession == {<<>>}
OneSession == {<<s>>}
NoSessionOrOne == {<<>>, <<s>>}
OneKey == {<<k>>}
TwoKeys == {<<k>>, <<l>>}
(* a concept may hold the separator of the cache key *)
KeysWithColon == {<<k>>, <<s, ":", k>>}
NoKeys == {}
(* what NewManager finds in a MuninnStore, and in a store like NoopStore *)
Muninn == {{"cognitive", "batch", "profile"}}
PlainOrMuninn == {{}} \cup Muninn
OneLimit == {1}

Goroutines == Permutations({w1, w2})
GoroutinesAndTenants == Goroutines \cup Permutations(Tenants)
GoroutinesAndKeys == Goroutines \cup Permutations({k, l})
TheUsers == Permutations({u, v})
=============================================================================
