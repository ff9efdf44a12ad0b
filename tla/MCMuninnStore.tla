---------------------------- MODULE MCMuninnStore ----------------------------
(* Values of MuninnStore's constants for TLC. *)
EXTENDS MuninnStore, TLC

CONSTANTS w1, w2, acme, globex

Chars == {":", "k", "l", "r", "s", "u", "v"}

OneUser == {<<"u">>}
OneSession == {<<"s">>}
(* no session: the header x-model-affinity is absent *)
MaybeSession == {<<>>, <<"s">>}
OneKey == {<<"k">>}
(* a concept may hold the separator of the cache key *)
TwoKeys == {<<"k">>, <<"s", ":", "k">>}
NoLimits == {}
NoKeys == {}
=============================================================================
