-------------------------------- MODULE Djb2 --------------------------------
(***************************************************************************)
(* The hash of embedding/djb2.go: h = 5381, then h * 33 + byte for every   *)
(* byte, wrapping in 32 bits.  A hash is two halves of 16 bits.            *)
(***************************************************************************)
EXTENDS Naturals, Sequences

djb2(s) ==
  LET h[i \in 0..Len(s)] ==
        IF i = 0 THEN [hi |-> 0, lo |-> 5381]
        ELSE LET g == h[i-1]
                 lo == g.lo * 33 + s[i]
             IN  [hi |-> (g.hi * 33 + lo \div 65536) % 65536, lo |-> lo % 65536]
  IN  h[Len(s)]
=============================================================================
