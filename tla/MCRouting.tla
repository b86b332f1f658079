----------------------------- MODULE MCRouting -----------------------------
(* Routing over the alphabet {*, ., a, b}: an exact route, two wildcards   *)
(* with nested suffixes, and hosts on both sides of every dot boundary.    *)
EXTENDS Routing

MCAlphabet == <<"*", ".", "a", "b">>

MCPatterns ==
  { <<"b", ".", "a">>,              \* b.a
    <<"*", ".", "a">>,              \* *.a
    <<"*", ".", "b", ".", "a">> }   \* *.b.a

MCHosts ==
  { <<"a">>,                        \* a
    <<"b", "a">>,                   \* ba
    <<"b", ".", "a">>,              \* b.a
    <<"a", ".", "a">>,              \* a.a
    <<"a", ".", "b", ".", "a">> }   \* a.b.a

MCTargets == {"m1", "m2"}

=============================================================================
