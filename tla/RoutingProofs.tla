---------------------------- MODULE RoutingProofs ----------------------------
(***************************************************************************)
(* Proofs about the routing table of interception/routing_table.rs and    *)
(* the request handling of interception/http_interceptor.rs, for every    *)
(* alphabet, set of route domains, hosts, targets and priorities.          *)
(*                                                                         *)
(* The heart is a fact about the two lookups, whatever the table: when    *)
(* RoutingTable::lookup finds nothing, neither does the spec's lookup.    *)
(* A spec match "*.S" needs ".S" to be a suffix of the host, and then "S"  *)
(* is one too, which is all the code's ends_with asks for.                 *)
(***************************************************************************)
EXTENDS Routing, SequenceTheorems, TLAPS

(* String::ends_with, element by element: s is a suffix of t when it is   *)
(* no longer and equals t's last Len(s) characters.                        *)
LEMMA SuffixAt ==
  ASSUME NEW S, NEW s \in Seq(S), NEW t \in Seq(S)
  PROVE  IsSuffix(s, t) <=>
           /\ Len(s) <= Len(t)
           /\ \A i \in 1 .. Len(s) : s[i] = t[Len(t) - Len(s) + i]
<1> DEFINE rs == Reverse(s)
           rt == Reverse(t)
<1>1. /\ rs \in Seq(S) /\ Len(rs) = Len(s)
      /\ \A j \in 1 .. Len(s) : rs[j] = s[Len(s) - j + 1]
  <2>1. \A j \in 1 .. Len(s) : s[(Len(s) - j) + 1] \in S
    OBVIOUS
  <2> QED BY <2>1, IsASeq DEF Reverse
<1>2. /\ rt \in Seq(S) /\ Len(rt) = Len(t)
      /\ \A j \in 1 .. Len(t) : rt[j] = t[Len(t) - j + 1]
  <2>1. \A j \in 1 .. Len(t) : t[(Len(t) - j) + 1] \in S
    OBVIOUS
  <2> QED BY <2>1, IsASeq DEF Reverse
<1>3. IsSuffix(s, t) <=>
        Len(s) <= Len(t) /\ SubSeq(rs, 1, Len(s)) = SubSeq(rt, 1, Len(s))
  BY <1>1, <1>2 DEF IsSuffix, IsPrefix, rs, rt
<1>4. SubSeq(rs, 1, Len(s)) = rs
  BY <1>1, SubSeqFull
<1>5. ASSUME Len(s) <= Len(t)
      PROVE  SubSeq(rs, 1, Len(s)) = SubSeq(rt, 1, Len(s)) <=>
               \A j \in 1 .. Len(s) : rs[j] = rt[j]
  <2>1. /\ SubSeq(rt, 1, Len(s)) \in Seq(S)
        /\ Len(SubSeq(rt, 1, Len(s))) = Len(s)
        /\ \A j \in 1 .. Len(s) : SubSeq(rt, 1, Len(s))[j] = rt[j]
    <3>1. \A j \in 1 .. Len(s) : rt[j] \in S
      BY <1>2, <1>5
    <3>2. Len(SubSeq(rt, 1, Len(s))) = IF 1 <= Len(s) THEN Len(s) ELSE 0
      BY <3>1, SubSeqProperties
    <3> QED BY <3>1, <3>2, SubSeqProperties
  <2> QED BY <2>1, <1>1, <1>4, SeqEqual
<1>6. ASSUME Len(s) <= Len(t)
      PROVE  (\A j \in 1 .. Len(s) : rs[j] = rt[j]) <=>
               \A i \in 1 .. Len(s) : s[i] = t[Len(t) - Len(s) + i]
  <2>1. ASSUME \A j \in 1 .. Len(s) : rs[j] = rt[j],
               NEW i \in 1 .. Len(s)
        PROVE  s[i] = t[Len(t) - Len(s) + i]
    <3> DEFINE j == Len(s) - i + 1
    <3>1. j \in 1 .. Len(s) /\ j \in 1 .. Len(t)
      BY <1>6
    <3>2. rs[j] = s[i]
      BY <3>1, <1>1
    <3>3. rt[j] = t[Len(t) - Len(s) + i]
      BY <3>1, <1>2
    <3> QED BY <3>1, <3>2, <3>3, <2>1
  <2>2. ASSUME \A i \in 1 .. Len(s) : s[i] = t[Len(t) - Len(s) + i],
               NEW j \in 1 .. Len(s)
        PROVE  rs[j] = rt[j]
    <3> DEFINE i == Len(s) - j + 1
    <3>1. i \in 1 .. Len(s) /\ j \in 1 .. Len(t)
      BY <1>6
    <3>2. rs[j] = s[i]
      BY <3>1, <1>1
    <3>3. rt[j] = t[Len(t) - Len(s) + i]
      BY <3>1, <1>2
    <3> QED BY <3>1, <3>2, <3>3, <2>2
  <2> QED BY <2>1, <2>2
<1> QED BY <1>3, <1>5, <1>6


(* Names are non-empty strings over the alphabet.                          *)
Chars == ToSet(Alphabet)

(* Dropping the "*" of a wildcard's suffix ".S" keeps a suffix: a host    *)
(* that ends in ".S" ends in "S".                                          *)
LEMMA WildcardSuffix ==
  ASSUME NEW S, NEW k \in Seq(S), NEW d \in Seq(S), Len(k) >= 2,
         IsSuffix(Tail(k), d)
  PROVE  IsSuffix(SubSeq(k, 3, Len(k)), d)
<1> DEFINE n == Len(k)
           u == SubSeq(k, 3, n)
<1>1. n \in Nat /\ n >= 2 /\ Len(d) \in Nat
  OBVIOUS
<1>2. /\ Tail(k) \in Seq(S) /\ Len(Tail(k)) = n - 1
      /\ \A i \in 1 .. n - 1 : Tail(k)[i] = k[i + 1]
  BY <1>1, HeadTailProperties
<1>3. /\ u \in Seq(S) /\ Len(u) = n - 2
      /\ \A i \in 1 .. n - 2 : u[i] = k[i + 2]
  <2>1. \A i \in 3 .. n : k[i] \in S
    BY <1>1
  <2>2. Len(u) = IF 3 <= n THEN n - 3 + 1 ELSE 0
    BY <1>1, <2>1, SubSeqProperties
  <2>3. \A i \in 1 .. n - 3 + 1 : u[i] = k[3 + i - 1]
    BY <1>1, <2>1, SubSeqProperties
  <2>4. u \in Seq(S)
    BY <1>1, <2>1, SubSeqProperties
  <2> HIDE DEF u, n
  <2>5. (IF 3 <= n THEN n - 3 + 1 ELSE 0) = n - 2
    BY <1>1
  <2> QED BY <1>1, <2>2, <2>3, <2>4, <2>5
<1> HIDE DEF u
<1>4. n - 1 <= Len(d)
      /\ \A i \in 1 .. n - 1 : Tail(k)[i] = d[Len(d) - (n - 1) + i]
  <2>1. Len(Tail(k)) <= Len(d)
        /\ \A i \in 1 .. Len(Tail(k)) :
             Tail(k)[i] = d[Len(d) - Len(Tail(k)) + i]
    BY <1>2, SuffixAt
  <2> QED BY <2>1, <1>2
<1>5. \A i \in 1 .. n - 2 : u[i] = d[Len(d) - (n - 2) + i]
  <2> SUFFICES ASSUME NEW i \in 1 .. n - 2 PROVE u[i] = d[Len(d) - (n - 2) + i]
    OBVIOUS
  <2>1. i + 1 \in 1 .. n - 1
    BY <1>1
  <2>2. u[i] = Tail(k)[i + 1]
    BY <1>2, <1>3, <2>1
  <2>3. Tail(k)[i + 1] = d[Len(d) - (n - 1) + (i + 1)]
    BY <1>4, <2>1
  <2>4. Len(d) - (n - 1) + (i + 1) = Len(d) - (n - 2) + i
    BY <1>1
  <2> QED BY <2>2, <2>3, <2>4
<1>6. IsSuffix(u, d) <=>
        /\ Len(u) <= Len(d)
        /\ \A i \in 1 .. Len(u) : u[i] = d[Len(d) - Len(u) + i]
  BY <1>3, SuffixAt
<1>7. /\ Len(u) <= Len(d)
      /\ \A i \in 1 .. Len(u) : u[i] = d[Len(d) - Len(u) + i]
  BY <1>1, <1>3, <1>4, <1>5
<1> QED BY <1>6, <1>7 DEF u

(* The table's shape: each key maps to a route for that domain.            *)
TableOK(rt) ==
  /\ DOMAIN rt \subseteq Patterns
  /\ \A k \in DOMAIN rt : rt[k] \in Routes /\ rt[k].domain = k

(* Whatever the HashMap's iteration order, when RoutingTable::lookup can   *)
(* return None for a host, the spec's lookup finds no route either: an    *)
(* exact key always wins, and every spec wildcard match is a code match.  *)
LEMMA NoRouteSound ==
  ASSUME NEW rt, TableOK(rt), NEW d \in Hosts, NoRoute \in CodeLookup(rt, d)
  PROVE  SpecLookup(rt, d) = NoRoute
<1>1. \A k \in DOMAIN rt : rt[k] # NoRoute
  BY NamesAssumption DEF TableOK, Routes, NoRoute
<1>2. d \notin DOMAIN rt
  BY <1>1 DEF CodeLookup
<1> DEFINE W == {k \in DOMAIN rt :
                   IsWildcard(k) /\ IsSuffix(SubSeq(k, 3, Len(k)), d)}
           C == {k \in DOMAIN rt : IsWildcard(k) /\ IsSuffix(Tail(k), d)}
<1>3. W = {}
  BY <1>1, <1>2 DEF CodeLookup
<1>4. C = {}
  <2> SUFFICES ASSUME NEW k \in C PROVE FALSE
    OBVIOUS
  <2>1. k \in Seq(Chars) /\ d \in Seq(Chars) /\ Len(k) >= 2
        /\ IsSuffix(Tail(k), d)
    BY NamesAssumption DEF TableOK, IsWildcard, Chars
  <2>2. IsSuffix(SubSeq(k, 3, Len(k)), d)
    BY <2>1, WildcardSuffix
  <2> QED BY <2>2, <1>3 DEF IsWildcard
<1> QED BY <1>2, <1>4 DEF SpecLookup

RInv == TypeOK /\ NoFalseNoRoute

LEMMA InitRInv == Init => RInv
<1> SUFFICES ASSUME Init PROVE RInv
  OBVIOUS
<1>1. DOMAIN routes = {}
  BY DEF Init
<1> QED BY <1>1 DEF Init, RInv, TypeOK, NoFalseNoRoute, Statuses

LEMMA NextRInv == RInv /\ [Next]_vars => RInv'
<1> SUFFICES ASSUME RInv, [Next]_vars PROVE RInv'
  OBVIOUS
<1> USE DEF RInv
<1>1. CASE \E r \in Routes : AddRoute(r)
  <2> PICK r \in Routes : AddRoute(r)
    BY <1>1
  <2>1. /\ DOMAIN routes' = {r.domain} \cup DOMAIN routes
        /\ routes'[r.domain] = r
        /\ \A k \in DOMAIN routes \ {r.domain} : routes'[k] = routes[k]
    BY DEF AddRoute
  <2>2. r.domain \in Patterns
    BY DEF Routes
  <2> QED BY <2>1, <2>2 DEF AddRoute, TypeOK, NoFalseNoRoute
<1>2. CASE \E k \in Patterns : RemoveRoute(k)
  <2> PICK k \in Patterns : RemoveRoute(k)
    BY <1>2
  <2> QED BY DEF RemoveRoute, TypeOK, NoFalseNoRoute
<1>3. CASE ClearRoutes
  <2>1. DOMAIN routes' = {}
    BY <1>3 DEF ClearRoutes
  <2> QED BY <1>3, <2>1 DEF ClearRoutes, TypeOK, NoFalseNoRoute
<1>4. CASE Intercept
  <2> PICK h \in Hosts : HandleRequest(h)
    BY <1>4 DEF Intercept
  <2> PICK res \in CodeLookup(routes, h) :
        \/ res = NoRoute /\ served' = [host |-> h, route |-> res,
                                       spec |-> SpecLookup(routes, h),
                                       status |-> "no_route"]
        \/ res # NoRoute /\ \E st \in ForwardOutcomes :
                              served' = [host |-> h, route |-> res,
                                         spec |-> SpecLookup(routes, h),
                                         status |-> st]
    BY DEF HandleRequest
  <2>1. TableOK(routes)
    BY DEF TypeOK, TableOK
  <2>2. res = NoRoute => SpecLookup(routes, h) = NoRoute
    BY <2>1, NoRouteSound
  <2>3. served'.status \in Statuses
        /\ (served'.status = "no_route" => served'.spec = NoRoute)
    BY <2>2 DEF ForwardOutcomes, Statuses
  <2> QED BY <2>3 DEF HandleRequest, TypeOK, NoFalseNoRoute
<1>5. CASE UNCHANGED vars
  BY <1>5 DEF vars, TypeOK, NoFalseNoRoute
<1> QED BY <1>1, <1>2, <1>3, <1>4, <1>5 DEF Next

(* For every alphabet, set of routes and hosts, and whatever the order in  *)
(* which admin calls and requests interleave and the HashMap iterates,    *)
(* handle_request answers 502 "No mock service configured" only when the   *)
(* spec's lookup over the same table finds no route either.                *)
THEOREM NoRouteOnlyWhenUnrouted == Spec => []NoFalseNoRoute
<1>1. RInv => NoFalseNoRoute
  BY DEF RInv
<1> QED BY <1>1, InitRInv, NextRInv, PTL DEF Spec

=============================================================================
