------------------------------ MODULE Routing ------------------------------
(***************************************************************************)
(* The routing table of interception/routing_table.rs and the request      *)
(* handler of interception/http_interceptor.rs that consults it.           *)
(*                                                                         *)
(* A domain or pattern is a string, modelled as the sequence of its        *)
(* characters over a small alphabet; Alphabet lists it in byte order, so   *)
(* that Rust's String ordering is the lexicographic order on sequences.    *)
(* The table is a HashMap keyed by domain: a function from the keys        *)
(* present.  lookup scans the HashMap in its iteration order, which        *)
(* depends on the hasher's random seed and on the insertion history, so   *)
(* which matching wildcard it meets first is a nondeterministic choice.    *)
(***************************************************************************)
EXTENDS Naturals, Sequences, SequencesExt

CONSTANTS
  Alphabet,    \* the characters, in byte order; contains "*" and "."
  Patterns,    \* the route domains admin operations use (may start "*.")
  Hosts,       \* the hosts agents send requests to
  Targets,     \* mock service URLs
  Priorities   \* route priorities

ASSUME AlphabetAssumption ==
  /\ Alphabet \in Seq(STRING)
  /\ \A i, j \in DOMAIN Alphabet : i # j => Alphabet[i] # Alphabet[j]
  /\ {"*", "."} \subseteq ToSet(Alphabet)
ASSUME NamesAssumption ==
  Patterns \cup Hosts \subseteq Seq(ToSet(Alphabet)) \ {<<>>}

(* Route { domain, target, path_prefix: None, priority }.                  *)
Routes == [domain : Patterns, target : Targets, priority : Priorities]
NoRoute == [domain |-> <<>>, target |-> "none", priority |-> 0]

(* pattern.starts_with("*.")                                               *)
IsWildcard(k) == Len(k) >= 2 /\ k[1] = "*" /\ k[2] = "."

-----------------------------------------------------------------------------
(* Mutant: the wildcard loop gives up (returns None) at the first pattern  *)
(* that does not match instead of going on to the next one.                *)
CodeLookupFirstOnly(routes, d) ==
  IF d \in DOMAIN routes THEN {routes[d]}
  ELSE LET P == {k \in DOMAIN routes : IsWildcard(k)}
           W == {k \in P : IsSuffix(SubSeq(k, 3, Len(k)), d)}
       IN  {routes[k] : k \in W} \cup (IF W = P THEN {} ELSE {NoRoute})
           \cup (IF P = {} THEN {NoRoute} ELSE {})

(* RoutingTable::lookup: the routes it may return for host d.  An exact    *)
(* key wins; otherwise the first wildcard, in iteration order, whose       *)
(* &pattern[2..] is a suffix of d (String::ends_with).                     *)
CodeLookup(routes, d) ==
  IF d \in DOMAIN routes THEN {routes[d]}
  ELSE LET W == {k \in DOMAIN routes :
                   IsWildcard(k) /\ IsSuffix(SubSeq(k, 3, Len(k)), d)}
       IN  IF W = {} THEN {NoRoute} ELSE {routes[k] : k \in W}

(* The reference lookup of spec 4.10 and I5: an exact match wins; a        *)
(* pattern "*.S" matches the hosts ending in ".S" (a.S, a.b.S, never S     *)
(* itself); among matching patterns the highest priority wins, ties go to *)
(* the longest suffix, then to the lexically smallest source domain.       *)
Rank(c) == CHOOSE i \in DOMAIN Alphabet : Alphabet[i] = c

LexLess(s, t) ==
  \E i \in 1 .. Len(t) :
    /\ i <= Len(s) + 1
    /\ SubSeq(s, 1, i - 1) = SubSeq(t, 1, i - 1)
    /\ i > Len(s) \/ Rank(s[i]) < Rank(t[i])

Preferred(routes, k, j) ==
  \/ routes[k].priority > routes[j].priority
  \/ /\ routes[k].priority = routes[j].priority
     /\ \/ Len(k) > Len(j)
        \/ Len(k) = Len(j) /\ LexLess(k, j)

SpecLookup(routes, d) ==
  IF d \in DOMAIN routes THEN routes[d]
  ELSE LET C == {k \in DOMAIN routes : IsWildcard(k) /\ IsSuffix(Tail(k), d)}
       IN  IF C = {} THEN NoRoute
           ELSE routes[CHOOSE k \in C :
                         \A j \in C \ {k} : Preferred(routes, k, j)]

-----------------------------------------------------------------------------
VARIABLES
  routes,      \* the HashMap<String, Route>
  served,      \* the last request handle_request answered
  adminResult  \* the result of the last remove_route

vars == <<routes, served, adminResult>>

Statuses == {"none", "forwarded", "no_route", "mock_unreachable"}

TypeOK ==
  /\ DOMAIN routes \subseteq Patterns
  /\ \A k \in DOMAIN routes : routes[k] \in Routes /\ routes[k].domain = k
  /\ served.status \in Statuses
  /\ adminResult \in {"none", "ok", "not_found"}

(* RoutingTable::new, and no request served yet.                           *)
Init ==
  /\ routes = <<>>
  /\ served = [host |-> <<>>, route |-> NoRoute, spec |-> NoRoute,
               status |-> "none"]
  /\ adminResult = "none"

(* add_route: insert under route.domain, replacing an existing route.      *)
AddRoute(r) ==
  /\ routes' = [k \in DOMAIN routes \cup {r.domain} |->
                  IF k = r.domain THEN r ELSE routes[k]]
  /\ UNCHANGED <<served, adminResult>>

(* remove_route: Ok if the key was present, ConfigError otherwise.         *)
RemoveRoute(k) ==
  /\ IF k \in DOMAIN routes
     THEN /\ routes' = [x \in DOMAIN routes \ {k} |-> routes[x]]
          /\ adminResult' = "ok"
     ELSE /\ adminResult' = "not_found"
          /\ UNCHANGED routes
  /\ UNCHANGED served

(* clear_routes.                                                           *)
ClearRoutes ==
  /\ routes' = <<>>
  /\ UNCHANGED <<served, adminResult>>

(* forward_to_mock: rebuild the request for target and send it; Ok with   *)
(* the mock's response, or Err on a body read, request build, connection  *)
(* or response body error.                                                 *)
ForwardOutcomes == {"forwarded", "mock_unreachable"}

(* HttpInterceptor::handle_request: look the host up; with no route answer *)
(* 502 "No mock service configured"; otherwise forward to route.target,   *)
(* which answers or fails (502 "Failed to reach mock service").  The      *)
(* route the spec would pick from the same table is kept beside it.       *)
HandleRequest(h) ==
  /\ \E res \in CodeLookup(routes, h) :
       LET Serve(st) == served' = [host |-> h, route |-> res,
                                   spec |-> SpecLookup(routes, h),
                                   status |-> st]
       IN  \/ res = NoRoute /\ Serve("no_route")
           \/ res # NoRoute /\ \E st \in ForwardOutcomes : Serve(st)
  /\ UNCHANGED <<routes, adminResult>>

(* HttpInterceptor::start: the accept loop spawns a task running          *)
(* handle_request for every connection, whatever host it names; an accept *)
(* error is only logged.                                                   *)
Intercept == \E h \in Hosts : HandleRequest(h)

Next ==
  \/ \E r \in Routes : AddRoute(r)
  \/ \E k \in Patterns : RemoveRoute(k)
  \/ ClearRoutes
  \/ Intercept

Spec == Init /\ [][Next]_vars

-----------------------------------------------------------------------------
(* Properties                                                              *)

(* Spec 4.12 step 3 with 4.10: handle_request answers 502 "No mock service *)
(* configured for this host" only for a host that the spec's lookup finds  *)
(* no route for in the same table: lookup never misses a route, whatever  *)
(* the HashMap's iteration order.                                          *)
NoFalseNoRoute ==
  served.status = "no_route" => served.spec = NoRoute

=============================================================================
