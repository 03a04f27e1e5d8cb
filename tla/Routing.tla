------------------------------ MODULE Routing ------------------------------
(***************************************************************************)
(* How a request finds its API or page: the hash tables that               *)
(* src/src/server/routing.c builds when the server starts, the search in   *)
(* them, and the parameters that route_params.c takes from the url.        *)
(*                                                                         *)
(* A route and a url are sequences of segments, which is the text between  *)
(* two slashes ("/" is <<Empty>>).  An endpoint is its index in Apis or     *)
(* Pages, the declarations in the order of the source file; 0 is NULL.     *)
(***************************************************************************)
EXTENDS Naturals, Sequences, FiniteSets, SequencesExt

CONSTANTS
  Apis,            \* [method, route, ...]
  Pages,           \* [route, ...]
  ParamSegments,   \* segments of routes that begin with ':'
  Empty,           \* the empty segment
  TableSize,       \* HASH_TABLE_SIZE
  ApiHash(_, _),   \* the slot of a route and a method
  PageHash(_),     \* the slot of a route
  MaxParams        \* MAX_ROUTE_PARAMS

IsSequence(s) == Len(s) \in Nat /\ DOMAIN s = 1..Len(s)
IsPath(s) == IsSequence(s) /\ Len(s) # 0

ASSUME RoutingAssumption ==
  /\ IsSequence(Apis) /\ IsSequence(Pages)
  /\ \A i \in DOMAIN Apis : IsPath(Apis[i].route)
  /\ \A i \in DOMAIN Pages : IsPath(Pages[i].route)
  /\ Empty \notin ParamSegments
  /\ TableSize \in Nat /\ MaxParams \in Nat
  /\ \A i \in DOMAIN Apis : ApiHash(Apis[i].route, Apis[i].method) \in 1..TableSize
  /\ \A i \in DOMAIN Pages : PageHash(Pages[i].route) \in 1..TableSize

-----------------------------------------------------------------------------
(* buildRouteMaps: each entry becomes the head of its slot's chain. *)

ApiSlot == [i \in DOMAIN Apis |-> ApiHash(Apis[i].route, Apis[i].method)]
PageSlot == [i \in DOMAIN Pages |-> PageHash(Pages[i].route)]

(* A loop over the table meets i before j; within a chain the later         *)
(* declaration comes first.                                                 *)
Before(slot, i, j) == slot[i] < slot[j] \/ (slot[i] = slot[j] /\ i > j)

FirstOf(slot, S) == CHOOSE i \in S : \A j \in S \ {i} : Before(slot, i, j)
LastOf(slot, S) == CHOOSE i \in S : \A j \in S \ {i} : Before(slot, j, i)

-----------------------------------------------------------------------------
(* A parameter takes what the url has up to the next slash, even nothing;  *)
(* but where the url has ended the loop has, too.                           *)
Reads(pattern, url, i) ==
  /\ i <= Len(url)
  /\ IF pattern[i] \in ParamSegments THEN i < Len(url) \/ url[i] # Empty
                                     ELSE pattern[i] = url[i]

(* How many segments are read before the first mismatch. *)
ReadUpTo(pattern, url) ==
  Max({n \in 0..Len(pattern) : \A i \in 1..n : Reads(pattern, url, i)})

(* They leave their parameters behind also when the pattern does not       *)
(* match.                                                                  *)
parseRouteParams(pattern, url) ==
  LET upTo  == ReadUpTo(pattern, url)
      named == {i \in 1..upTo : pattern[i] \in ParamSegments}
      kept  == {i \in named : Cardinality({j \in named : j < i}) < MaxParams}
  IN [matches |-> upTo = Len(pattern) /\ upTo = Len(url),
      params  |-> {<<pattern[i], url[i]>> : i \in kept}]

(* The loop over all patterns.  params is one structure that every attempt *)
(* writes; the loop ends with the first that fits, or with the last entry. *)
Search(slot, tries, fitting, params) ==
  IF fitting # {}
  THEN LET i == FirstOf(slot, fitting) IN [endpoint |-> i, params |-> tries[i].params]
  ELSE [endpoint |-> 0,
        params   |-> IF DOMAIN slot = {} THEN params
                     ELSE tries[LastOf(slot, DOMAIN slot)].params]

ApiIs(i, url, method) == Apis[i].route = url /\ Apis[i].method = method

findApi(url, method) ==
  LET exact == {i \in DOMAIN Apis : /\ ApiSlot[i] = ApiHash(url, method)
                                    /\ ApiIs(i, url, method)}
      tries == [i \in DOMAIN Apis |-> parseRouteParams(Apis[i].route, url)]
  IN IF exact # {}
     THEN [endpoint |-> FirstOf(ApiSlot, exact), params |-> {}]
     ELSE Search(ApiSlot, tries,
                 {i \in DOMAIN Apis : tries[i].matches /\ Apis[i].method = method}, {})

(* Mutant: an exact match keeps what earlier attempts left in params. *)
findPage_KeepsParams(url, params) ==
  LET exact == {i \in DOMAIN Pages : PageSlot[i] = PageHash(url) /\ Pages[i].route = url}
      tries == [i \in DOMAIN Pages |-> parseRouteParams(Pages[i].route, url)]
  IN IF exact # {}
     THEN [endpoint |-> FirstOf(PageSlot, exact), params |-> params]
     ELSE Search(PageSlot, tries, {i \in DOMAIN Pages : tries[i].matches}, params)

(* params is what the search of the APIs has left. *)
findPage(url, params) ==
  LET exact == {i \in DOMAIN Pages : PageSlot[i] = PageHash(url) /\ Pages[i].route = url}
      tries == [i \in DOMAIN Pages |-> parseRouteParams(Pages[i].route, url)]
  IN IF exact # {}
     THEN [endpoint |-> FirstOf(PageSlot, exact), params |-> {}]
     ELSE Search(PageSlot, tries, {i \in DOMAIN Pages : tries[i].matches}, params)

RouteMatch(type, found) ==
  [type |-> type, endpoint |-> found.endpoint, params |-> found.params]

findRoute(url, method) ==
  LET api  == findApi(url, method)
      page == findPage(url, api.params)
  IN IF api.endpoint # 0 THEN RouteMatch("api", api)
     ELSE IF page.endpoint # 0 THEN RouteMatch("page", page)
     ELSE RouteMatch("none", page)
=============================================================================
