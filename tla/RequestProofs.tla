--------------------------- MODULE RequestProofs ---------------------------
(***************************************************************************)
(* Theorems about Request: the routes it finds, the memory of requests,    *)
(* the order of the steps of a pipeline, what is uploaded, what is         *)
(* answered, and which bodies pass the validation.                         *)
(***************************************************************************)
EXTENDS Request, FiniteSetTheorems, TLAPS

-----------------------------------------------------------------------------
(* Routes *)

(* The least and the greatest of some numbers. *)
LEMMA LeastNatural ==
  ASSUME NEW T \in SUBSET Nat, T # {}
  PROVE  \E n \in T : \A m \in T : n <= m
<1>1. PICK n \in T : \A m \in T : ~ (<<m, n>> \in OpToRel(<, Nat))
  BY NatLessThanWellFounded, WFMin
<1>2. \A m \in T : ~(m < n) BY <1>1 DEF OpToRel
<1> QED BY <1>2

LEMMA GreatestNatural ==
  ASSUME NEW T \in SUBSET Nat, T # {}, NEW b \in Nat, \A m \in T : m <= b
  PROVE  \E n \in T : \A m \in T : n >= m
<1> DEFINE U == {b - m : m \in T}
<1>1. U \in SUBSET Nat
  <2>1. \A m \in T : b - m \in Nat OBVIOUS
  <2> QED BY <2>1
<1>0. U # {}
  <2>1. PICK m \in T : TRUE OBVIOUS
  <2>2. b - m \in U BY <2>1
  <2> QED BY <2>2
<1> HIDE DEF U
<1>2. PICK u \in U : \A w \in U : u <= w BY <1>0, <1>1, LeastNatural
<1>3. PICK n \in T : u = b - n BY <1>2 DEF U
<1>4. \A m \in T : b - n <= b - m BY <1>2, <1>3 DEF U
<1> QED BY <1>3, <1>4

(* The first of some routes in the order of the table: the least chain,    *)
(* and of one chain the route that was put into it last.                   *)
LEMMA FirstOfIsFirst ==
  ASSUME NEW l \in Nat, NEW slot \in [1..l -> Nat], NEW S \in SUBSET (1..l), S # {}
  PROVE  /\ FirstOf(slot, S) \in S
         /\ \A j \in S \ {FirstOf(slot, S)} : Before(slot, FirstOf(slot, S), j)
<1> DEFINE H == {slot[i] : i \in S}
<1>1. H \in SUBSET Nat
  <2>1. \A i \in S : slot[i] \in Nat OBVIOUS
  <2> QED BY <2>1
<1>2. H # {} OBVIOUS
<1> HIDE DEF H
<1>3. PICK h \in H : \A g \in H : h <= g BY <1>1, <1>2, LeastNatural
<1> DEFINE chain == {i \in S : slot[i] = h}
<1>4. chain # {} BY <1>3 DEF H
<1>5. chain \in SUBSET Nat /\ \A i \in chain : i <= l
  <2>1. \A i \in S : i \in Nat /\ i <= l OBVIOUS
  <2> QED BY <2>1
<1> HIDE DEF chain
<1>6. PICK i \in chain : \A j \in chain : i >= j BY <1>4, <1>5, GreatestNatural
<1>7. ASSUME NEW j \in S \ {i} PROVE Before(slot, i, j)
  <2>1. i \in S /\ slot[i] = h BY DEF chain
  <2>2. slot[j] \in H BY DEF H
  <2>3. h <= slot[j] /\ slot[j] \in Nat /\ h \in Nat BY <1>1, <1>3, <2>2
  <2>4. CASE slot[j] = h
    <3>1. i >= j BY <1>6, <2>4 DEF chain
    <3> QED BY <2>1, <2>4, <3>1 DEF Before
  <2>5. CASE slot[j] # h BY <2>1, <2>3, <2>5 DEF Before
  <2> QED BY <2>4, <2>5
<1>8. i \in S BY DEF chain
<1> QED BY <1>7, <1>8 DEF FirstOf

(* A url is read up to the first segment that does not fit. *)
LEMMA ReadUpToIsLast ==
  ASSUME NEW pattern, NEW url, IsSequence(pattern)
  PROVE  /\ ReadUpTo(pattern, url) \in 0..Len(pattern)
         /\ \A i \in 1..ReadUpTo(pattern, url) : Reads(pattern, url, i)
         /\ \A n \in 0..Len(pattern) :
              (\A i \in 1..n : Reads(pattern, url, i)) => n <= ReadUpTo(pattern, url)
<1> DEFINE read == {n \in 0..Len(pattern) : \A i \in 1..n : Reads(pattern, url, i)}
<1>1. Len(pattern) \in Nat BY DEF IsSequence
<1>2. read \in SUBSET Nat /\ \A n \in read : n <= Len(pattern)
  <2>1. \A n \in 0..Len(pattern) : n \in Nat /\ n <= Len(pattern) BY <1>1
  <2> QED BY <2>1
<1>3. 0 \in read BY <1>1
<1>4. ReadUpTo(pattern, url) = Max(read) BY DEF ReadUpTo
<1> HIDE DEF read
<1>5. PICK n \in read : \A m \in read : n >= m BY <1>1, <1>2, <1>3, GreatestNatural
<1>6. Max(read) \in read /\ \A m \in read : Max(read) >= m BY <1>5 DEF Max
<1>7. \A m \in read : m <= Max(read) BY <1>2, <1>6
<1> QED BY <1>4, <1>6, <1>7 DEF read

(* What parseRouteParams accepts is what fits. *)
LEMMA MatchesIffFits ==
  ASSUME NEW pattern, NEW url, IsPath(pattern), IsPath(url)
  PROVE  parseRouteParams(pattern, url).matches <=> Fits(pattern, url)
<1> DEFINE upTo == ReadUpTo(pattern, url)
<1>0. Len(pattern) \in Nat /\ Len(url) \in Nat /\ DOMAIN url = 1..Len(url)
  BY DEF IsSequence, IsPath
<1>1. parseRouteParams(pattern, url).matches <=> upTo = Len(pattern) /\ upTo = Len(url)
  BY DEF parseRouteParams
<1>2. ASSUME Len(pattern) = Len(url)
      PROVE  (\A i \in 1..Len(pattern) : Reads(pattern, url, i)) <=> Fits(pattern, url)
  <2>1. Len(url) # 0 BY DEF IsPath
  <2> QED BY <1>0, <1>2, <2>1 DEF Reads, Fits, Last
<1>3. upTo = Len(pattern) <=> \A i \in 1..Len(pattern) : Reads(pattern, url, i)
  BY <1>0, ReadUpToIsLast DEF IsPath
<1>4. Fits(pattern, url) => Len(pattern) = Len(url) BY DEF Fits
<1> QED BY <1>1, <1>2, <1>3, <1>4

(* The parameters of a pattern that matches are read off the url. *)
LEMMA MatchReadsParams ==
  ASSUME NEW pattern, NEW url, IsPath(pattern), IsPath(url),
         parseRouteParams(pattern, url).matches
  PROVE  LET named == {i \in DOMAIN url : pattern[i] \in ParamSegments}
             read  == {<<pattern[i], url[i]>> : i \in named}
             found == parseRouteParams(pattern, url).params
         IN /\ found \subseteq read
            /\ Cardinality(named) <= MaxParams => found = read
<1> DEFINE named == {i \in DOMAIN url : pattern[i] \in ParamSegments}
           kept  == {i \in named : Cardinality({j \in named : j < i}) < MaxParams}
<1>0. Len(url) \in Nat /\ DOMAIN url = 1..Len(url) /\ MaxParams \in Nat
  BY RoutingAssumption DEF IsPath, IsSequence
<1>1. ReadUpTo(pattern, url) = Len(url) BY DEF parseRouteParams
<1>2. parseRouteParams(pattern, url).params = {<<pattern[i], url[i]>> : i \in kept}
  BY <1>0, <1>1 DEF parseRouteParams
<1>3. ASSUME Cardinality(named) <= MaxParams PROVE kept = named
  <2> SUFFICES ASSUME NEW i \in named
               PROVE  Cardinality({j \in named : j < i}) < MaxParams
    OBVIOUS
  <2> DEFINE S == {j \in named : j < i}
  <2>1. IsFiniteSet(named)
    <3>1. IsFiniteSet(1..Len(url)) BY <1>0, FS_Interval
    <3>2. named \in SUBSET (1..Len(url)) BY <1>0
    <3> QED BY <3>1, <3>2, FS_Subset
  <2>2. S \in SUBSET named /\ S # named BY <1>0
  <2> HIDE DEF S, named
  <2>3. Cardinality(S) <= Cardinality(named) /\ Cardinality(S) # Cardinality(named)
        /\ IsFiniteSet(S)
    BY <2>1, <2>2, FS_Subset
  <2>4. Cardinality(S) \in Nat /\ Cardinality(named) \in Nat
    BY <2>1, <2>3, FS_CardinalityType
  <2> QED BY <1>0, <1>3, <2>3, <2>4 DEF S
<1>4. kept \subseteq named OBVIOUS
<1> HIDE DEF kept, named
<1>5. parseRouteParams(pattern, url).params \subseteq {<<pattern[i], url[i]>> : i \in named}
  BY <1>2, <1>4
<1>6. Cardinality(named) <= MaxParams =>
        parseRouteParams(pattern, url).params = {<<pattern[i], url[i]>> : i \in named}
  BY <1>2, <1>3
<1> QED BY <1>5, <1>6 DEF named

LEMMA SlotsAreNumbers ==
  /\ ApiSlot \in [1..Len(Apis) -> Nat] /\ Len(Apis) \in Nat /\ DOMAIN Apis = 1..Len(Apis)
  /\ PageSlot \in [1..Len(Pages) -> Nat] /\ Len(Pages) \in Nat /\ DOMAIN Pages = 1..Len(Pages)
<1>1. \A h \in 1..TableSize : h \in Nat BY RoutingAssumption
<1> QED BY <1>1, RoutingAssumption DEF ApiSlot, PageSlot, IsSequence

(* Whatever fits is found, and what is found is the best. *)
LEMMA SearchFinds ==
  ASSUME NEW table, IsSequence(table), NEW url, IsPath(url), NEW params, NEW tries,
         \A i \in DOMAIN table : IsPath(table[i].route),
         \A i \in DOMAIN table : tries[i] = parseRouteParams(table[i].route, url),
         NEW slot \in [1..Len(table) -> Nat],
         NEW fitting \in SUBSET DOMAIN table,
         \A i \in fitting : Fits(table[i].route, url) /\ table[i].route # url
  PROVE  LET found == Search(slot, tries, fitting, params)
         IN IF fitting = {} THEN found.endpoint = 0
            ELSE Best(found, table, fitting, url)
<1>1. CASE fitting = {} BY <1>1 DEF Search
<1>2. CASE fitting # {}
  <2> DEFINE i == FirstOf(slot, fitting)
  <2>1. i \in fitting BY <1>2, FirstOfIsFirst DEF IsSequence
  <2>2. Search(slot, tries, fitting, params) = [endpoint |-> i, params |-> tries[i].params]
    BY <1>2 DEF Search
  <2> HIDE DEF i
  <2>3. parseRouteParams(table[i].route, url).matches
    BY <2>1, MatchesIffFits
  <2>4. tries[i].params = parseRouteParams(table[i].route, url).params BY <2>1
  <2> DEFINE found == Search(slot, tries, fitting, params)
             route == table[i].route
             named == {k \in DOMAIN url : route[k] \in ParamSegments}
             read  == {<<route[k], url[k]>> : k \in named}
  <2>5. found.endpoint = i /\ found.params = parseRouteParams(route, url).params
    BY <2>2, <2>4
  <2>6. IsPath(route) BY <2>1
  <2>7. found.params \subseteq read /\ (Cardinality(named) <= MaxParams => found.params = read)
    <3>0. parseRouteParams(route, url).matches /\ IsPath(route) /\ IsPath(url)
      BY ONLY <2>3, <2>6, IsPath(url)
    <3> HIDE DEF found, route
    <3>1. LET pairs == parseRouteParams(route, url).params
          IN pairs \subseteq read /\ (Cardinality(named) <= MaxParams => pairs = read)
      BY ONLY <3>0, MatchReadsParams
    <3> QED BY ONLY <2>5, <3>1
  <2>8. {k \in fitting : table[k].route = url} = {} OBVIOUS
  <2>9. Best(found, table, fitting, url)
    <3> HIDE DEF found
    <3> QED BY <2>1, <2>5, <2>7, <2>8 DEF Best
  <2> QED BY <1>2, <2>9
<1> QED BY <1>1, <1>2

LEMMA ExactFinds ==
  ASSUME NEW table, IsSequence(table), NEW url,
         NEW slot \in [1..Len(table) -> Nat],
         NEW fitting \in SUBSET DOMAIN table,
         NEW exact, exact = {i \in fitting : table[i].route = url}, exact # {},
         \A i, j \in exact : slot[i] = slot[j]
  PROVE  Best([endpoint |-> FirstOf(slot, exact), params |-> {}], table, fitting, url)
<1>1. exact \in SUBSET (1..Len(table)) BY DEF IsSequence
<1>2. /\ FirstOf(slot, exact) \in exact
      /\ \A j \in exact \ {FirstOf(slot, exact)} : Before(slot, FirstOf(slot, exact), j)
  BY <1>1, FirstOfIsFirst DEF IsSequence
<1>3. ASSUME NEW j \in exact PROVE j <= FirstOf(slot, exact)
  <2>1. j \in Nat /\ FirstOf(slot, exact) \in Nat /\ slot[j] \in Nat
        /\ slot[j] = slot[FirstOf(slot, exact)]
    BY <1>1, <1>2 DEF IsSequence
  <2>2. CASE j = FirstOf(slot, exact) BY <2>1, <2>2
  <2>3. CASE j # FirstOf(slot, exact)
    <3>1. Before(slot, FirstOf(slot, exact), j) BY <1>2, <2>3
    <3> QED BY <2>1, <3>1 DEF Before
  <2> QED BY <2>2, <2>3
<1> QED BY <1>2, <1>3 DEF Best

(* What a search of the APIs finds. *)
LEMMA ApiIsBest ==
  ASSUME NEW url, IsPath(url), NEW method
  PROVE  LET apis  == {i \in DOMAIN Apis : Fits(Apis[i].route, url) /\ Apis[i].method = method}
             found == findApi(url, method)
         IN IF apis = {} THEN found.endpoint = 0 ELSE Best(found, Apis, apis, url)
<1> DEFINE apis  == {i \in DOMAIN Apis : Fits(Apis[i].route, url) /\ Apis[i].method = method}
           exact == {i \in DOMAIN Apis : /\ ApiSlot[i] = ApiHash(url, method)
                                         /\ ApiIs(i, url, method)}
           tries == [i \in DOMAIN Apis |-> parseRouteParams(Apis[i].route, url)]
           good  == {i \in DOMAIN Apis : tries[i].matches /\ Apis[i].method = method}
<1>0. /\ \A i \in DOMAIN Apis : IsPath(Apis[i].route)
      /\ IsSequence(Apis) /\ Empty \notin ParamSegments
  BY RoutingAssumption
<1>1. exact = {i \in apis : Apis[i].route = url}
  <2>1. \A i \in DOMAIN Apis : ApiIs(i, url, method) => ApiSlot[i] = ApiHash(url, method)
    BY DEF ApiIs, ApiSlot
  <2>2. Fits(url, url)
    BY <1>0 DEF Fits
  <2> QED BY <2>1, <2>2 DEF ApiIs
<1>2. good = apis
  BY <1>0, MatchesIffFits
<1>3. CASE exact # {}
  <2>1. findApi(url, method) = [endpoint |-> FirstOf(ApiSlot, exact), params |-> {}]
    BY <1>3 DEF findApi
  <2>2. \A i, j \in exact : ApiSlot[i] = ApiSlot[j] OBVIOUS
  <2>3. apis \in SUBSET DOMAIN Apis /\ apis # {} BY <1>1, <1>3
  <2> HIDE DEF apis, exact
  <2>4. Best([endpoint |-> FirstOf(ApiSlot, exact), params |-> {}], Apis, apis, url)
    BY <1>0, <1>1, <1>3, <2>2, <2>3, SlotsAreNumbers, ExactFinds
  <2> QED BY <2>1, <2>3, <2>4 DEF apis
<1>4. CASE exact = {}
  <2>1. findApi(url, method) = Search(ApiSlot, tries, good, {})
    BY <1>4 DEF findApi
  <2>2. \A i \in apis : Fits(Apis[i].route, url) /\ Apis[i].route # url
    BY <1>1, <1>4
  <2>3. apis \in SUBSET DOMAIN Apis OBVIOUS
  <2>4. \A i \in DOMAIN Apis : tries[i] = parseRouteParams(Apis[i].route, url) OBVIOUS
  <2> HIDE DEF apis, exact, tries, good
  <2>5. IF apis = {} THEN Search(ApiSlot, tries, apis, {}).endpoint = 0
        ELSE Best(Search(ApiSlot, tries, apis, {}), Apis, apis, url)
    BY <1>0, <2>2, <2>3, <2>4, SlotsAreNumbers, SearchFinds
  <2> QED BY <1>2, <2>1, <2>5 DEF apis
<1> QED BY <1>3, <1>4
(* What a search of the pages finds. *)
LEMMA PageIsBest ==
  ASSUME NEW url, IsPath(url), NEW params
  PROVE  LET pages  == {i \in DOMAIN Pages : Fits(Pages[i].route, url)}
             found == findPage(url, params)
         IN IF pages = {} THEN found.endpoint = 0 ELSE Best(found, Pages, pages, url)
<1> DEFINE pages  == {i \in DOMAIN Pages : Fits(Pages[i].route, url)}
           exact == {i \in DOMAIN Pages : PageSlot[i] = PageHash(url) /\ Pages[i].route = url}
           tries == [i \in DOMAIN Pages |-> parseRouteParams(Pages[i].route, url)]
           good  == {i \in DOMAIN Pages : tries[i].matches}
<1>0. /\ \A i \in DOMAIN Pages : IsPath(Pages[i].route)
      /\ IsSequence(Pages) /\ Empty \notin ParamSegments
  BY RoutingAssumption
<1>1. exact = {i \in pages : Pages[i].route = url}
  <2>1. \A i \in DOMAIN Pages : Pages[i].route = url => PageSlot[i] = PageHash(url)
    BY DEF PageSlot
  <2>2. Fits(url, url)
    BY <1>0 DEF Fits
  <2> QED BY <2>1, <2>2
<1>2. good = pages
  BY <1>0, MatchesIffFits
<1>3. CASE exact # {}
  <2>1. findPage(url, params) = [endpoint |-> FirstOf(PageSlot, exact), params |-> {}]
    BY <1>3 DEF findPage
  <2>2. \A i, j \in exact : PageSlot[i] = PageSlot[j] OBVIOUS
  <2>3. pages \in SUBSET DOMAIN Pages /\ pages # {} BY <1>1, <1>3
  <2> HIDE DEF pages, exact
  <2>4. Best([endpoint |-> FirstOf(PageSlot, exact), params |-> {}], Pages, pages, url)
    BY <1>0, <1>1, <1>3, <2>2, <2>3, SlotsAreNumbers, ExactFinds
  <2> QED BY <2>1, <2>3, <2>4 DEF pages
<1>4. CASE exact = {}
  <2>1. findPage(url, params) = Search(PageSlot, tries, good, params)
    BY <1>4 DEF findPage
  <2>2. \A i \in pages : Fits(Pages[i].route, url) /\ Pages[i].route # url
    BY <1>1, <1>4
  <2>3. pages \in SUBSET DOMAIN Pages OBVIOUS
  <2>4. \A i \in DOMAIN Pages : tries[i] = parseRouteParams(Pages[i].route, url) OBVIOUS
  <2> HIDE DEF pages, exact, tries, good
  <2>5. IF pages = {} THEN Search(PageSlot, tries, pages, params).endpoint = 0
        ELSE Best(Search(PageSlot, tries, pages, params), Pages, pages, url)
    BY <1>0, <2>2, <2>3, <2>4, SlotsAreNumbers, SearchFinds
  <2> QED BY <1>2, <2>1, <2>5 DEF pages
<1> QED BY <1>3, <1>4

(* The route of every url and method is the right one. *)
LEMMA RouteIsRight ==
  ASSUME NEW url, IsPath(url), NEW method
  PROVE  LET r == findRoute(url, method)
         IN /\ RightRoute(r, url, method)
            /\ r.type \in {"api", "page", "none"} /\ r.endpoint \in Nat
            /\ r.type = "api" => r.endpoint \in DOMAIN Apis
            /\ r.type = "page" => r.endpoint \in DOMAIN Pages
<1> DEFINE apis  == {i \in DOMAIN Apis : Fits(Apis[i].route, url) /\ Apis[i].method = method}
           pages == {i \in DOMAIN Pages : Fits(Pages[i].route, url)}
           api   == findApi(url, method)
           page  == findPage(url, api.params)
           r     == findRoute(url, method)
<1>1. IF apis = {} THEN api.endpoint = 0 ELSE Best(api, Apis, apis, url)
  BY ApiIsBest
<1>2. IF pages = {} THEN page.endpoint = 0 ELSE Best(page, Pages, pages, url)
  BY PageIsBest
<1>3. r = IF api.endpoint # 0 THEN RouteMatch("api", api)
          ELSE IF page.endpoint # 0 THEN RouteMatch("page", page)
          ELSE RouteMatch("none", page)
  BY DEF findRoute
<1>4. /\ apis \subseteq DOMAIN Apis /\ pages \subseteq DOMAIN Pages
      /\ \A i \in DOMAIN Apis \cup DOMAIN Pages : i \in Nat /\ i # 0
  BY SlotsAreNumbers
<1>5. RightRoute(r, url, method) <=>
        CASE apis # {} -> r.type = "api" /\ Best(r, Apis, apis, url)
          [] apis = {} /\ pages # {} -> r.type = "page" /\ Best(r, Pages, pages, url)
          [] OTHER -> r.type = "none"
  BY DEF RightRoute
<1> HIDE DEF apis, pages, api, page, r
<1>6. ASSUME NEW found, NEW type, NEW table, NEW fitting, Best(found, table, fitting, url)
      PROVE  /\ found.endpoint \in fitting /\ Best(RouteMatch(type, found), table, fitting, url)
             /\ RouteMatch(type, found).type = type
             /\ RouteMatch(type, found).endpoint = found.endpoint
  BY <1>6 DEF Best, RouteMatch
<1>7. CASE apis # {}
  <2>1. api.endpoint \in apis /\ Best(RouteMatch("api", api), Apis, apis, url)
        /\ RouteMatch("api", api).type = "api"
        /\ RouteMatch("api", api).endpoint = api.endpoint
    BY <1>1, <1>6, <1>7
  <2>2. r = RouteMatch("api", api) BY <1>3, <1>4, <2>1
  <2> QED BY <1>4, <1>5, <1>7, <2>1, <2>2 DEF r
<1>8. CASE apis = {} /\ pages # {}
  <2>1. page.endpoint \in pages /\ Best(RouteMatch("page", page), Pages, pages, url)
        /\ RouteMatch("page", page).type = "page"
        /\ RouteMatch("page", page).endpoint = page.endpoint
    BY <1>2, <1>6, <1>8
  <2>2. r = RouteMatch("page", page) BY <1>1, <1>3, <1>4, <1>8, <2>1
  <2> QED BY <1>4, <1>5, <1>8, <2>1, <2>2 DEF r
<1>9. CASE apis = {} /\ pages = {}
  <2>1. r = RouteMatch("none", page) /\ page.endpoint = 0 BY <1>1, <1>2, <1>3, <1>9
  <2>2. r.type = "none" /\ r.endpoint = 0 BY <2>1 DEF RouteMatch
  <2> QED BY <1>5, <1>9, <2>2 DEF r
<1> QED BY <1>7, <1>8, <1>9

-----------------------------------------------------------------------------
(* Memory *)

MemTypes ==
  /\ thread \in [Conns -> Threads] /\ pc \in [Conns -> PC]
  /\ context \in [Conns -> Contexts]
  /\ arena \in [Conns -> {"none", "live", "freed", "freed twice"}]
  /\ jsonArena \in [Threads -> Conns \cup {None}]
  /\ json \in [Conns -> SUBSET (Conns \cup {None})]

(* What the program may rely on at each place. *)
ContextHolds ==
  \A c \in Conns :
    /\ pc[c] \in Calling \cup {"reading", "answered"} => context[c] # "NULL"
    /\ pc[c] \in {"idle", "gone"} => context[c] = "NULL"
    /\ context[c] # "NULL" => arena[c] = "live"
    /\ context[c] = "NULL" => arena[c] \in {"none", "freed"} /\ json[c] = {}
    /\ pc[c] \in {"refused", "gone"} /\ context[c] = "NULL" => arena[c] = "freed"

(* A thread is in one handler, whose arena is the thread's. *)
OneAtATime ==
  \A c, d \in Conns :
    pc[c] \in Calling /\ pc[d] \in Calling /\ thread[c] = thread[d] => c = d
ArenaIsMine == \A c \in Conns : pc[c] \in Calling => jsonArena[thread[c]] = c
AtHome == \A c \in Conns : json[c] \subseteq {c}

MemInv == MemTypes /\ ContextHolds /\ OneAtATime /\ ArenaIsMine /\ AtHome

memVars == <<thread, pc, context, arena, jsonArena, json>>

LEMMA MemInvImplies == MemInv => ReleasedOnce /\ JsonStaysHome
  BY DEF MemInv, MemTypes, ContextHolds, AtHome, PC, Calling, ReleasedOnce, JsonStaysHome

LEMMA MemInit == Init => MemInv
  BY RequestAssumption
  DEF Init, MemInv, MemTypes, ContextHolds, OneAtATime, ArenaIsMine, AtHome,
      PC, Calling, Contexts

(* A step inside a handler leaves the thread's arena alone; what it        *)
(* allocates is allocated there.                                           *)
LEMMA InsideKeeps ==
  ASSUME MemInv, NEW c \in Conns, pc[c] \in Calling,
         NEW l \in Calling \cup {"reading", "answered", "refused"},
         pc' = [pc EXCEPT ![c] = l],
         UNCHANGED json \/ jsonArenaMalloc(c),
         UNCHANGED <<thread, context, arena, jsonArena>>
  PROVE  MemInv'
<1> USE DEF MemInv
<1>1. l \in PC /\ pc' \in [Conns -> PC]
  BY DEF MemTypes, PC, Calling
<1>2. \A d \in Conns : pc'[d] = IF d = c THEN l ELSE pc[d]
  BY DEF MemTypes
<1>3. json' \in [Conns -> SUBSET (Conns \cup {None})] /\ (\A d \in Conns : json'[d] \subseteq {d})
      /\ \A d \in Conns \ {c} : json'[d] = json[d]
  <2>1. CASE UNCHANGED json BY <2>1 DEF MemTypes, AtHome
  <2>2. CASE jsonArenaMalloc(c)
    <3>1. jsonArena[thread[c]] = c BY DEF ArenaIsMine
    <3>2. json' = [json EXCEPT ![c] = @ \cup {c}]
      BY <2>2, <3>1 DEF jsonArenaMalloc, Local
    <3> QED BY <3>2 DEF MemTypes, AtHome
  <2> QED BY <2>1, <2>2
<1>4. MemTypes' BY <1>1, <1>3 DEF MemTypes
<1>5. ContextHolds'
  BY <1>2, <1>3 DEF ContextHolds, Calling
<1>6. OneAtATime' BY <1>2 DEF OneAtATime
<1>7. ArenaIsMine' BY <1>2 DEF ArenaIsMine
<1>8. AtHome' BY <1>3 DEF AtHome
<1> QED BY <1>4, <1>5, <1>6, <1>7, <1>8

(* A call begins: the thread is free, and its arena becomes the request's. *)
LEMMA CallKeeps ==
  ASSUME MemInv, NEW c \in Conns, pc[c] = "reading", ThreadFree(thread[c]),
         initRequestJsonArena(c),
         NEW l \in {"reading", "route", "answered", "refused"},
         pc' = [pc EXCEPT ![c] = l],
         UNCHANGED <<thread, context, arena, json>>
  PROVE  MemInv'
<1> USE DEF MemInv
<1>1. pc' \in [Conns -> PC] BY DEF MemTypes, PC, Calling
<1>2. \A d \in Conns : pc'[d] = IF d = c THEN l ELSE pc[d]
  BY DEF MemTypes
<1>3. /\ jsonArena' \in [Threads -> Conns \cup {None}]
      /\ \A t \in Threads : jsonArena'[t] = IF t = thread[c] THEN c ELSE jsonArena[t]
  BY DEF MemTypes, initRequestJsonArena, Local
<1>4. \A d \in Conns : pc[d] \in Calling => thread[d] # thread[c] /\ thread[d] \in Threads
  BY DEF ThreadFree, MemTypes
<1>5. MemTypes' BY <1>1, <1>3 DEF MemTypes
<1>6. ContextHolds'
  BY <1>2 DEF ContextHolds, Calling
<1>7. OneAtATime' BY <1>2, <1>4 DEF OneAtATime, Calling
<1>8. ArenaIsMine'
  BY <1>2, <1>3, <1>4 DEF ArenaIsMine, MemTypes
<1>9. AtHome' BY DEF AtHome
<1> QED BY <1>5, <1>6, <1>7, <1>8, <1>9


LEMMA FirstCallKeeps ==
  ASSUME MemInv, NEW c \in Conns, NEW m \in Messages[c], FirstCall(c, m)
  PROVE  MemInv'
<1> USE DEF MemInv
<1>1. PICK l \in {"refused", "reading"}, x \in Contexts, a \in {"freed", "live"} :
        /\ pc' = [pc EXCEPT ![c] = l]
        /\ context' = [context EXCEPT ![c] = x]
        /\ arena' = [arena EXCEPT ![c] = a]
        /\ l = "refused" => x = "NULL" /\ a = "freed"
        /\ l = "reading" => x # "NULL" /\ a = "live"
  <2>2. CASE isBodyMethod(m) /\ m.content \notin {"json", "multipart", "form"}
    <3>1. context[c] = "NULL" /\ UNCHANGED context
      BY <2>2 DEF FirstCall, ContextHolds
    <3>2. context' = [context EXCEPT ![c] = "NULL"] BY <3>1 DEF MemTypes
    <3> QED BY <2>2, <3>2 DEF FirstCall, Goto, Contexts
  <2>3. CASE ~(isBodyMethod(m) /\ m.content \notin {"json", "multipart", "form"})
    BY <2>3 DEF FirstCall, Goto, Contexts, RequestType
  <2> QED BY <2>2, <2>3
<1>2. pc[c] = "idle" /\ UNCHANGED <<thread, jsonArena, json>>
  BY DEF FirstCall, memory
<1>3. MemTypes' BY <1>1, <1>2 DEF MemTypes, PC, Calling
<1>4. \A d \in Conns : pc'[d] = IF d = c THEN l ELSE pc[d]
  BY <1>1 DEF MemTypes
<1>5. ContextHolds' BY <1>1, <1>2, <1>4 DEF ContextHolds, MemTypes, Calling
<1>6. OneAtATime' /\ ArenaIsMine' /\ AtHome'
  BY <1>2, <1>4 DEF OneAtATime, ArenaIsMine, AtHome, Calling
<1> QED BY <1>3, <1>5, <1>6

LEMMA CompletedKeeps ==
  ASSUME MemInv, NEW c \in Conns, handleRequestCompleted(c)
  PROVE  MemInv'
<1> USE DEF MemInv
<1>1. /\ pc' = [pc EXCEPT ![c] = "gone"] /\ context' = [context EXCEPT ![c] = "NULL"]
      /\ json' = [json EXCEPT ![c] = {}] /\ UNCHANGED thread
      /\ jsonArena' = [jsonArena EXCEPT ![thread[c]] = None]
  BY DEF handleRequestCompleted, Goto, Forget, cleanupRequestJsonArena, Local
<1>2. arena' = [arena EXCEPT ![c] = "freed"]
  <2>1. CASE context[c] = "NULL"
    <3>1. pc[c] = "refused" BY <2>1 DEF handleRequestCompleted, ContextHolds
    <3>2. arena[c] = "freed" /\ UNCHANGED arena
      BY <2>1, <3>1 DEF handleRequestCompleted, ContextHolds
    <3> QED BY <3>2 DEF MemTypes
  <2>2. CASE context[c] # "NULL"
    BY <2>2 DEF handleRequestCompleted, freeArena, ContextHolds, MemTypes
  <2> QED BY <2>1, <2>2
<1>3. \A d \in Conns : pc'[d] = IF d = c THEN "gone" ELSE pc[d]
  BY <1>1 DEF MemTypes
<1>4. \A d \in Conns : pc[d] \in Calling => thread[d] # thread[c] /\ thread[d] \in Threads
  BY DEF handleRequestCompleted, ThreadFree, MemTypes
<1>5. MemTypes' BY <1>1, <1>2 DEF MemTypes, PC, Contexts
<1>6. ContextHolds' BY <1>1, <1>2, <1>3 DEF ContextHolds, MemTypes, Calling
<1>7. OneAtATime' BY <1>1, <1>3 DEF OneAtATime, Calling
<1>8. ArenaIsMine' BY <1>1, <1>3, <1>4 DEF ArenaIsMine, MemTypes, Calling
<1>9. AtHome' BY <1>1 DEF AtHome, MemTypes
<1> QED BY <1>5, <1>6, <1>7, <1>8, <1>9

LEMMA QueueMoves ==
  ASSUME NEW c \in Conns, NEW status, Queue(c, status)
  PROVE  \E l \in {"answered", "refused"} : pc' = [pc EXCEPT ![c] = l]
  BY DEF Queue, Goto

LEMMA UploadKeeps ==
  ASSUME MemInv, NEW c \in Conns, Upload(c)
  PROVE  MemInv'
<1>1. /\ pc[c] = "reading" /\ ThreadFree(thread[c]) /\ initRequestJsonArena(c)
      /\ UNCHANGED <<thread, context, arena, json>>
  BY DEF Upload, handleJsonPostData, post_iterator, processFormField, processFileUpload,
         addFileUploadFails, BeginUpload, connection
<1>2. \E l \in {"reading", "refused"} : pc' = [pc EXCEPT ![c] = l]
  <2>1. CASE UNCHANGED pc BY <1>1, <2>1 DEF MemInv, MemTypes
  <2>2. CASE Goto(c, "refused") BY <2>2 DEF Goto
  <2> QED
    BY <2>1, <2>2 DEF Upload, handleJsonPostData, post_iterator, processFormField,
                      processFileUpload, addFileUploadFails
<1> QED BY <1>1, <1>2, CallKeeps

LEMMA AnsweringCallKeeps ==
  ASSUME MemInv, NEW c \in Conns, AnsweringCall(c)
  PROVE  MemInv'
<1>1. \E l \in {"route", "answered", "refused"} : pc' = [pc EXCEPT ![c] = l]
  BY QueueMoves DEF AnsweringCall, Goto
<1> QED BY <1>1, CallKeeps DEF AnsweringCall, connection

LEMMA HandlerKeeps ==
  ASSUME MemInv, NEW c \in Conns, Handler(c)
  PROVE  MemInv'
<1>1. pc[c] \in Calling /\ UNCHANGED <<thread, context, arena, jsonArena>>
  BY DEF Handler, FindRoute, executeRouteValidation, ValidateForm, executePipelineStep,
         EndReference, EndPipeline, handleRouteResponse, connection, memory, Calling
<1>2. UNCHANGED json \/ jsonArenaMalloc(c)
  BY DEF Handler, FindRoute, executeRouteValidation, ValidateForm, executePipelineStep,
         EndReference, EndPipeline, handleRouteResponse
<1>3. \E l \in Calling \cup {"reading", "answered", "refused"} : pc' = [pc EXCEPT ![c] = l]
  <2>1. CASE FindRoute(c) BY <2>1 DEF FindRoute, Goto, Calling
  <2>2. CASE executeRouteValidation(c)
    BY <2>2, QueueMoves DEF executeRouteValidation, Begin, Goto, Calling
  <2>3. CASE ValidateForm(c)
    BY <2>3, QueueMoves DEF ValidateForm, Begin, Goto, Calling
  <2>4. CASE executePipelineStep(c)
    <3>1. pc' = [pc EXCEPT ![c] = pc[c]]
      BY <2>4 DEF executePipelineStep, MemInv, MemTypes
    <3> QED BY <1>1, <3>1
  <2>5. CASE EndReference(c) BY <2>5 DEF EndReference, Goto, Calling
  <2>6. CASE EndPipeline(c) BY <2>6 DEF EndPipeline, Goto, Calling
  <2>7. CASE handleRouteResponse(c)
    BY <2>7, QueueMoves DEF handleRouteResponse, Goto
  <2> QED BY <2>1, <2>2, <2>3, <2>4, <2>5, <2>6, <2>7 DEF Handler
<1> QED BY <1>1, <1>2, <1>3, InsideKeeps

LEMMA MemNext == MemInv /\ [Next]_vars => MemInv'
<1> SUFFICES ASSUME MemInv, [Next]_vars PROVE MemInv' OBVIOUS
<1>1. ASSUME NEW c \in Conns, NEW m \in Messages[c], FirstCall(c, m) PROVE MemInv'
  BY <1>1, FirstCallKeeps
<1>2. ASSUME NEW c \in Conns, Upload(c) PROVE MemInv' BY <1>2, UploadKeeps
<1>3. ASSUME NEW c \in Conns, AnsweringCall(c) PROVE MemInv' BY <1>3, AnsweringCallKeeps
<1>4. ASSUME NEW c \in Conns, Handler(c) PROVE MemInv' BY <1>4, HandlerKeeps
<1>5. ASSUME NEW c \in Conns, handleRequestCompleted(c) PROVE MemInv'
  BY <1>5, CompletedKeeps
<1>6. CASE UNCHANGED vars
  <2>1. UNCHANGED memVars BY <1>6 DEF vars, memVars, connection, memory
  <2> QED BY <2>1 DEF memVars, MemInv, MemTypes, ContextHolds, OneAtATime, ArenaIsMine, AtHome
<1> QED BY <1>1, <1>2, <1>3, <1>4, <1>5, <1>6 DEF Next

(* A request's arena is live until completion and freed once, whichever    *)
(* call ended the request, for any number of requests and threads.         *)
THEOREM ArenasAreReleasedOnce == Spec => []ReleasedOnce
<1>1. Spec => []MemInv BY MemInit, MemNext, PTL DEF Spec
<1> QED BY <1>1, MemInvImplies, PTL

(* No JSON value of a request is in another request's arena, although all  *)
(* requests of a thread share the pointer that jansson allocates from.     *)
THEOREM JsonNeverLeavesHome == Spec => []JsonStaysHome
<1>1. Spec => []MemInv BY MemInit, MemNext, PTL DEF Spec
<1> QED BY <1>1, MemInvImplies, PTL

-----------------------------------------------------------------------------
(* Steps *)

StepTypes ==
  /\ flags \in [Conns -> SUBSET Flags] /\ value \in [Conns -> SUBSET Flags]
  /\ ran \in [Conns -> Seq(SUBSET Flags)]

(* Between two steps of a pipeline the current value is the latest result. *)
HandedOn ==
  \A c \in Conns : pc[c] \in {"reference", "pipeline"} /\ ran[c] # <<>> =>
                    value[c] = ran[c][Len(ran[c])]

StepInv == StepTypes /\ HandedOn /\ FailureStopsSteps

LEMMA ExecuteReturnsFlags ==
  ASSUME NEW kind, NEW input \in SUBSET Flags, NEW v \in execute(kind, input)
  PROVE  v \in SUBSET Flags
  BY DEF execute, Results, Flags

(* Nothing happens to the variables of the pipeline, or it begins anew. *)
LEMMA RestKeeps ==
  ASSUME MemInv, MemInv', StepInv, NEW c \in Conns,
         flags' \in [Conns -> SUBSET Flags], value' \in [Conns -> SUBSET Flags],
         \A d \in Conns \ {c} : pc'[d] = pc[d] /\ value'[d] = value[d],
         \/ ran' = [ran EXCEPT ![c] = <<>>]
         \/ /\ UNCHANGED ran
            /\ pc'[c] \in {"reference", "pipeline"} => pc'[c] = pc[c] /\ value'[c] = value[c]
  PROVE  StepInv'
<1>1. ran' \in [Conns -> Seq(SUBSET Flags)]
      /\ (\A d \in Conns \ {c} : ran'[d] = ran[d])
      /\ (ran'[c] = <<>> \/ ran'[c] = ran[c])
  <2>1. ran \in [Conns -> Seq(SUBSET Flags)] BY DEF StepInv, StepTypes
  <2>2. CASE ran' = [ran EXCEPT ![c] = <<>>]
    <3>1. <<>> \in Seq(SUBSET Flags) OBVIOUS
    <3> QED BY <2>1, <2>2, <3>1
  <2>3. CASE UNCHANGED ran BY <2>1, <2>3
  <2> QED BY <2>2, <2>3
<1>2. HandedOn' BY <1>1 DEF HandedOn, StepInv
<1>3. FailureStopsSteps'
  <2> SUFFICES ASSUME NEW d \in Conns, NEW i \in DOMAIN ran'[d], i < Len(ran'[d])
               PROVE  ~Stops(ran'[d][i])
    BY DEF FailureStopsSteps
  <2>1. ran'[d] # <<>> BY <1>1
  <2>2. ran'[d] = ran[d] BY <1>1, <2>1
  <2> QED BY <2>2 DEF StepInv, FailureStopsSteps
<1> QED BY <1>1, <1>2, <1>3 DEF StepInv, StepTypes

LEMMA ExecuteKeeps ==
  ASSUME MemInv, MemInv', StepInv, NEW c \in Conns, executePipelineStep(c)
  PROVE  StepInv'
<1>1. flags' = flags /\ pc' = pc /\ pc[c] \in {"reference", "pipeline"}
  BY DEF executePipelineStep, pipe
<1>2. CASE Stops(value[c])
  <2>1. value' = value /\ ran' = ran BY <1>2 DEF executePipelineStep
  <2> QED BY <1>1, <2>1 DEF StepInv, StepTypes, HandedOn, FailureStopsSteps
<1>3. CASE ~Stops(value[c])
  <2>1. PICK v \in execute(Steps(c)[step[c]], value[c]) :
          value' = [value EXCEPT ![c] = v] /\ ran' = [ran EXCEPT ![c] = Append(@, v)]
    BY <1>3 DEF executePipelineStep
  <2>2. v \in SUBSET Flags
    BY ExecuteReturnsFlags DEF StepInv, StepTypes
  <2> DEFINE old == ran[c]
  <2>3. old \in Seq(SUBSET Flags) BY DEF StepInv, StepTypes
  <2>4. /\ Append(old, v) \in Seq(SUBSET Flags)
        /\ Len(Append(old, v)) = Len(old) + 1 /\ Append(old, v)[Len(old) + 1] = v
        /\ \A i \in 1..Len(old) : Append(old, v)[i] = old[i]
    BY <2>2, <2>3
  <2>5. StepTypes' BY <1>1, <2>1, <2>2, <2>4 DEF StepInv, StepTypes
  <2>6. /\ value'[c] = v /\ ran'[c] = Append(old, v)
        /\ \A d \in Conns \ {c} : value'[d] = value[d] /\ ran'[d] = ran[d]
    BY <2>1 DEF StepInv, StepTypes
  <2>7. HandedOn' BY <1>1, <2>3, <2>4, <2>6 DEF HandedOn, StepInv
  <2>8. FailureStopsSteps'
    <3> SUFFICES ASSUME NEW d \in Conns, NEW i \in DOMAIN ran'[d], i < Len(ran'[d])
                 PROVE  ~Stops(ran'[d][i])
      BY DEF FailureStopsSteps
    <3>1. CASE d # c BY <2>6, <3>1 DEF StepInv, FailureStopsSteps
    <3>2. CASE d = c
      <4>1. i \in 1..Len(old) /\ ran'[d][i] = old[i]
        BY <2>3, <2>4, <2>6, <3>2
      <4>2. CASE i < Len(old)
        BY <2>3, <4>1, <4>2 DEF StepInv, FailureStopsSteps
      <4>3. CASE i = Len(old)
        <5>1. old # <<>> BY <4>1
        <5>2. old[i] = value[c] BY <1>1, <4>3, <5>1 DEF StepInv, HandedOn
        <5> QED BY <1>3, <4>1, <5>2
      <4> QED BY <2>3, <4>1, <4>2, <4>3
    <3> QED BY <3>1, <3>2
  <2> QED BY <2>5, <2>7, <2>8 DEF StepInv
<1> QED BY <1>2, <1>3

LEMMA StepInit == Init => StepInv
<1> SUFFICES ASSUME Init PROVE StepInv OBVIOUS
<1>1. <<>> \in Seq(SUBSET Flags) OBVIOUS
<1>2. StepTypes BY <1>1 DEF Init, StepTypes
<1>3. \A c \in Conns : ran[c] = <<>> BY DEF Init
<1> QED BY <1>2, <1>3 DEF StepInv, HandedOn, FailureStopsSteps

(* Apart from its steps, a handler begins a pipeline or ends it. *)
LEMMA HandlerKeepsSteps ==
  ASSUME MemInv, MemInv', StepInv, NEW c \in Conns, Handler(c)
  PROVE  StepInv'
<1> DEFINE others == \A d \in Conns \ {c} : pc'[d] = pc[d] /\ value'[d] = value[d]
<1>0. /\ pc \in [Conns -> PC] /\ ran \in [Conns -> Seq(SUBSET Flags)]
      /\ flags \in [Conns -> SUBSET Flags] /\ value \in [Conns -> SUBSET Flags]
  BY DEF MemInv, MemTypes, StepInv, StepTypes
<1>1. CASE FindRoute(c)
  BY <1>0, <1>1, RestKeeps DEF FindRoute, Goto
<1>2. ASSUME NEW l, Begin(c, l), UNCHANGED flags PROVE StepInv'
  BY <1>0, <1>2, RestKeeps DEF Begin, Goto
<1>3. ASSUME \E l \in {"form", "answered", "refused"} : pc' = [pc EXCEPT ![c] = l],
             flags' \in [Conns -> SUBSET Flags], UNCHANGED <<value, ran>>
      PROVE  StepInv'
  BY <1>0, <1>3, RestKeeps
<1>4. CASE executeRouteValidation(c)
  <2>1. CASE \E l : Begin(c, l) /\ UNCHANGED flags BY <1>2, <2>1
  <2>2. CASE Goto(c, "form") /\ UNCHANGED pipe
    BY <1>0, <1>3, <2>2 DEF Goto, pipe
  <2>3. CASE Queue(c, "400") /\ UNCHANGED pipe
    BY <1>0, <1>3, <2>3, QueueMoves DEF pipe
  <2> QED BY <1>4, <2>1, <2>2, <2>3 DEF executeRouteValidation
<1>5. CASE ValidateForm(c)
  <2>1. CASE Begin(c, "pipeline") /\ UNCHANGED flags BY <1>2, <2>1
  <2>2. CASE /\ flags' = [flags EXCEPT ![c] = @ \cup {"errors"}]
             /\ Queue(c, PageReply(Endpoint(c))) /\ UNCHANGED <<value, step, ran>>
    <3>1. flags' \in [Conns -> SUBSET Flags] BY <1>0, <2>2 DEF Flags
    <3> QED BY <1>3, <2>2, <3>1, QueueMoves
  <2> QED BY <1>5, <2>1, <2>2 DEF ValidateForm
<1>6. CASE executePipelineStep(c) BY <1>6, ExecuteKeeps
<1>7. CASE EndReference(c)
  BY <1>0, <1>3, <1>7 DEF EndReference, Goto
<1>8. CASE EndPipeline(c)
  <2>1. value' = [value EXCEPT ![c] = {}] \/ UNCHANGED value
    BY <1>8 DEF EndPipeline
  <2>2. /\ pc' = [pc EXCEPT ![c] = "respond"] /\ UNCHANGED <<flags, ran>>
    BY <1>8 DEF EndPipeline, Goto
  <2>3. value' \in [Conns -> SUBSET Flags] /\ others /\ pc'[c] = "respond"
    BY <1>0, <2>1, <2>2
  <2> QED BY <1>0, <2>2, <2>3, RestKeeps
<1>9. CASE handleRouteResponse(c)
  <2>1. \E l \in {"reading", "answered", "refused"} : pc' = [pc EXCEPT ![c] = l]
    BY <1>9, QueueMoves DEF handleRouteResponse, Goto
  <2>2. UNCHANGED <<flags, value, ran>> BY <1>9 DEF handleRouteResponse, pipe
  <2> QED BY <1>0, <2>1, <2>2, RestKeeps
<1> QED
  BY <1>1, <1>4, <1>5, <1>6, <1>7, <1>8, <1>9 DEF Handler

(* The other calls do not touch a pipeline, or forget it. *)
LEMMA CallsKeepSteps ==
  ASSUME MemInv, MemInv', StepInv, NEW c \in Conns,
         \/ \E m \in Messages[c] : FirstCall(c, m)
         \/ Upload(c) \/ AnsweringCall(c) \/ handleRequestCompleted(c)
  PROVE  StepInv'
<1>0. /\ pc \in [Conns -> PC] /\ ran \in [Conns -> Seq(SUBSET Flags)]
      /\ flags \in [Conns -> SUBSET Flags] /\ value \in [Conns -> SUBSET Flags]
  BY DEF MemInv, MemTypes, StepInv, StepTypes
<1>1. ASSUME \E l \in {"reading", "route", "answered", "refused"} : pc' = [pc EXCEPT ![c] = l],
             UNCHANGED <<flags, value, ran>>
      PROVE  StepInv'
  BY <1>0, <1>1, RestKeeps
<1>2. CASE \E m \in Messages[c] : FirstCall(c, m)
  BY <1>1, <1>2 DEF FirstCall, Goto, pipe
<1>3. CASE Upload(c)
  <2>1. UNCHANGED <<flags, value, ran>>
    BY <1>3 DEF Upload, handleJsonPostData, post_iterator, processFormField,
                processFileUpload, addFileUploadFails, BeginUpload, pipe
  <2>2. UNCHANGED pc \/ Goto(c, "refused")
    BY <1>3 DEF Upload, handleJsonPostData, post_iterator, processFormField,
                processFileUpload, addFileUploadFails
  <2>3. CASE UNCHANGED pc
    BY <2>1, <2>3 DEF StepInv, StepTypes, HandedOn, FailureStopsSteps
  <2>4. CASE Goto(c, "refused") BY <1>1, <2>1, <2>4 DEF Goto
  <2> QED BY <2>2, <2>3, <2>4
<1>4. CASE AnsweringCall(c)
  BY <1>1, <1>4, QueueMoves DEF AnsweringCall, Goto, pipe
<1>5. CASE handleRequestCompleted(c)
  <2>1. /\ flags' = [flags EXCEPT ![c] = {}] /\ value' = [value EXCEPT ![c] = {}]
        /\ ran' = [ran EXCEPT ![c] = <<>>] /\ pc' = [pc EXCEPT ![c] = "gone"]
    BY <1>5 DEF handleRequestCompleted, Forget, Goto
  <2> QED BY <1>0, <2>1, RestKeeps
<1> QED BY <1>2, <1>3, <1>4, <1>5

LEMMA StepNext == MemInv /\ MemInv' /\ StepInv /\ [Next]_vars => StepInv'
<1> SUFFICES ASSUME MemInv, MemInv', StepInv, [Next]_vars PROVE StepInv' OBVIOUS
<1>1. CASE UNCHANGED vars
  <2>1. UNCHANGED <<pc, flags, value, ran>> BY <1>1 DEF vars, pipe
  <2> QED BY <2>1 DEF StepInv, StepTypes, HandedOn, FailureStopsSteps
<1>2. CASE Next
  BY <1>2, HandlerKeepsSteps, CallsKeepSteps DEF Next
<1> QED BY <1>1, <1>2

(* After a step that failed or redirected no other step of the pipeline is *)
(* executed, for pipelines of any length and whatever the steps return.    *)
THEOREM FailuresStopPipelines == Spec => []FailureStopsSteps
<1>1. Spec => []MemInv BY MemInit, MemNext, PTL DEF Spec
<1>2. Spec => []StepInv BY <1>1, StepInit, StepNext, PTL DEF Spec
<1> QED BY <1>2, PTL DEF StepInv

-----------------------------------------------------------------------------
(* Uploads, pipelines and answers *)

(* What the parts of a request may be. *)
UploadTypes ==
  /\ DOMAIN message = Conns /\ DOMAIN match = Conns
  /\ calls \in [Conns -> 0..MaxCalls]
  /\ entries \in [Conns -> Seq([key : Keys, value : Values])]
  /\ files \in [Conns -> SUBSET Keys]
  /\ disk \in [Conns -> Nat] /\ strays \in [Conns -> Nat]
  /\ step \in [Conns -> Nat] /\ reply \in [Conns -> Replies] /\ faults \in 0..MaxFaults

(* A body has entries of its kind, and a file on disk for each of its      *)
(* files and each that could not be opened.                                *)
BodyHolds(c) ==
  /\ context[c] = "NULL" => entries[c] = <<>> /\ files[c] = {}
  /\ context[c] \in {"POST", "MULTIPART"} => Len(entries[c]) <= MaxFormFields
  /\ context[c] = "POST" => \A i \in DOMAIN entries[c] : entries[c][i].value \in Texts
  /\ context[c] = "JSON_POST" => \A i \in DOMAIN entries[c] : entries[c][i].value \in JsonValues
  /\ IsFiniteSet(files[c]) /\ disk[c] = Cardinality(files[c]) + strays[c]

(* A request that was routed keeps its route, and a context its kind. *)
RouteHolds(c) ==
  /\ message[c] \in Messages[c] \cup {None}
  /\ pc[c] \notin {"idle", "gone"} => message[c] \in Messages[c]
  /\ context[c] # "NULL" =>
       context[c] = IF isBodyMethod(message[c]) THEN RequestType(message[c]) ELSE "GET"
  /\ match[c] = NoMatch \/ \E m \in DOMAIN RouteOf : match[c] = RouteOf[m]
  /\ Routed(c) => match[c] = RouteOf[message[c]]

(* A pipeline of an API: either each step before the next one was executed *)
(* and went well, or the value is that of the last one, which stopped it.   *)
PipelineHolds(c) ==
  /\ pc[c] = "validate" => /\ isBodyMethod(message[c]) /\ flags[c] = {}
                           /\ ran[c] = <<>>
  /\ pc[c] \in {"reference", "form"} => ChecksForm(c)
  /\ Running(c) =>
       /\ ChecksJson(c) => validateJsonFields(c, Endpoint(c).fields)
       /\ ChecksForm(c) => validateFormFields(c, Endpoint(c).fields)
  /\ Running(c) /\ match[c].type = "api" =>
       /\ step[c] \in 1..Len(Pipeline(c)) + 1 /\ Len(ran[c]) < step[c]
       /\ IF ran[c] = <<>> THEN value[c] = {} ELSE value[c] = ran[c][Len(ran[c])]
       /\ ~Stops(value[c]) => Len(ran[c]) = step[c] - 1
  /\ pc[c] = "respond" /\ match[c].type = "api" => step[c] = Len(Pipeline(c)) + 1

OneHolds(c) == BodyHolds(c) /\ RouteHolds(c) /\ PipelineHolds(c)
               /\ (pc[c] = "answered" /\ match[c].type = "api" => Told(c))

RequestInv == MemInv /\ StepInv /\ UploadTypes /\ \A c \in Conns : OneHolds(c)

(* Nothing of a request changes. *)
Same(c) ==
  /\ pc'[c] = pc[c] /\ message'[c] = message[c] /\ context'[c] = context[c]
  /\ entries'[c] = entries[c] /\ files'[c] = files[c]
  /\ disk'[c] = disk[c] /\ strays'[c] = strays[c] /\ match'[c] = match[c]
  /\ flags'[c] = flags[c] /\ value'[c] = value[c] /\ step'[c] = step[c] /\ ran'[c] = ran[c]
  /\ reply'[c] = reply[c]

(* What the site asks of a request is the same as long as its route, its   *)
(* kind and its entries are.                                               *)
SiteStays(c) ==
  /\ Endpoint(c)' = Endpoint(c) /\ Pipeline(c)' = Pipeline(c)
  /\ (ChecksJson(c) <=> ChecksJson(c)') /\ (ChecksForm(c) <=> ChecksForm(c)')
  /\ \A fields : /\ validateJsonFields(c, fields) <=> validateJsonFields(c, fields)'
                 /\ validateFormFields(c, fields) <=> validateFormFields(c, fields)'

LEMMA SiteIsFixed ==
  ASSUME NEW c \in Conns,
         match'[c] = match[c], context'[c] = context[c], entries'[c] = entries[c]
  PROVE  SiteStays(c)
<1>1. /\ Endpoint(c)' = Endpoint(c) /\ Pipeline(c)' = Pipeline(c)
      /\ (ChecksJson(c) <=> ChecksJson(c)') /\ (ChecksForm(c) <=> ChecksForm(c)')
  BY DEF ChecksJson, ChecksForm, Endpoint, Pipeline
<1>2. ASSUME NEW fields
      PROVE  /\ validateJsonFields(c, fields) <=> validateJsonFields(c, fields)'
             /\ validateFormFields(c, fields) <=> validateFormFields(c, fields)'
  BY DEF validateJsonFields, validateFormFields, Broken, Latest, First, Sent
<1> QED BY <1>1, <1>2 DEF SiteStays

LEMMA SameKeeps ==
  ASSUME NEW c \in Conns, OneHolds(c), Same(c)
  PROVE  OneHolds(c)'
<1>1. BodyHolds(c)' BY DEF OneHolds, BodyHolds, Same
<1>2. RouteHolds(c)' BY DEF OneHolds, RouteHolds, Same, Routed
<1>3. SiteStays(c) BY SiteIsFixed DEF Same
<1>5. PipelineHolds(c)'
  BY <1>3 DEF OneHolds, PipelineHolds, Same, Running, SiteStays
<1>6. (pc[c] = "answered" /\ match[c].type = "api" => Told(c))'
  BY <1>3 DEF OneHolds, Told, Same, SiteStays
<1> QED BY <1>1, <1>2, <1>5, <1>6 DEF OneHolds

(* A step of one request keeps what is known of it, and nothing of the     *)
(* others changes.                                                         *)
MovesOnly(c) == UploadTypes' /\ OneHolds(c)' /\ \A d \in Conns \ {c} : Same(d)

LEMMA RequestTypes ==
  ASSUME RequestInv
  PROVE  /\ thread \in [Conns -> Threads] /\ pc \in [Conns -> PC]
         /\ context \in [Conns -> Contexts] /\ UploadTypes
         /\ flags \in [Conns -> SUBSET Flags] /\ value \in [Conns -> SUBSET Flags]
         /\ ran \in [Conns -> Seq(SUBSET Flags)]
         /\ \A c \in Conns : OneHolds(c)
  BY DEF RequestInv, MemInv, MemTypes, StepInv, StepTypes

LEMMA RequestInit == Init => RequestInv
<1> SUFFICES ASSUME Init PROVE RequestInv OBVIOUS
<1>1. MemInv /\ StepInv BY MemInit, StepInit
<1>2. UploadTypes
  <2>1. <<>> \in Seq([key : Keys, value : Values]) OBVIOUS
  <2>2. 0 \in 0..MaxCalls /\ 0 \in 0..MaxFaults BY RequestAssumption
  <2> QED BY <2>1, <2>2 DEF Init, UploadTypes, Replies
<1>3. ASSUME NEW c \in Conns PROVE OneHolds(c)
  <2>1. BodyHolds(c)
    BY FS_EmptySet, RequestAssumption DEF Init, BodyHolds
  <2>2. RouteHolds(c) BY DEF Init, RouteHolds, Routed
  <2>3. PipelineHolds(c) /\ pc[c] # "answered" BY DEF Init, PipelineHolds, Running
  <2> QED BY <2>1, <2>2, <2>3 DEF OneHolds
<1> QED BY <1>1, <1>2, <1>3 DEF RequestInv

LEMMA FirstCallMoves ==
  ASSUME RequestInv, NEW c \in Conns, NEW m \in Messages[c], FirstCall(c, m)
  PROVE  MovesOnly(c)
<1>0. /\ pc \in [Conns -> PC] /\ context \in [Conns -> Contexts] /\ UploadTypes /\ OneHolds(c)
      /\ context[c] = "NULL"
  BY RequestTypes DEF RequestInv, MemInv, ContextHolds, FirstCall
<1>1. PICK l \in {"refused", "reading"}, x \in Contexts :
        /\ pc' = [pc EXCEPT ![c] = l] /\ context' = [context EXCEPT ![c] = x]
        /\ x # "NULL" => x = IF isBodyMethod(m) THEN RequestType(m) ELSE "GET"
  <2>1. CASE isBodyMethod(m) /\ m.content \notin {"json", "multipart", "form"}
    <3>1. context' = [context EXCEPT ![c] = "NULL"] BY <1>0, <2>1 DEF FirstCall
    <3> QED BY <2>1, <3>1 DEF FirstCall, Goto, Contexts
  <2>2. CASE ~(isBodyMethod(m) /\ m.content \notin {"json", "multipart", "form"})
    BY <2>2 DEF FirstCall, Goto, Contexts, RequestType
  <2> QED BY <2>1, <2>2
<1>2. /\ message' = [message EXCEPT ![c] = m]
      /\ UNCHANGED <<calls, entries, files, disk, strays, match, flags, value, step, ran, reply,
                     faults>>
  BY DEF FirstCall, body, pipe
<1>3. /\ pc'[c] = l /\ context'[c] = x /\ message'[c] = m
      /\ \A d \in Conns \ {c} : pc'[d] = pc[d] /\ context'[d] = context[d] /\ message'[d] = message[d]
      /\ DOMAIN message' = Conns
  BY <1>0, <1>1, <1>2 DEF UploadTypes
<1>4. \A d \in Conns \ {c} : Same(d) BY <1>2, <1>3 DEF Same
<1>5. UploadTypes' BY <1>0, <1>2, <1>3 DEF UploadTypes
<1>6. BodyHolds(c)'
  <2>1. entries[c] = <<>> /\ Len(entries[c]) <= MaxFormFields /\ DOMAIN entries[c] = {}
    BY <1>0, RequestAssumption DEF OneHolds, BodyHolds
  <2> QED BY <1>0, <1>2, <1>3, <2>1 DEF OneHolds, BodyHolds
<1>7. RouteHolds(c)' BY <1>0, <1>1, <1>2, <1>3 DEF OneHolds, RouteHolds, Routed
<1>8. PipelineHolds(c)' /\ pc'[c] # "answered" BY <1>3 DEF PipelineHolds, Running
<1> QED BY <1>4, <1>5, <1>6, <1>7, <1>8 DEF MovesOnly, OneHolds

(* A part of a body adds an entry or a file, or ends the request. *)
LEMMA UploadMoves ==
  ASSUME RequestInv, NEW c \in Conns, Upload(c)
  PROVE  MovesOnly(c)
<1>0. /\ pc \in [Conns -> PC] /\ context \in [Conns -> Contexts] /\ UploadTypes /\ OneHolds(c)
  BY RequestTypes
<1>1. /\ pc[c] = "reading" /\ BeginUpload(c)
      /\ UNCHANGED <<message, context, match, flags, value, step, ran, reply>>
      /\ calls[c] < MaxCalls /\ calls' = [calls EXCEPT ![c] = @ + 1]
  BY DEF Upload, handleJsonPostData, post_iterator, processFormField, processFileUpload,
         addFileUploadFails, BeginUpload, connection, pipe
<1>2. /\ \A d \in Conns \ {c} : pc'[d] = pc[d]
      /\ pc'[c] \in {"reading", "refused"}
  <2>1. UNCHANGED pc \/ Goto(c, "refused")
    BY DEF Upload, handleJsonPostData, post_iterator, processFormField, processFileUpload,
           addFileUploadFails
  <2> QED BY <1>0, <1>1, <2>1 DEF Goto
<1> DEFINE Adds(k, v) ==
             /\ entries' = [entries EXCEPT ![c] = Append(@, Entry(k, v))]
             /\ context[c] \in {"POST", "MULTIPART"} =>
                  v \in Texts /\ Len(entries[c]) < MaxFormFields
             /\ context[c] = "JSON_POST" => v \in JsonValues
<1>3. \/ UNCHANGED entries \/ \E k \in Keys, v \in Values : Adds(k, v)
  <2>1. CASE handleJsonPostData(c)
    BY <2>1 DEF handleJsonPostData, Values
  <2>2. ASSUME context[c] \in {"POST", "MULTIPART"}, NEW k \in Keys, NEW v \in Texts,
               StoreEntry(c, k, v)
        PROVE  UNCHANGED entries \/ \E q \in Keys, w \in Values : Adds(q, w)
    BY <2>2 DEF StoreEntry, Values
  <2>3. CASE post_iterator(c) BY <2>2, <2>3 DEF post_iterator
  <2>4. CASE processFormField(c) BY <2>2, <2>4 DEF processFormField
  <2>5. CASE processFileUpload(c) \/ addFileUploadFails(c)
    BY <2>5 DEF processFileUpload, addFileUploadFails
  <2> QED BY <2>1, <2>3, <2>4, <2>5 DEF Upload
<1> DEFINE Entered ==
      /\ entries' \in [Conns -> Seq([key : Keys, value : Values])]
      /\ \A d \in Conns \ {c} : entries'[d] = entries[d]
      /\ context[c] \in {"POST", "MULTIPART"} => Len(entries'[c]) <= MaxFormFields
      /\ context[c] = "POST" => \A i \in DOMAIN entries'[c] : entries'[c][i].value \in Texts
      /\ context[c] = "JSON_POST" =>
           \A i \in DOMAIN entries'[c] : entries'[c][i].value \in JsonValues
<1>4. Entered
  <2>1. entries \in [Conns -> Seq([key : Keys, value : Values])] /\ MaxFormFields \in Nat
    BY <1>0, RequestAssumption DEF UploadTypes
  <2>2. CASE UNCHANGED entries BY <1>0, <2>1, <2>2 DEF OneHolds, BodyHolds
  <2>3. ASSUME NEW k \in Keys, NEW v \in Values, Adds(k, v) PROVE Entered
    <3> DEFINE old == entries[c]
    <3>1. Entry(k, v) \in [key : Keys, value : Values] /\ Entry(k, v).value = v BY DEF Entry
    <3>2. old \in Seq([key : Keys, value : Values]) BY <2>1
    <3>3. /\ Append(old, Entry(k, v)) \in Seq([key : Keys, value : Values])
          /\ Len(Append(old, Entry(k, v))) = Len(old) + 1 /\ Len(old) \in Nat
          /\ DOMAIN Append(old, Entry(k, v)) = 1..Len(old) + 1 /\ DOMAIN old = 1..Len(old)
          /\ Append(old, Entry(k, v))[Len(old) + 1] = Entry(k, v)
          /\ \A i \in 1..Len(old) : Append(old, Entry(k, v))[i] = old[i]
      BY <3>1, <3>2
    <3>4. entries'[c] = Append(old, Entry(k, v)) BY <2>1, <2>3
    <3>5. entries' \in [Conns -> Seq([key : Keys, value : Values])]
          /\ \A d \in Conns \ {c} : entries'[d] = entries[d]
      BY <2>1, <2>3, <3>3
    <3>6. context[c] \in {"POST", "MULTIPART"} => Len(entries'[c]) <= MaxFormFields
      BY <2>1, <2>3, <3>3, <3>4
    <3>7. ASSUME NEW T, v \in T, \A i \in DOMAIN old : old[i].value \in T
          PROVE  \A i \in DOMAIN entries'[c] : entries'[c][i].value \in T
      <4> SUFFICES ASSUME NEW i \in DOMAIN entries'[c] PROVE entries'[c][i].value \in T OBVIOUS
      <4>1. i \in 1..Len(old) \/ i = Len(old) + 1 BY <3>3, <3>4
      <4> QED BY <3>1, <3>3, <3>4, <3>7, <4>1
    <3> QED BY <1>0, <2>3, <3>5, <3>6, <3>7 DEF OneHolds, BodyHolds
  <2> QED BY <1>3, <2>2, <2>3
<1>5. /\ files' \in [Conns -> SUBSET Keys]
      /\ disk' \in [Conns -> Nat] /\ strays' \in [Conns -> Nat] /\ faults' \in 0..MaxFaults
      /\ \A d \in Conns \ {c} : /\ files'[d] = files[d] /\ disk'[d] = disk[d]
                                /\ strays'[d] = strays[d]
      /\ IsFiniteSet(files'[c]) /\ disk'[c] = Cardinality(files'[c]) + strays'[c]
  <2>1. /\ files \in [Conns -> SUBSET Keys]
        /\ disk \in [Conns -> Nat] /\ strays \in [Conns -> Nat] /\ faults \in 0..MaxFaults
        /\ IsFiniteSet(files[c]) /\ disk[c] = Cardinality(files[c]) + strays[c]
        /\ Cardinality(files[c]) \in Nat
    BY <1>0, FS_CardinalityType DEF OneHolds, BodyHolds, UploadTypes
  <2>2. CASE UNCHANGED <<files, disk, strays, faults>> BY <2>1, <2>2
  <2>3. CASE processFileUpload(c)
    <3>1. PICK k \in Keys : /\ files' = [files EXCEPT ![c] = @ \cup {k}]
                            /\ disk' = [disk EXCEPT ![c] = IF k \in files[c] THEN @ ELSE @ + 1]
                            /\ UNCHANGED <<strays, faults>>
      BY <2>3 DEF processFileUpload
    <3>2. /\ IsFiniteSet(files[c] \cup {k})
          /\ Cardinality(files[c] \cup {k}) =
               IF k \in files[c] THEN Cardinality(files[c]) ELSE Cardinality(files[c]) + 1
      BY <2>1, FS_AddElement
    <3>3. /\ files' \in [Conns -> SUBSET Keys] /\ files'[c] = files[c] \cup {k}
          /\ \A d \in Conns \ {c} : files'[d] = files[d]
      BY <2>1, <3>1
    <3>4. /\ disk' \in [Conns -> Nat] /\ \A d \in Conns \ {c} : disk'[d] = disk[d]
          /\ disk'[c] = IF k \in files[c] THEN disk[c] ELSE disk[c] + 1
      BY <2>1, <3>1
    <3> QED BY <2>1, <3>1, <3>2, <3>3, <3>4
  <2>4. CASE addFileUploadFails(c)
    <3>1. UNCHANGED files /\ faults' = faults + 1 /\ faults < MaxFaults
          /\ \/ UNCHANGED <<disk, strays>>
             \/ disk' = [disk EXCEPT ![c] = @ + 1] /\ strays' = [strays EXCEPT ![c] = @ + 1]
      BY <2>4 DEF addFileUploadFails
    <3>2. faults' \in 0..MaxFaults BY <2>1, <3>1, RequestAssumption
    <3> QED BY <2>1, <3>1, <3>2
  <2> QED
    BY <2>2, <2>3, <2>4 DEF Upload, handleJsonPostData, post_iterator, processFormField
<1>6. \A d \in Conns \ {c} : Same(d) BY <1>1, <1>2, <1>4, <1>5 DEF Same
<1>7. calls' \in [Conns -> 0..MaxCalls]
  <2>1. calls[c] + 1 \in 0..MaxCalls
    BY <1>0, <1>1, RequestAssumption DEF UploadTypes
  <2> QED BY <1>0, <1>1, <2>1 DEF UploadTypes
<1>8. UploadTypes' BY <1>0, <1>1, <1>4, <1>5, <1>7 DEF UploadTypes
<1>9. context[c] # "NULL" BY <1>1 DEF RequestInv, MemInv, ContextHolds
<1>10. BodyHolds(c)' BY <1>1, <1>4, <1>5, <1>9 DEF BodyHolds
<1>11. RouteHolds(c)' BY <1>0, <1>1, <1>2 DEF OneHolds, RouteHolds, Routed
<1>12. PipelineHolds(c)' /\ pc'[c] # "answered" BY <1>2 DEF PipelineHolds, Running
<1> QED BY <1>6, <1>8, <1>10, <1>11, <1>12 DEF MovesOnly, OneHolds

LEMMA AnsweringCallMoves ==
  ASSUME RequestInv, NEW c \in Conns, AnsweringCall(c)
  PROVE  MovesOnly(c)
<1>0. /\ pc \in [Conns -> PC] /\ UploadTypes /\ OneHolds(c)
  BY RequestTypes
<1>1. UNCHANGED <<message, context, calls, entries, files, disk, strays, match, flags, value, step,
                  ran, faults>>
  BY DEF AnsweringCall, connection, body, pipe
<1>2. /\ pc[c] = "reading" /\ \A d \in Conns \ {c} : pc'[d] = pc[d] /\ reply'[d] = reply[d]
      /\ pc'[c] \in {"route", "answered", "refused"} /\ reply' \in [Conns -> Replies]
      /\ pc'[c] = "answered" => reply'[c] = "special"
  BY <1>0 DEF AnsweringCall, Queue, Goto, UploadTypes, Replies
<1>3. \A d \in Conns \ {c} : Same(d) BY <1>1, <1>2 DEF Same
<1>4. UploadTypes' BY <1>0, <1>1, <1>2 DEF UploadTypes
<1>5. BodyHolds(c)' BY <1>0, <1>1 DEF OneHolds, BodyHolds
<1>6. RouteHolds(c)' BY <1>0, <1>1, <1>2 DEF OneHolds, RouteHolds, Routed
<1>7. PipelineHolds(c)' BY <1>2 DEF PipelineHolds, Running
<1>8. (pc[c] = "answered" /\ match[c].type = "api" => Told(c))' BY <1>2 DEF Told
<1> QED BY <1>3, <1>4, <1>5, <1>6, <1>7, <1>8 DEF MovesOnly, OneHolds

LEMMA CompletedMoves ==
  ASSUME RequestInv, NEW c \in Conns, handleRequestCompleted(c)
  PROVE  MovesOnly(c)
<1>0. /\ pc \in [Conns -> PC] /\ context \in [Conns -> Contexts] /\ UploadTypes /\ OneHolds(c)
      /\ flags \in [Conns -> SUBSET Flags] /\ value \in [Conns -> SUBSET Flags]
      /\ ran \in [Conns -> Seq(SUBSET Flags)]
  BY RequestTypes
<1>1. /\ pc' = [pc EXCEPT ![c] = "gone"] /\ context' = [context EXCEPT ![c] = "NULL"]
      /\ message' = [message EXCEPT ![c] = None] /\ calls' = [calls EXCEPT ![c] = 0]
      /\ entries' = [entries EXCEPT ![c] = <<>>] /\ match' = [match EXCEPT ![c] = NoMatch]
      /\ flags' = [flags EXCEPT ![c] = {}] /\ value' = [value EXCEPT ![c] = {}]
      /\ step' = [step EXCEPT ![c] = 1] /\ ran' = [ran EXCEPT ![c] = <<>>]
      /\ reply' = [reply EXCEPT ![c] = "none"] /\ UNCHANGED <<strays, faults>>
  BY DEF handleRequestCompleted, Forget, Goto
<1>2. /\ files' = [files EXCEPT ![c] = {}]
      /\ disk' = [disk EXCEPT ![c] = @ - Cardinality(files[c])]
  <2>1. CASE context[c] = "NULL"
    <3>1. files[c] = {} /\ Cardinality(files[c]) = 0
      BY <1>0, <2>1, FS_EmptySet DEF OneHolds, BodyHolds
    <3>2. disk[c] - 0 = disk[c] BY <1>0 DEF UploadTypes
    <3> QED BY <1>0, <2>1, <3>1, <3>2 DEF handleRequestCompleted, UploadTypes
  <2>2. CASE context[c] # "NULL" BY <2>2 DEF handleRequestCompleted
  <2> QED BY <2>1, <2>2
<1>3. disk[c] - Cardinality(files[c]) = strays[c] /\ strays[c] \in Nat
  BY <1>0, FS_CardinalityType DEF OneHolds, BodyHolds, UploadTypes
<1>4. \A d \in Conns \ {c} : Same(d)
  BY <1>0, <1>1, <1>2 DEF Same, UploadTypes
<1>5. UploadTypes'
  <2>1. <<>> \in Seq([key : Keys, value : Values]) /\ 0 \in 0..MaxCalls
    BY RequestAssumption
  <2> QED BY <1>0, <1>1, <1>2, <1>3, <2>1 DEF UploadTypes, Replies
<1>6. BodyHolds(c)'
  <2>1. /\ context'[c] = "NULL" /\ entries'[c] = <<>> /\ files'[c] = {} /\ disk'[c] = strays[c]
        /\ strays'[c] = strays[c] /\ strays[c] \in Nat
    BY <1>0, <1>1, <1>2, <1>3 DEF UploadTypes
  <2> QED BY <2>1, FS_EmptySet DEF BodyHolds
<1>7. RouteHolds(c)' BY <1>0, <1>1 DEF UploadTypes, RouteHolds, Routed
<1>8. PipelineHolds(c)' /\ pc'[c] # "answered" BY <1>0, <1>1 DEF PipelineHolds, Running
<1> QED BY <1>4, <1>5, <1>6, <1>7, <1>8 DEF MovesOnly, OneHolds

(* What a handler leaves alone. *)
LEMMA HandlerLeaves ==
  ASSUME RequestInv, NEW c \in Conns, Handler(c)
  PROVE  UNCHANGED <<message, context, calls, entries, files, disk, strays, faults>>
  BY DEF Handler, FindRoute, executeRouteValidation, ValidateForm, executePipelineStep,
         EndReference, EndPipeline, handleRouteResponse, connection, body

RouteTyped(r) ==
  /\ r.type \in {"api", "page", "none"} /\ r.endpoint \in Nat
  /\ r.type = "api" => r.endpoint \in DOMAIN Apis
  /\ r.type = "page" => r.endpoint \in DOMAIN Pages

LEMMA RoutesAreTyped ==
  ASSUME NEW m \in DOMAIN RouteOf
  PROVE  RouteTyped(RouteOf[m]) /\ RightRoute(RouteOf[m], m.url, m.method)
<1>1. IsPath(m.url) /\ RouteOf[m] = findRoute(m.url, m.method)
  BY SiteAssumption DEF RouteOf
<1> QED BY <1>1, RouteIsRight DEF RouteTyped

LEMMA MatchIsTyped ==
  ASSUME NEW c \in Conns, RouteHolds(c)
  PROVE  RouteTyped(match[c]) /\ IsSequence(Pipeline(c))
<1>1. RouteTyped(match[c])
  BY RoutesAreTyped DEF RouteHolds, RouteTyped, NoMatch
<1>2. IsSequence(<<>>) BY DEF IsSequence
<1> QED BY <1>1, <1>2, SiteAssumption DEF RouteTyped, Pipeline, Endpoint, IsEndpoint

LEMMA FindRouteMoves ==
  ASSUME RequestInv, NEW c \in Conns, FindRoute(c)
  PROVE  MovesOnly(c)
<1>0. /\ pc \in [Conns -> PC] /\ UploadTypes /\ OneHolds(c)
      /\ flags \in [Conns -> SUBSET Flags] /\ value \in [Conns -> SUBSET Flags]
      /\ ran \in [Conns -> Seq(SUBSET Flags)]
  BY RequestTypes
<1>1. UNCHANGED <<message, context, calls, entries, files, disk, strays, faults>>
  BY HandlerLeaves DEF Handler
<1>2. /\ pc[c] = "route" /\ UNCHANGED reply
      /\ pc' = [pc EXCEPT ![c] = IF isBodyMethod(message[c]) THEN "validate" ELSE "pipeline"]
      /\ match' = [match EXCEPT ![c] = RouteOf[message[c]]]
      /\ flags' = [flags EXCEPT ![c] = {}] /\ value' = [value EXCEPT ![c] = {}]
      /\ step' = [step EXCEPT ![c] = 1] /\ ran' = [ran EXCEPT ![c] = <<>>]
  BY DEF FindRoute, Goto
<1>3. \A d \in Conns \ {c} : Same(d)
  BY <1>0, <1>1, <1>2 DEF Same, UploadTypes
<1>4. UploadTypes' BY <1>0, <1>1, <1>2 DEF UploadTypes
<1>5. BodyHolds(c)' BY <1>0, <1>1 DEF OneHolds, BodyHolds
<1>6. message[c] \in Messages[c] /\ message[c] \in DOMAIN RouteOf
      /\ match'[c] = RouteOf[message[c]]
  BY <1>0, <1>2 DEF OneHolds, RouteHolds, RouteOf, UploadTypes
<1>7. RouteHolds(c)'
  BY <1>0, <1>1, <1>2, <1>6 DEF OneHolds, RouteHolds, Routed
<1>8. PipelineHolds(c)'
  <2>1. /\ flags'[c] = {} /\ value'[c] = {} /\ step'[c] = 1 /\ ran'[c] = <<>>
        /\ pc'[c] = IF isBodyMethod(message[c]) THEN "validate" ELSE "pipeline"
    BY <1>0, <1>2 DEF UploadTypes
  <2>2. CASE isBodyMethod(message[c])
    BY <1>1, <2>1, <2>2 DEF PipelineHolds, Running
  <2>3. CASE ~isBodyMethod(message[c])
    <3>1. ~ChecksJson(c)' /\ ~ChecksForm(c)'
      <4>1. context[c] \in {"GET", "NULL"} BY <1>0, <2>3 DEF OneHolds, RouteHolds
      <4> QED BY <1>1, <4>1 DEF ChecksJson, ChecksForm
    <3>2. Len(Pipeline(c)') \in Nat /\ Len(<<>>) = 0
      <4>1. RouteTyped(match'[c]) BY <1>6, RoutesAreTyped
      <4>2. IsSequence(Pipeline(c)')
        <5>1. IsSequence(<<>>) BY DEF IsSequence
        <5> QED BY <4>1, <5>1, SiteAssumption DEF RouteTyped, Pipeline, Endpoint, IsEndpoint
      <4> QED BY <4>2 DEF IsSequence
    <3> QED BY <2>1, <2>3, <3>1, <3>2 DEF PipelineHolds, Running
  <2> QED BY <2>2, <2>3
<1>9. pc'[c] # "answered" BY <1>0, <1>2
<1> QED BY <1>3, <1>4, <1>5, <1>7, <1>8, <1>9 DEF MovesOnly, OneHolds

LEMMA InsideMoves ==
  ASSUME RequestInv, NEW c \in Conns, Handler(c), Routed(c), UNCHANGED match,
         NEW l \in Calling \cup {"reading", "answered", "refused"},
         pc' = [pc EXCEPT ![c] = l],
         step' \in [Conns -> Nat], reply' \in [Conns -> Replies],
         \A d \in Conns \ {c} : /\ flags'[d] = flags[d] /\ value'[d] = value[d]
                                /\ step'[d] = step[d] /\ ran'[d] = ran[d]
                                /\ reply'[d] = reply[d],
         SiteStays(c) => PipelineHolds(c)',
         SiteStays(c) => (pc[c] = "answered" /\ match[c].type = "api" => Told(c))'
  PROVE  MovesOnly(c)
<1>0. /\ pc \in [Conns -> PC] /\ UploadTypes /\ OneHolds(c)
  BY RequestTypes
<1>1. UNCHANGED <<message, context, calls, entries, files, disk, strays, faults>>
  BY HandlerLeaves
<1>2. \A d \in Conns \ {c} : Same(d)
  BY <1>0, <1>1 DEF Same, UploadTypes
<1>3. UploadTypes' BY <1>0, <1>1 DEF UploadTypes
<1>4. BodyHolds(c)' BY <1>0, <1>1 DEF OneHolds, BodyHolds
<1>5. RouteHolds(c)'
  BY <1>0, <1>1 DEF OneHolds, RouteHolds, Routed, Calling
<1>6. SiteStays(c) BY <1>1, SiteIsFixed
<1> QED BY <1>2, <1>3, <1>4, <1>5, <1>6 DEF MovesOnly, OneHolds

LEMMA ValidationMoves ==
  ASSUME RequestInv, NEW c \in Conns, executeRouteValidation(c)
  PROVE  MovesOnly(c)
<1>0. /\ pc \in [Conns -> PC] /\ UploadTypes /\ OneHolds(c) /\ RouteTyped(match[c])
      /\ flags \in [Conns -> SUBSET Flags] /\ value \in [Conns -> SUBSET Flags]
      /\ ran \in [Conns -> Seq(SUBSET Flags)] /\ IsSequence(Pipeline(c))
  BY RequestTypes, MatchIsTyped DEF OneHolds
<1>1. /\ pc[c] = "validate" /\ Handler(c) /\ Routed(c) /\ UNCHANGED <<match, flags>>
      /\ flags[c] = {} /\ ran[c] = <<>>
  BY <1>0 DEF executeRouteValidation, Handler, Routed, OneHolds, PipelineHolds, pipe
<1>2. ASSUME NEW l \in {"reference", "pipeline"}, Begin(c, l), UNCHANGED reply,
             l = "reference" => ChecksForm(c),
             l = "pipeline" => ~ChecksForm(c)
                               /\ (ChecksJson(c) => validateJsonFields(c, Endpoint(c).fields))
      PROVE  MovesOnly(c)
  <2>1. /\ pc' = [pc EXCEPT ![c] = l] /\ pc'[c] = l
        /\ value'[c] = {} /\ step'[c] = 1 /\ ran'[c] = <<>>
        /\ \A d \in Conns \ {c} : /\ value'[d] = value[d] /\ step'[d] = step[d]
                                  /\ ran'[d] = ran[d]
        /\ step' \in [Conns -> Nat]
    BY <1>0, <1>1, <1>2 DEF Begin, Goto, UploadTypes
  <2>2. ASSUME SiteStays(c) PROVE PipelineHolds(c)'
    <3>1. Len(Pipeline(c)) \in Nat /\ Len(<<>>) = 0 BY <1>0 DEF IsSequence
    <3>2. 1 \in 1..Len(Pipeline(c)) + 1 BY <3>1
    <3> QED BY <1>2, <2>1, <2>2, <3>1, <3>2 DEF PipelineHolds, Running, SiteStays
  <2>3. l \in Calling BY DEF Calling
  <2> QED BY <1>0, <1>1, <1>2, <2>1, <2>2, <2>3, InsideMoves DEF UploadTypes
<1>3. CASE ChecksForm(c) /\ Goto(c, "form") /\ UNCHANGED <<pipe, reply>>
  <2>1. pc' = [pc EXCEPT ![c] = "form"] /\ pc'[c] = "form" /\ UNCHANGED <<value, step, ran>>
    BY <1>0, <1>3 DEF Goto, pipe
  <2>2. SiteStays(c) => PipelineHolds(c)'
    BY <1>3, <2>1 DEF PipelineHolds, Running, SiteStays
  <2>3. "form" \in Calling BY DEF Calling
  <2> QED BY <1>0, <1>1, <1>3, <2>1, <2>2, <2>3, InsideMoves DEF UploadTypes
<1>4. CASE ChecksJson(c) /\ Queue(c, "400") /\ UNCHANGED pipe
  <2>1. UNCHANGED <<value, step, ran>> BY <1>4 DEF pipe
  <2>2. PICK l \in {"answered", "refused"} :
          /\ pc' = [pc EXCEPT ![c] = l] /\ reply' \in [Conns -> Replies]
          /\ \A d \in Conns \ {c} : reply'[d] = reply[d]
          /\ l = "answered" => reply'[c] = "400"
    BY <1>0, <1>4 DEF Queue, Goto, UploadTypes, Replies
  <2>3. PipelineHolds(c)'
    BY <1>0, <2>2 DEF PipelineHolds, Running
  <2>4. SiteStays(c) => (pc[c] = "answered" /\ match[c].type = "api" => Told(c))'
    BY <1>0, <1>1, <1>4, <2>1, <2>2 DEF Told, SiteStays
  <2> QED BY <1>0, <1>1, <2>1, <2>2, <2>3, <2>4, InsideMoves DEF UploadTypes
<1> QED BY <1>2, <1>3, <1>4 DEF executeRouteValidation

LEMMA FormMoves ==
  ASSUME RequestInv, NEW c \in Conns, ValidateForm(c)
  PROVE  MovesOnly(c)
<1>0. /\ pc \in [Conns -> PC] /\ UploadTypes /\ OneHolds(c)
      /\ flags \in [Conns -> SUBSET Flags] /\ value \in [Conns -> SUBSET Flags]
      /\ ran \in [Conns -> Seq(SUBSET Flags)]
  BY RequestTypes
<1>1. /\ pc[c] = "form" /\ Handler(c) /\ Routed(c) /\ UNCHANGED match
      /\ ChecksForm(c) /\ match[c].type = "page" /\ ~ChecksJson(c)
  BY <1>0 DEF ValidateForm, Handler, Routed, OneHolds, PipelineHolds, ChecksForm, ChecksJson
<1>2. CASE /\ validateFormFields(c, Endpoint(c).fields)
           /\ Begin(c, "pipeline") /\ UNCHANGED <<flags, json, reply>>
  <2>1. /\ pc' = [pc EXCEPT ![c] = "pipeline"] /\ pc'[c] = "pipeline"
        /\ \A d \in Conns \ {c} : /\ value'[d] = value[d] /\ step'[d] = step[d]
                                  /\ ran'[d] = ran[d]
        /\ step' \in [Conns -> Nat]
    BY <1>0, <1>1, <1>2 DEF Begin, Goto, UploadTypes
  <2>2. SiteStays(c) => PipelineHolds(c)'
    BY <1>1, <1>2, <2>1 DEF PipelineHolds, Running, SiteStays
  <2>3. "pipeline" \in Calling BY DEF Calling
  <2> QED BY <1>0, <1>1, <1>2, <2>1, <2>2, <2>3, InsideMoves DEF UploadTypes
<1>3. CASE /\ flags' = [flags EXCEPT ![c] = @ \cup {"errors"}]
           /\ Queue(c, PageReply(Endpoint(c))) /\ UNCHANGED <<value, step, ran>>
  <2>1. PICK l \in {"answered", "refused"} :
          /\ pc' = [pc EXCEPT ![c] = l] /\ reply' \in [Conns -> Replies]
          /\ \A d \in Conns \ {c} : reply'[d] = reply[d]
    BY <1>0, <1>3 DEF Queue, Goto, PageReply, UploadTypes, Replies
  <2>2. PipelineHolds(c)' BY <1>0, <2>1 DEF PipelineHolds, Running
  <2> QED BY <1>0, <1>1, <1>3, <2>1, <2>2, InsideMoves DEF UploadTypes
<1> QED BY <1>2, <1>3 DEF ValidateForm

LEMMA StepMoves ==
  ASSUME RequestInv, NEW c \in Conns, executePipelineStep(c)
  PROVE  MovesOnly(c)
<1>0. /\ pc \in [Conns -> PC] /\ UploadTypes /\ OneHolds(c)
      /\ flags \in [Conns -> SUBSET Flags] /\ value \in [Conns -> SUBSET Flags]
      /\ ran \in [Conns -> Seq(SUBSET Flags)] /\ IsSequence(Pipeline(c))
  BY RequestTypes, MatchIsTyped DEF OneHolds
<1>1. /\ Handler(c) /\ Routed(c) /\ UNCHANGED <<match, flags, reply>> /\ pc' = pc
      /\ pc' = [pc EXCEPT ![c] = pc[c]] /\ pc[c] \in Calling
      /\ pc[c] \in {"reference", "pipeline"} /\ step' = [step EXCEPT ![c] = @ + 1]
  BY <1>0 DEF executePipelineStep, Handler, Routed, Calling
<1>2. step'[c] = step[c] + 1 /\ step' \in [Conns -> Nat] /\ step[c] \in Nat
  BY <1>0, <1>1 DEF UploadTypes
<1> DEFINE old == ran[c]
<1>3. /\ \A d \in Conns \ {c} : value'[d] = value[d] /\ ran'[d] = ran[d] /\ step'[d] = step[d]
      /\ \/ Stops(value[c]) /\ value'[c] = value[c] /\ ran'[c] = old
         \/ ~Stops(value[c]) /\ ran'[c] = Append(old, value'[c])
            /\ value'[c] \in SUBSET Flags
  <2>1. CASE Stops(value[c])
    <3>1. UNCHANGED <<value, ran>> BY <2>1 DEF executePipelineStep
    <3> QED BY <1>0, <1>1, <2>1, <3>1
  <2>2. CASE ~Stops(value[c])
    <3>1. PICK v \in execute(Steps(c)[step[c]], value[c]) :
            value' = [value EXCEPT ![c] = v] /\ ran' = [ran EXCEPT ![c] = Append(@, v)]
      BY <2>2 DEF executePipelineStep
    <3>2. v \in SUBSET Flags BY <1>0, ExecuteReturnsFlags
    <3> QED BY <1>0, <1>1, <2>2, <3>1, <3>2
  <2> QED BY <2>1, <2>2
<1>4. ASSUME SiteStays(c), pc[c] = "pipeline", match[c].type = "api"
      PROVE  /\ step'[c] \in 1..Len(Pipeline(c)) + 1 /\ Len(ran'[c]) < step'[c]
             /\ IF ran'[c] = <<>> THEN value'[c] = {} ELSE value'[c] = ran'[c][Len(ran'[c])]
             /\ ~Stops(value'[c]) => Len(ran'[c]) = step'[c] - 1
  <2>1. step[c] \in 1..Len(Pipeline(c)) /\ Len(Pipeline(c)) \in Nat
    BY <1>0, <1>4 DEF executePipelineStep, Steps, IsSequence
  <2>2. /\ Len(old) < step[c]
        /\ IF old = <<>> THEN value[c] = {} ELSE value[c] = old[Len(old)]
        /\ ~Stops(value[c]) => Len(old) = step[c] - 1
    BY <1>0, <1>4 DEF OneHolds, PipelineHolds, Running
  <2>3. old \in Seq(SUBSET Flags) /\ Len(old) \in Nat BY <1>0
  <2>4. CASE Stops(value[c]) /\ value'[c] = value[c] /\ ran'[c] = old
    BY <1>2, <2>1, <2>2, <2>3, <2>4
  <2>5. CASE ~Stops(value[c]) /\ ran'[c] = Append(old, value'[c]) /\ value'[c] \in SUBSET Flags
    <3>1. /\ Len(ran'[c]) = Len(old) + 1 /\ ran'[c][Len(old) + 1] = value'[c] /\ ran'[c] # <<>>
      BY <2>3, <2>5
    <3> QED BY <1>2, <2>1, <2>2, <2>3, <2>5, <3>1
  <2> QED BY <1>3, <2>4, <2>5
<1>5. SiteStays(c) => PipelineHolds(c)'
  BY <1>0, <1>1, <1>4 DEF OneHolds, PipelineHolds, Running, SiteStays
<1>6. pc'[c] # "answered" BY <1>1
<1> QED BY <1>0, <1>1, <1>2, <1>3, <1>5, <1>6, InsideMoves DEF UploadTypes

LEMMA EndReferenceMoves ==
  ASSUME RequestInv, NEW c \in Conns, EndReference(c)
  PROVE  MovesOnly(c)
<1>0. /\ pc \in [Conns -> PC] /\ UploadTypes /\ OneHolds(c)
      /\ flags \in [Conns -> SUBSET Flags]
  BY RequestTypes
<1>1. /\ Handler(c) /\ Routed(c) /\ UNCHANGED <<match, value, step, ran, reply>>
      /\ pc' = [pc EXCEPT ![c] = "form"] /\ pc'[c] = "form" /\ "form" \in Calling
      /\ \A d \in Conns \ {c} : flags'[d] = flags[d]
      /\ ChecksForm(c)
  BY <1>0 DEF EndReference, Handler, Routed, Calling, Goto, OneHolds, PipelineHolds
<1>2. SiteStays(c) => PipelineHolds(c)'
  BY <1>1 DEF PipelineHolds, Running, SiteStays
<1> QED BY <1>0, <1>1, <1>2, InsideMoves DEF UploadTypes

LEMMA EndPipelineMoves ==
  ASSUME RequestInv, NEW c \in Conns, EndPipeline(c)
  PROVE  MovesOnly(c)
<1>0. /\ pc \in [Conns -> PC] /\ UploadTypes /\ OneHolds(c)
      /\ value \in [Conns -> SUBSET Flags]
      /\ ran \in [Conns -> Seq(SUBSET Flags)] /\ IsSequence(Pipeline(c))
  BY RequestTypes, MatchIsTyped DEF OneHolds
<1>1. /\ Handler(c) /\ Routed(c) /\ UNCHANGED <<match, flags, step, ran, reply>>
      /\ pc[c] = "pipeline" /\ pc' = [pc EXCEPT ![c] = "respond"] /\ pc'[c] = "respond"
      /\ "respond" \in Calling /\ step[c] > Len(Pipeline(c))
      /\ \A d \in Conns \ {c} : value'[d] = value[d]
      /\ value'[c] = IF Pipeline(c) = <<>> THEN {} ELSE value[c]
  BY <1>0 DEF EndPipeline, Handler, Routed, Calling, Goto, Steps
<1>2. ASSUME SiteStays(c), match[c].type = "api"
      PROVE  /\ step[c] = Len(Pipeline(c)) + 1 /\ Len(ran[c]) < step[c]
             /\ IF ran[c] = <<>> THEN value'[c] = {} ELSE value'[c] = ran[c][Len(ran[c])]
             /\ ~Stops(value'[c]) => Len(ran[c]) = step[c] - 1
  <2>1. /\ step[c] \in 1..Len(Pipeline(c)) + 1 /\ Len(ran[c]) < step[c]
        /\ IF ran[c] = <<>> THEN value[c] = {} ELSE value[c] = ran[c][Len(ran[c])]
        /\ ~Stops(value[c]) => Len(ran[c]) = step[c] - 1
    BY <1>0, <1>1, <1>2 DEF OneHolds, PipelineHolds, Running
  <2>2. Len(Pipeline(c)) \in Nat /\ Len(ran[c]) \in Nat /\ ran[c] \in Seq(SUBSET Flags)
    BY <1>0 DEF IsSequence
  <2>3. step[c] = Len(Pipeline(c)) + 1 BY <1>1, <2>1, <2>2
  <2>4. CASE Pipeline(c) = <<>>
    <3>1. Len(Pipeline(c)) = 0 BY <2>4
    <3>2. ran[c] = <<>> /\ Len(ran[c]) = 0 BY <2>1, <2>2, <2>3, <3>1
    <3> QED BY <1>1, <2>3, <2>4, <3>1, <3>2
  <2>5. CASE Pipeline(c) # <<>> BY <1>1, <2>1, <2>3, <2>5
  <2> QED BY <2>4, <2>5
<1>3. SiteStays(c) => PipelineHolds(c)'
  <2> SUFFICES ASSUME SiteStays(c) PROVE PipelineHolds(c)' OBVIOUS
  <2>1. /\ ChecksJson(c) => validateJsonFields(c, Endpoint(c).fields)
        /\ ChecksForm(c) => validateFormFields(c, Endpoint(c).fields)
    BY <1>0, <1>1 DEF OneHolds, PipelineHolds, Running
  <2>2. Len(Pipeline(c)) \in Nat BY <1>0 DEF IsSequence
  <2> QED BY <1>1, <1>2, <2>1, <2>2 DEF PipelineHolds, Running, SiteStays
<1> QED BY <1>0, <1>1, <1>3, InsideMoves DEF UploadTypes

LEMMA ResponseMoves ==
  ASSUME RequestInv, NEW c \in Conns, handleRouteResponse(c)
  PROVE  MovesOnly(c)
<1>0. /\ pc \in [Conns -> PC] /\ UploadTypes /\ OneHolds(c) /\ RouteTyped(match[c])
      /\ value \in [Conns -> SUBSET Flags]
      /\ ran \in [Conns -> Seq(SUBSET Flags)] /\ IsSequence(Pipeline(c))
  BY RequestTypes, MatchIsTyped DEF OneHolds
<1>1. /\ Handler(c) /\ Routed(c) /\ UNCHANGED <<match, flags, value, step, ran, message>>
      /\ pc[c] = "respond"
  BY <1>0, HandlerLeaves DEF handleRouteResponse, Handler, Routed, pipe
<1>2. Status(c) \in Replies
  BY <1>0 DEF Status, PageReply, Replies, RouteTyped
<1>3. PICK l \in {"reading", "answered", "refused"} :
        /\ pc' = [pc EXCEPT ![c] = l] /\ reply' \in [Conns -> Replies]
        /\ \A d \in Conns \ {c} : reply'[d] = reply[d]
        /\ l = "answered" => reply'[c] = Status(c) /\ "blank" \notin value[c]
  <2>1. CASE "blank" \in value[c]
    BY <1>0, <2>1 DEF handleRouteResponse, Goto, UploadTypes
  <2>2. CASE "blank" \notin value[c]
    <3>1. Queue(c, Status(c)) BY <2>2 DEF handleRouteResponse
    <3>2. CASE Early(c) BY <1>0, <2>2, <3>1, <3>2 DEF Queue, Goto, UploadTypes
    <3>3. CASE ~Early(c)
      <4>1. pc' = [pc EXCEPT ![c] = "answered"] /\ reply' = [reply EXCEPT ![c] = Status(c)]
        BY <3>1, <3>3 DEF Queue, Goto
      <4> QED BY <1>0, <1>2, <2>2, <4>1 DEF UploadTypes
    <3> QED BY <3>2, <3>3
  <2> QED BY <2>1, <2>2
<1>4. PipelineHolds(c)' BY <1>0, <1>3 DEF PipelineHolds, Running
<1>5. ASSUME SiteStays(c), l = "answered", match[c].type = "api" PROVE Told(c)'
  <2> DEFINE executed == Len(ran[c])
             outcome  == IF executed = 0 THEN {} ELSE Last(ran[c])
  <2>1. /\ step[c] = Len(Pipeline(c)) + 1
        /\ IF ran[c] = <<>> THEN value[c] = {} ELSE value[c] = ran[c][Len(ran[c])]
        /\ ~Stops(value[c]) => Len(ran[c]) = step[c] - 1
    BY <1>0, <1>1, <1>5 DEF OneHolds, PipelineHolds, Running
  <2>2. Len(Pipeline(c)) \in Nat /\ ran[c] \in Seq(SUBSET Flags) BY <1>0 DEF IsSequence
  <2>3. outcome = value[c]
    <3>1. CASE ran[c] = <<>> BY <2>1, <3>1
    <3>2. CASE ran[c] # <<>>
      <4>1. executed # 0 BY <2>2, <3>2
      <4> QED BY <2>1, <3>2, <4>1 DEF Last
    <3> QED BY <3>1, <3>2
  <2>4. ~Stops(value[c]) => executed = Len(Pipeline(c)) BY <2>1, <2>2
  <2>5. /\ reply'[c] = Status(c) /\ "blank" \notin value[c] /\ ran'[c] = ran[c]
        /\ message'[c] = message[c] /\ Pipeline(c)' = Pipeline(c)
        /\ (ChecksJson(c) <=> ChecksJson(c)')
    BY <1>1, <1>3, <1>5 DEF SiteStays
  <2> HIDE DEF executed, outcome
  <2>6. CASE "redirect" \in value[c]
    <3>1. reply'[c] = "302" BY <2>5, <2>6 DEF Status
    <3> QED BY <2>3, <2>5, <2>6, <3>1 DEF Told, executed, outcome
  <2>7. CASE "redirect" \notin value[c] /\ "error" \in value[c] /\ message[c].method # "OPTIONS"
    <3>1. reply'[c] = "400" BY <1>5, <2>5, <2>7 DEF Status
    <3> QED BY <2>3, <2>5, <2>7, <3>1 DEF Told, executed, outcome
  <2>8. CASE "redirect" \notin value[c] /\ ~("error" \in value[c] /\ message[c].method # "OPTIONS")
    <3>1. reply'[c] = "200" BY <1>5, <2>5, <2>8 DEF Status
    <3>2. "error" \in value[c] \/ ~Stops(value[c]) BY <2>5, <2>8 DEF Stops
    <3> QED BY <2>3, <2>4, <2>5, <2>8, <3>1, <3>2 DEF Told, executed, outcome
  <2> QED BY <2>6, <2>7, <2>8
<1>6. SiteStays(c) => (pc[c] = "answered" /\ match[c].type = "api" => Told(c))'
  BY <1>0, <1>1, <1>3, <1>5
<1> QED BY <1>0, <1>1, <1>3, <1>4, <1>6, InsideMoves DEF UploadTypes

LEMMA RequestNext == RequestInv /\ [Next]_vars => RequestInv'
<1> SUFFICES ASSUME RequestInv, [Next]_vars PROVE RequestInv' OBVIOUS
<1>1. MemInv' /\ StepInv' BY MemNext, StepNext DEF RequestInv
<1>2. ASSUME NEW c \in Conns, MovesOnly(c) PROVE RequestInv'
  <2>1. ASSUME NEW d \in Conns PROVE OneHolds(d)'
    <3>1. CASE d = c BY <1>2, <3>1 DEF MovesOnly
    <3>2. CASE d # c
      <4>1. Same(d) BY <1>2, <3>2 DEF MovesOnly
      <4> QED BY <4>1, SameKeeps DEF RequestInv
    <3> QED BY <3>1, <3>2
  <2>2. UploadTypes' BY <1>2 DEF MovesOnly
  <2> QED BY <1>1, <2>1, <2>2 DEF RequestInv
<1>3. ASSUME NEW c \in Conns, Handler(c) PROVE MovesOnly(c)
  BY <1>3, FindRouteMoves, ValidationMoves, FormMoves, StepMoves, EndReferenceMoves,
     EndPipelineMoves, ResponseMoves DEF Handler
<1>4. ASSUME NEW c \in Conns, \/ \E m \in Messages[c] : FirstCall(c, m)
                              \/ Upload(c) \/ AnsweringCall(c) \/ Handler(c)
                              \/ handleRequestCompleted(c)
      PROVE  MovesOnly(c)
  BY <1>3, <1>4, FirstCallMoves, UploadMoves, AnsweringCallMoves, CompletedMoves
<1>5. CASE UNCHANGED vars
  <2>1. ASSUME NEW d \in Conns PROVE OneHolds(d)'
    <3>1. Same(d) BY <1>5 DEF Same, vars, connection, body, memory, pipe
    <3> QED BY <3>1, SameKeeps DEF RequestInv
  <2>2. UploadTypes' BY <1>5 DEF RequestInv, UploadTypes, vars, connection, body, memory, pipe
  <2> QED BY <1>1, <2>1, <2>2 DEF RequestInv
<1> QED BY <1>2, <1>4, <1>5 DEF Next

(* Every state of a server satisfies RequestInv: what holds of a body, of  *)
(* a route and of a pipeline at each place of the handler.                 *)
THEOREM RequestInvariant == Spec => []RequestInv
  BY RequestInit, RequestNext, PTL DEF Spec

(* No entry is written behind the table, and the files of a request are    *)
(* removed from the disk with it, except those that could be made but not  *)
(* opened.  (addFileUpload, cleanupFileUploads)                            *)
THEOREM UploadsStaySound == Spec => []UploadsSound
<1>1. RequestInv => UploadsSound
  <2> SUFFICES ASSUME RequestInv PROVE UploadsSound OBVIOUS
  <2>1. \A c \in Conns : RouteTyped(match[c])
    BY MatchIsTyped, RequestTypes DEF OneHolds
  <2>2. TypeOK
    BY <2>1, RequestTypes DEF TypeOK, RequestInv, MemInv, MemTypes, UploadTypes, OneHolds, BodyHolds,
       RouteHolds, RouteTyped
  <2>3. FilesRemoved
    BY DEF FilesRemoved, RequestInv, OneHolds, BodyHolds, MemInv, ContextHolds
  <2> QED BY <2>2, <2>3 DEF UploadsSound
<1> QED BY <1>1, RequestInvariant, PTL

(* The status of an API's answer tells how its pipeline went.              *)
(* (handleApiRequest, executePipeline)                                     *)
THEOREM AnswersTellOutcome == Spec => []AnswerTellsOutcome
<1>1. RequestInv => AnswerTellsOutcome BY DEF RequestInv, OneHolds, AnswerTellsOutcome
<1> QED BY <1>1, RequestInvariant, PTL

(* A request is handled by the right route, with that route's parameters.  *)
(* (findRoute, parseRouteParams)                                           *)
THEOREM RoutesAreRight == Spec => []RoutedRight
<1>1. RequestInv => RoutedRight
  <2> SUFFICES ASSUME RequestInv, NEW c \in Conns, Routed(c)
               PROVE  RightRoute(match[c], message[c].url, message[c].method)
    BY DEF RoutedRight
  <2>1. match[c] = RouteOf[message[c]] /\ message[c] \in Messages[c]
    BY DEF RequestInv, OneHolds, RouteHolds, Routed
  <2>2. message[c] \in DOMAIN RouteOf BY <2>1 DEF RouteOf
  <2> QED BY <2>1, <2>2, RoutesAreTyped
<1> QED BY <1>1, RequestInvariant, PTL

-----------------------------------------------------------------------------
(* Validation *)

(* There are 2^n sets of n numbers, and twice as many of one number more;  *)
(* 2^n is a number, and grows, because of that.                            *)
LEMMA PowerIsNatural ==
  ASSUME NEW n \in Nat
  PROVE  /\ 2^n \in Nat /\ 2^n > 0
         /\ IsFiniteSet(SUBSET (1..n)) /\ Cardinality(SUBSET (1..n)) = 2^n
<1>1. IsFiniteSet(1..n) /\ Cardinality(1..n) = n BY FS_Interval
<1>2. IsFiniteSet(SUBSET (1..n)) /\ Cardinality(SUBSET (1..n)) = 2^n BY <1>1, FS_SUBSET
<1>3. Cardinality(SUBSET (1..n)) \in Nat /\ Cardinality(SUBSET (1..n)) # 0
  <2>1. SUBSET (1..n) # {} OBVIOUS
  <2> QED BY <1>2, <2>1, FS_CardinalityType, FS_EmptySet
<1> QED BY <1>2, <1>3

LEMMA PowerDoubles ==
  ASSUME NEW n \in Nat
  PROVE  2^(n + 1) = 2 * 2^n
<1> DEFINE A == SUBSET (1..n)
           B == {S \cup {n + 1} : S \in A}
           f == [S \in A |-> S \cup {n + 1}]
<1>1. IsFiniteSet(A) /\ Cardinality(A) = 2^n /\ 2^n \in Nat BY PowerIsNatural
<1>2. Cardinality(SUBSET (1..n + 1)) = 2^(n + 1)
  <2>1. n + 1 \in Nat OBVIOUS
  <2> HIDE DEF A, B, f
  <2> QED BY <2>1, PowerIsNatural
<1>3. SUBSET (1..n + 1) = A \cup B
  <2>1. 1..n + 1 = (1..n) \cup {n + 1} OBVIOUS
  <2>2. ASSUME NEW T \in SUBSET (1..n + 1) PROVE T \in A \cup B
    <3>1. CASE n + 1 \in T
      <4>1. T \ {n + 1} \in A BY <2>1
      <4>2. T = (T \ {n + 1}) \cup {n + 1} BY <3>1
      <4> QED BY <4>1, <4>2
    <3>2. CASE n + 1 \notin T BY <2>1, <3>2
    <3> QED BY <3>1, <3>2
  <2>3. ASSUME NEW T \in A \cup B PROVE T \in SUBSET (1..n + 1)
    BY <2>1
  <2> QED BY <2>2, <2>3
<1>4. A \cap B = {}
  <2>1. n + 1 \notin 1..n OBVIOUS
  <2> QED BY <2>1
<1>5. f \in Bijection(A, B)
  <2>1. f \in [A -> B] OBVIOUS
  <2>2. \A S, T \in A : f[S] = f[T] => S = T
    <3> SUFFICES ASSUME NEW S \in A, NEW T \in A, S \cup {n + 1} = T \cup {n + 1}
                 PROVE  S = T
      OBVIOUS
    <3>1. n + 1 \notin S /\ n + 1 \notin T OBVIOUS
    <3> QED BY <3>1
  <2>3. \A T \in B : \E S \in A : f[S] = T OBVIOUS
  <2> HIDE DEF A, B, f
  <2> QED BY <2>1, <2>2, <2>3 DEF Bijection, Injection, Surjection, IsInjective
<1>6. IsFiniteSet(B) /\ Cardinality(B) = Cardinality(A)
  BY <1>1, <1>5, FS_Bijection DEF ExistsBijection
<1>7. Cardinality(A \cup B) = Cardinality(A) + Cardinality(B) - Cardinality(A \cap B)
  BY <1>1, <1>6, FS_Union
<1>8. Cardinality(A \cap B) = 0 BY <1>4, FS_EmptySet
<1> DEFINE p == 2^n
<1>9. Cardinality(A) = p /\ p \in Nat BY <1>1
<1> HIDE DEF A, B, f, p
<1>10. Cardinality(A \cup B) = 2 * p BY <1>6, <1>7, <1>8, <1>9
<1> QED BY <1>2, <1>3, <1>10 DEF p

LEMMA PowerGrows ==
  ASSUME NEW m \in Nat, NEW n \in Nat, m <= n
  PROVE  2^m <= 2^n
<1>1. SUBSET (1..m) \in SUBSET (SUBSET (1..n))
  <2>1. 1..m \subseteq 1..n OBVIOUS
  <2> QED BY <2>1
<1>2. /\ IsFiniteSet(SUBSET (1..n)) /\ Cardinality(SUBSET (1..n)) = 2^n
      /\ Cardinality(SUBSET (1..m)) = 2^m
  BY PowerIsNatural
<1>3. Cardinality(SUBSET (1..m)) <= Cardinality(SUBSET (1..n))
  BY <1>1, <1>2, FS_Subset
<1> QED BY <1>2, <1>3

LEMMA SmallModulo ==
  ASSUME NEW x \in Nat, NEW y \in Nat, x < y
  PROVE  x % y = x
  OBVIOUS

(* atoi returns the number a text spells if an int can hold it. *)
LEMMA AtoiKeepsInts ==
  ASSUME NEW n \in Width(IntBits)
  PROVE  Atoi(n) = n
<1> DEFINE half == 2^(IntBits - 1)
           far  == 2^(LongBits - 1)
<1>1. /\ IntBits - 1 \in Nat /\ LongBits - 1 \in Nat /\ IntBits - 1 <= LongBits - 1
      /\ (IntBits - 1) + 1 = IntBits
  BY ValidationAssumption
<1>2. half \in Nat /\ far \in Nat /\ half > 0 BY <1>1, PowerIsNatural
<1>3. half <= far BY <1>1, PowerGrows
<1>4. 2^IntBits = 2 * half
  <2>1. 2^((IntBits - 1) + 1) = 2 * half BY <1>1, PowerDoubles
  <2> QED BY <1>1, <2>1
<1>5. n \in -half .. half - 1 BY DEF Width
<1>6. Atoi(n) = LET long == IF n < -far THEN -far ELSE IF n > far - 1 THEN far - 1 ELSE n
                IN ((long + half) % (2^IntBits)) - half
  BY DEF Atoi
<1> HIDE DEF half, far
<1>7. n \in Int /\ ~(n < -far) /\ ~(n > far - 1) BY <1>2, <1>3, <1>5
<1>8. Atoi(n) = ((n + half) % (2 * half)) - half BY <1>4, <1>6, <1>7
<1>9. n + half \in Nat /\ 2 * half \in Nat /\ n + half < 2 * half BY <1>2, <1>5
<1>10. (n + half) % (2 * half) = n + half BY <1>9, SmallModulo
<1> QED BY <1>2, <1>7, <1>8, <1>10

(* printf rounds by at most half. *)
LEMMA RoundedIsNear ==
  ASSUME NEW t \in Int
  PROVE  Rounded(t) \in Int /\ 10 * Rounded(t) - 5 <= t /\ t <= 10 * Rounded(t) + 5
<1> DEFINE floor == t \div 10
           rest  == t % 10
<1>1. floor \in Int /\ rest \in 0..9 /\ t = 10 * floor + rest OBVIOUS
<1>2. Rounded(t) = IF rest > 5 \/ (rest = 5 /\ floor % 2 = 1) THEN floor + 1 ELSE floor
  BY DEF Rounded
<1> HIDE DEF floor, rest
<1>3. CASE Rounded(t) = floor + 1 /\ rest >= 5 BY <1>1, <1>3
<1>4. CASE Rounded(t) = floor /\ rest <= 5 BY <1>1, <1>4
<1> QED BY <1>1, <1>2, <1>3, <1>4

LEMMA DigitsArePositive ==
  ASSUME NEW n
  PROVE  Digits(n) \in Nat /\ Digits(n) >= 1
<1> DEFINE D == {d \in 1..8 : 10^d <= Abs(n)}
<1>1. IsFiniteSet(1..8)
  <2>1. 1 \in Int /\ 8 \in Int OBVIOUS
  <2> QED BY ONLY <2>1, FS_Interval
<1>2. D \in SUBSET (1..8) OBVIOUS
<1> HIDE DEF D
<1>3. Cardinality(D) \in Nat BY <1>1, <1>2, FS_Subset, FS_CardinalityType
<1> QED BY <1>3 DEF Digits, D

(* What the rules accept obeys them. *)
LEMMA AcceptedIsObeyed ==
  ASSUME NEW rules, IsRules(rules), NEW v, v # None, IsText(v) \/ IsNumber(v),
         validateField(rules, TextOf(v)), IsInt(v),
         NEW slack \in {0, 5}, IsNumber(v) => slack = 5
  PROVE  Obeys(rules, v, slack)
<1> DEFINE text == TextOf(v)
<1>0. rules.min \in Int /\ rules.max \in Int /\ rules.minLength \in Int /\ rules.maxLength \in Int
  BY DEF IsRules
<1>1. /\ text # None /\ text.matches = v.matches
      /\ text.length = Characters(v) /\ text.length \in Nat
      /\ text.number \in Int \cup {NotANumber}
      /\ IF v.kind = "number" THEN text.number = Rounded(v.tenths) /\ v.tenths \in Int
                              ELSE text.number = v.number
  <2>1. CASE IsText(v)
    BY <2>1 DEF IsText, TextOf, Characters
  <2>2. CASE IsNumber(v)
    <3>1. /\ v.kind = "number" /\ text = Printed(v) /\ v.tenths \in Int /\ text # None
      BY <2>2 DEF IsNumber, TextOf
    <3> DEFINE n == Rounded(v.tenths)
               l == Digits(n) + IF v.tenths < 0 THEN 1 ELSE 0
    <3>2. n \in Int /\ Digits(n) \in Nat BY <3>1, RoundedIsNear, DigitsArePositive
    <3>3. Printed(v) = Text(l, n, v.matches) BY DEF Printed
    <3> HIDE DEF n
    <3>4. l \in Nat BY <3>1, <3>2
    <3> HIDE DEF l
    <3>5. text.length = l /\ text.number = n /\ text.matches = v.matches
      BY <3>1, <3>3 DEF Text
    <3> QED BY <3>1, <3>2, <3>4, <3>5 DEF Characters, n
  <2> QED BY <2>1, <2>2
<1> HIDE DEF text
<1>2. /\ rules.type = "string" =>
           /\ validateLength(rules, text)
           /\ rules.format \in text.matches \cup {None}
      /\ rules.type = "number" => text.number # NotANumber /\ inRange(rules, text.number)
  BY <1>1 DEF validateField, text
<1>3. ASSUME rules.type = "string"
      PROVE  /\ rules.minLength <= Characters(v)
             /\ rules.maxLength > 0 => Characters(v) <= rules.maxLength
             /\ rules.format # None => rules.format \in v.matches
  <2>1. rules.minLength > 0 \/ rules.maxLength > 0 =>
          rules.minLength <= text.length /\ text.length <= rules.maxLength
    BY <1>2, <1>3 DEF validateLength
  <2>2. rules.format \in v.matches \cup {None} BY <1>1, <1>2, <1>3
  <2> QED BY <1>0, <1>1, <2>1, <2>2
<1>4. ASSUME rules.type = "number" PROVE NumberObeys(rules, v, slack)
  <2> DEFINE n == text.number
  <2>1. n \in Int /\ n # NotANumber /\ inRange(rules, n) /\ n \in Width(IntBits)
    BY <1>1, <1>2, <1>4 DEF IsInt, text
  <2>2. rules.min # 0 \/ rules.max # 0 => rules.min <= n /\ n <= rules.max
    BY <2>1, AtoiKeepsInts DEF inRange
  <2>3. Amount(v) \in Int /\ 10 * n - slack <= Amount(v) /\ Amount(v) <= 10 * n + slack
    <3>1. CASE v.kind = "number"
      <4>1. n = Rounded(v.tenths) /\ v.tenths \in Int /\ Amount(v) = v.tenths
        BY <1>1, <3>1 DEF Amount
      <4>2. slack = 5 BY <3>1 DEF IsText
      <4> QED BY <4>1, <4>2, RoundedIsNear
    <3>2. CASE v.kind # "number"
      <4>1. n = v.number /\ Amount(v) = 10 * n BY <1>1, <2>1, <3>2 DEF Amount
      <4> QED BY <2>1, <4>1
    <3> QED BY <3>1, <3>2
  <2>4. Amount(v) # NotANumber BY <2>3, ValidationAssumption
  <2> HIDE DEF n
  <2> QED BY <1>0, <2>1, <2>2, <2>3, <2>4 DEF NumberObeys
<1> QED BY <1>3, <1>4 DEF Obeys

(* The first and the last entry of a field are entries of it. *)
LEMMA SentIsThere ==
  ASSUME NEW c \in Conns, IsSequence(entries[c]), NEW k, Sent(c, k) # {}
  PROVE  /\ Min(Sent(c, k)) \in Sent(c, k) /\ Max(Sent(c, k)) \in Sent(c, k)
         /\ Sent(c, k) \subseteq DOMAIN entries[c]
<1> DEFINE S == Sent(c, k)
<1>1. /\ Len(entries[c]) \in Nat /\ S \subseteq DOMAIN entries[c]
      /\ DOMAIN entries[c] = 1..Len(entries[c])
  BY DEF IsSequence, Sent
<1>2. S \in SUBSET Nat /\ \A i \in S : i <= Len(entries[c])
  <2>1. \A i \in 1..Len(entries[c]) : i \in Nat /\ i <= Len(entries[c]) BY <1>1
  <2> QED BY <1>1, <2>1
<1> HIDE DEF S
<1>3. S # {} BY DEF S
<1>4. PICK i \in S : \A j \in S : i <= j BY <1>2, <1>3, LeastNatural
<1>5. PICK last \in S : \A j \in S : last >= j BY <1>1, <1>2, <1>3, GreatestNatural
<1>6. Min(S) \in S BY <1>4 DEF Min
<1>7. Max(S) \in S BY <1>5 DEF Max
<1> QED BY <1>1, <1>6, <1>7 DEF S

(* The fields of a POST obey the rules of its endpoint when the pipeline   *)
(* runs, those that were sent once and whose number an int can hold: for   *)
(* every rule the parser can store whose test in validateField is defined  *)
(* (IsRules), a required field being one that is there, perhaps empty.     *)
(* (validateJsonFields, validateFormFields, buildBody)                     *)
THEOREM BodiesAreChecked == Spec => []CheckedBodyIsValid
<1>1. RequestInv => CheckedBodyIsValid
  <2> SUFFICES ASSUME RequestInv, NEW c \in Conns, Running(c), message[c].method = "POST"
               PROVE  /\ ChecksJson(c) => \A k \in DOMAIN Endpoint(c).fields :
                           JsonObeyed(Endpoint(c).fields[k], buildBody(c, k))
                      /\ ChecksForm(c) => \A k \in DOMAIN Endpoint(c).fields :
                           (\A i, j \in Sent(c, k) : i = j) =>
                             FormObeyed(Endpoint(c).fields[k], buildBody(c, k))
    BY DEF CheckedBodyIsValid
  <2>0. OneHolds(c) /\ UploadTypes BY RequestTypes
  <2>1. /\ ChecksJson(c) => validateJsonFields(c, Endpoint(c).fields)
        /\ ChecksForm(c) => validateFormFields(c, Endpoint(c).fields)
    BY <2>0 DEF OneHolds, PipelineHolds
  <2>2. IsSequence(entries[c])
    <3>1. entries[c] \in Seq([key : Keys, value : Values]) BY <2>0 DEF UploadTypes
    <3> QED BY <3>1 DEF IsSequence
  <2>3. RouteTyped(match[c]) BY <2>0, MatchIsTyped DEF OneHolds
  <2>4. ASSUME ChecksJson(c), NEW k \in DOMAIN Endpoint(c).fields
        PROVE  JsonObeyed(Endpoint(c).fields[k], buildBody(c, k))
    <3> DEFINE rules == Endpoint(c).fields[k]
               v     == buildBody(c, k)
    <3>1. ~Broken(c) /\ validateField(rules, TextOf(Latest(c, k)))
      BY <2>1, <2>4 DEF validateJsonFields
    <3>2. v = Latest(c, k) /\ context[c] = "JSON_POST"
      BY <2>4, <3>1 DEF ChecksJson, buildBody
    <3>3. IsRules(rules)
      BY <2>3, <2>4, SiteAssumption DEF ChecksJson, Endpoint, RouteTyped, IsEndpoint
    <3> HIDE DEF rules
    <3> SUFFICES JsonObeyed(rules, v) BY DEF rules
    <3>4. CASE Sent(c, k) = {}
      <4>1. v = None BY <3>2, <3>4 DEF Latest
      <4>2. ~rules.required BY <3>1, <3>2, <4>1 DEF validateField, TextOf
      <4> QED BY <4>1, <4>2 DEF JsonObeyed
    <3>5. CASE Sent(c, k) # {}
      <4>1. PICK i \in DOMAIN entries[c] : v = entries[c][i].value
        BY <2>2, <3>2, <3>5, SentIsThere DEF Latest
      <4>2. v \in JsonValues /\ v # NotJson
        BY <2>0, <3>1, <3>2, <4>1 DEF OneHolds, BodyHolds, Broken
      <4>3. v # None /\ (IsText(v) \/ IsNumber(v) \/ v = Other)
        BY <4>2, SiteAssumption
      <4>0. validateField(rules, TextOf(v)) BY <3>1, <3>2
      <4> HIDE DEF v
      <4>4. CASE v = Other
        <5>1. TextOf(v) = None BY <4>4 DEF TextOf, Other
        <5>2. ~rules.required BY <4>0, <5>1 DEF validateField
        <5> QED BY <4>4, <5>2 DEF JsonObeyed
      <4>5. CASE IsText(v) \/ IsNumber(v)
        <5>1. v # Other
          <6>1. v.kind # "other" BY <4>5 DEF IsText, IsNumber
          <6> QED BY <6>1 DEF Other
        <5>2. IsInt(v) => Obeys(rules, v, 5)
          BY <4>0, <3>3, <4>3, <4>5, AcceptedIsObeyed
        <5> QED BY <4>3, <5>1, <5>2 DEF JsonObeyed
      <4> QED BY <4>3, <4>4, <4>5
    <3> QED BY <3>4, <3>5
  <2>5. ASSUME ChecksForm(c), NEW k \in DOMAIN Endpoint(c).fields,
               \A i, j \in Sent(c, k) : i = j
        PROVE  FormObeyed(Endpoint(c).fields[k], buildBody(c, k))
    <3> DEFINE rules == Endpoint(c).fields[k]
               v     == buildBody(c, k)
    <3>1. validateField(rules, First(c, k))
      BY <2>1, <2>5 DEF validateFormFields
    <3>2. v = Latest(c, k) /\ context[c] = "POST"
      BY <2>5 DEF ChecksForm, buildBody
    <3>3. IsRules(rules)
      BY <2>3, <2>5, SiteAssumption DEF ChecksForm, Endpoint, RouteTyped, IsEndpoint
    <3>4. First(c, k) = Latest(c, k)
      BY <2>2, <2>5, SentIsThere DEF First, Latest
    <3> HIDE DEF rules
    <3> SUFFICES FormObeyed(rules, v) BY DEF rules
    <3>5. CASE Sent(c, k) = {}
      <4>1. v = None BY <3>2, <3>5 DEF Latest
      <4>2. ~rules.required BY <3>1, <3>2, <3>4, <4>1 DEF validateField
      <4> QED BY <4>1, <4>2 DEF FormObeyed
    <3>6. CASE Sent(c, k) # {}
      <4>1. PICK i \in DOMAIN entries[c] : v = entries[c][i].value
        BY <2>2, <3>2, <3>6, SentIsThere DEF Latest
      <4>2. v \in Texts BY <2>0, <3>2, <4>1 DEF OneHolds, BodyHolds
      <4>3. v # None /\ IsText(v) BY <4>2, SiteAssumption
      <4>0. validateField(rules, v) BY <3>1, <3>2, <3>4
      <4> HIDE DEF v
      <4>4. TextOf(v) = v /\ ~IsNumber(v) BY <4>3 DEF TextOf, IsText, IsNumber
      <4>5. IsInt(v) => Obeys(rules, v, 0)
        BY <4>0, <3>3, <4>3, <4>4, AcceptedIsObeyed
      <4> QED BY <4>3, <4>5 DEF FormObeyed
    <3> QED BY <3>5, <3>6
  <2> QED BY <2>4, <2>5
<1> QED BY <1>1, RequestInvariant, PTL
=============================================================================
