------------------------------ MODULE Sessions ------------------------------
(***************************************************************************)
(* A manager's session: the auth service issues an access and a refresh      *)
(* token at login, new access tokens on refresh, and revokes the refresh     *)
(* token at logout; the dashboard BFF accepts either kind of token by its     *)
(* signature and expiry alone, for a request or to open a WebSocket, and     *)
(* resolves the manager's areas through a cache, while the geo-service       *)
(* creates places.  A session is named by the jti of its refresh token,      *)
(* which every refresh hands back unchanged.                                 *)
(*                                                                         *)
(* Time passes in ticks.  A token or cache entry is good up to and including *)
(* the tick at which it expires.                                             *)
(***************************************************************************)
EXTENDS Integers

CONSTANTS
  Users, Jtis,
  Requests,      \* the connections browsers have to the BFF at a time
  Regions, Cities, Areas,
  RegionOf, CityOf,  \* of a city, of an area
  RoleOf,        \* of a user
  Jurisdiction,  \* of a user: areas, cities or regions, by role
  AccessTTL, RefreshTTL, ScopeTTL,  \* JWT_ACCESS_TTL_S, ..., in ticks
  MaxDelay,      \* bound: ticks between a SELECT and what is made of its answer
  MaxRestarts    \* bound: restarts of the two services

ASSUME SessionAssumption ==
  /\ Regions \cap Cities = {} /\ Regions \cap Areas = {} /\ Cities \cap Areas = {}
  /\ RegionOf \in [Cities -> Regions] /\ CityOf \in [Areas -> Cities]
  /\ RoleOf \in [Users -> {"area_manager", "city_manager", "regional_manager"}]
  /\ \A u \in Users : Jurisdiction[u] \subseteq
       CASE RoleOf[u] = "area_manager" -> Areas
         [] RoleOf[u] = "city_manager" -> Cities
         [] RoleOf[u] = "regional_manager" -> Regions
  /\ {AccessTTL, RefreshTTL, ScopeTTL, MaxDelay, MaxRestarts} \subseteq Nat

VARIABLES
  accounts,  \* opdb.app_user
  places,    \* opdb.region, opdb.city and opdb.area
  visible,   \* history: ticks since an area was created, up to VisibleMax
  token,     \* opdb.refresh_token: whose it is, if it was revoked
  exp,       \* ticks left of a session's refresh token; -1 when it has expired
  age,       \* history: ticks since its login, up to AgeMax
  out,       \* history: ticks since it was revoked, up to OutMax
  access,    \* ticks left of its newest access token; -1 when it has expired
  refresh,   \* its refresh request: absent, or checked some ticks ago
  scope,     \* _scope_cache: the areas cached for a user and the ticks left
  request,   \* a connection to the BFF: none, a request that is resolving or
             \* was resolved some ticks ago, or an open WebSocket
  served,    \* the answer or push of this step, if any: whose session, which areas
  restarts   \* what has been used of the bound

auth == <<accounts, token, exp, age, out, access, refresh>>
bff  == <<scope, request>>
vars == <<auth, places, visible, bff, served, restarts>>

Silent == served' = {}

Absent   == -1
Expired  == -1
AgeMax == RefreshTTL + AccessTTL + 2 * MaxDelay + 1
OutMax == AccessTTL + 2 * MaxDelay + 1
VisibleMax == ScopeTTL + MaxDelay + 1
NoScope == [areas |-> {}, left |-> Expired]
Stored(found) == [areas |-> found, left |-> ScopeTTL]
NoRequest == [stage |-> "absent"]
Made(j, by) == [stage |-> "resolving", session |-> j, by |-> by, areas |-> {}, delay |-> 0]

Init ==
  /\ accounts = {}
  /\ places = {}
  /\ visible = [a \in Areas |-> 0]
  /\ token \in [Jtis -> [user : Users, state : {"unused"}]]
  /\ exp = [j \in Jtis |-> Expired]
  /\ age = [j \in Jtis |-> 0] /\ out = [j \in Jtis |-> 0]
  /\ access = [j \in Jtis |-> Expired]
  /\ refresh = [j \in Jtis |-> Absent]
  /\ scope = [u \in Users |-> NoScope]
  /\ request = [q \in Requests |-> NoRequest]
  /\ served = {}
  /\ restarts = 0

-----------------------------------------------------------------------------
(* The auth service.                                                         *)

(* A second account with the same e-mail is refused by the unique index.     *)
CreateUser(u) ==
  /\ u \notin accounts
  /\ accounts' = accounts \cup {u}
  /\ UNCHANGED <<places, visible, token, exp, age, out, access, refresh, bff, restarts>> /\ Silent

Store(j)  == token' = [token EXCEPT ![j].state = "active"]
Revoke(j) == token' = [token EXCEPT ![j].state = "revoked"]

(* login: a new row, and with it both tokens.                                *)
Login(j) ==
  /\ token[j].state = "unused"
  /\ token[j].user \in accounts
  /\ Store(j)
  /\ exp' = [exp EXCEPT ![j] = RefreshTTL]
  /\ access' = [access EXCEPT ![j] = AccessTTL]
  /\ UNCHANGED <<accounts, places, visible, age, out, refresh, bff, restarts>> /\ Silent

AnyRow(j) == token[j].state # "unused"   \* mutant: revoked_at is not looked at
Usable(j) == token[j].state = "active"

(* refresh, first half: the token is unexpired and its row is not revoked.   *)
CheckRefresh(j) ==
  /\ exp[j] # Expired
  /\ Usable(j)
  /\ refresh[j] = Absent
  /\ refresh' = [refresh EXCEPT ![j] = 0]
  /\ UNCHANGED <<accounts, places, visible, token, exp, age, out, access, bff, restarts>> /\ Silent

Returned(j) == exp                              \* the same refresh token again

(* The second half: the user is fetched and an access token issued.          *)
IssueAccess(j) ==
  /\ refresh[j] # Absent
  /\ refresh' = [refresh EXCEPT ![j] = Absent]
  /\ access' = [access EXCEPT ![j] = AccessTTL]
  /\ exp' = Returned(j)
  /\ UNCHANGED <<accounts, places, visible, token, age, out, bff, restarts>> /\ Silent

(* logout; of a token already revoked it changes nothing.                    *)
Logout(j) ==
  /\ exp[j] # Expired
  /\ token[j].state = "active"
  /\ Revoke(j)
  /\ UNCHANGED <<accounts, places, visible, exp, age, out, access, refresh, bff, restarts>>
  /\ Silent

-----------------------------------------------------------------------------
(* create_region, create_city and create_area of the geo-service: one INSERT,
   which the foreign key refuses while the enclosing place is missing and the
   unique name when it exists.  Places are never removed or moved.           *)
Create(place) ==
  /\ place \notin places
  /\ places' = places \cup {place}
  /\ UNCHANGED <<visible, auth, bff, restarts>> /\ Silent

CreateRegion(r) == Create(r)
CreateCity(c)   == RegionOf[c] \in places /\ Create(c)
CreateArea(a)   == CityOf[a] \in places /\ Create(a)

-----------------------------------------------------------------------------
(* The BFF: get_current_user and, for a WebSocket, get_current_user_ws.      *)

(* Either token of a session is accepted: their claims are the same, and the
   BFF asks neither what kind a token is nor whether it was revoked.         *)
Unchecked(j) == token[j].state # "unused"   \* mutant: nor whether it has expired
Accepted(j) == access[j] # Expired \/ exp[j] # Expired

Cached(entry) == entry.left # Expired

(* The handlers answer for the areas of the manager's scope and no others; a
   socket subscribes to their channels and stays open, unless it has none.   *)
Channels(j, found) == found # {} \/ RoleOf[token[j].user] = "regional_manager"
Opened(r, found) ==
  [stage |-> "open", session |-> r.session, by |-> r.by, areas |-> found, delay |-> 0]
Answer(q, r, found) ==
  /\ served' = {[session |-> r.session, areas |-> found, by |-> r.by]}
  /\ request' = [request EXCEPT ![q] =
       IF r.by = "ws" /\ Channels(r.session, found) THEN Opened(r, found) ELSE NoRequest]

(* The scope comes from the cache, from an area manager's own claims, or from
   the database.                                                             *)
Request(q, j, by) ==
  LET u == token[j].user IN
  /\ Accepted(j)
  /\ request[q] = NoRequest
  /\ CASE Cached(scope[u]) ->
            Answer(q, Made(j, by), scope[u].areas) /\ UNCHANGED scope
       [] ~Cached(scope[u]) /\ RoleOf[u] = "area_manager" ->
            /\ Answer(q, Made(j, by), Jurisdiction[u])
            /\ scope' = [scope EXCEPT ![u] = Stored(Jurisdiction[u])]
       [] OTHER ->
            /\ request' = [request EXCEPT ![q] = Made(j, by)]
            /\ UNCHANGED scope /\ Silent
  /\ UNCHANGED <<auth, places, visible, restarts>>

(* _resolve_area_ids: the areas of the manager's cities or regions.          *)
InCities(u)  == {a \in places \cap Areas : CityOf[a] \in Jurisdiction[u]}
InRegions(u) == {a \in places \cap Areas : RegionOf[CityOf[a]] \in Jurisdiction[u]}
ByCity(u) == InCities(u)              \* mutant: regional managers get cities too
Resolved(u) == IF RoleOf[u] = "city_manager" THEN InCities(u) ELSE InRegions(u)

Resolve(q) ==
  /\ request[q].stage = "resolving"
  /\ request' = [request EXCEPT ![q].stage = "resolved",
                                ![q].areas = Resolved(token[request[q].session].user)]
  /\ UNCHANGED <<auth, places, visible, scope, restarts>> /\ Silent

Respond(q) ==
  LET u == token[request[q].session].user IN
  /\ request[q].stage = "resolved"
  /\ scope' = [scope EXCEPT ![u] = Stored(request[q].areas)]
  /\ Answer(q, request[q], request[q].areas)
  /\ UNCHANGED <<auth, places, visible, restarts>>

(* ws_alerts forwards what comes on its channels, whatever became of the token
   it was opened with; a regional manager gets the high alerts of every area. *)
Heard(j, found) == IF RoleOf[token[j].user] = "regional_manager" THEN Areas ELSE found
Push(q) ==
  LET r == request[q] IN
  /\ r.stage = "open"
  /\ served' = {[session |-> r.session, areas |-> Heard(r.session, r.areas), by |-> "push"]}
  /\ UNCHANGED <<auth, places, visible, scope, request, restarts>>

(* The browser goes away, which the next message finds out.                  *)
Disconnect(q) ==
  /\ request[q].stage = "open"
  /\ request' = [request EXCEPT ![q] = NoRequest]
  /\ UNCHANGED <<auth, places, visible, scope, restarts>> /\ Silent

(* A service stops: its requests in flight, the BFF's sockets and its cache
   are gone.                                                                 *)
Restart ==
  /\ restarts < MaxRestarts
  /\ restarts' = restarts + 1
  /\ \/ /\ refresh' = [j \in Jtis |-> Absent]
        /\ UNCHANGED <<scope, request>>
     \/ /\ scope' = [u \in Users |-> NoScope]
        /\ request' = [q \in Requests |-> NoRequest]
        /\ UNCHANGED refresh
  /\ UNCHANGED <<accounts, token, exp, age, out, access, places, visible>> /\ Silent

-----------------------------------------------------------------------------
Later(n, most) == IF n < most THEN n + 1 ELSE n
Less(n) == IF n # Expired THEN n - 1 ELSE n
Waits(n) == IF n # Absent THEN n + 1 ELSE n

Waiting(r) == r.stage \in {"resolving", "resolved"}

Kept(entry) == entry                                          \* mutant: never stale
Counted(entry) == [entry EXCEPT !.left = @ - 1]               \* mutant: never removed
Aged(entry) ==
  IF entry.left > 0 THEN [entry EXCEPT !.left = @ - 1] ELSE NoScope

Tick ==
  /\ \A j \in Jtis : refresh[j] < MaxDelay
  /\ \A q \in Requests : Waiting(request[q]) => request[q].delay < MaxDelay
  /\ age' = [j \in Jtis |-> IF token[j].state = "unused" THEN 0 ELSE Later(age[j], AgeMax)]
  /\ out' = [j \in Jtis |-> IF token[j].state = "revoked" THEN Later(out[j], OutMax) ELSE 0]
  /\ visible' = [a \in Areas |-> IF a \in places THEN Later(visible[a], VisibleMax) ELSE 0]
  /\ exp' = [j \in Jtis |-> Less(exp[j])]
  /\ access' = [j \in Jtis |-> Less(access[j])]
  /\ refresh' = [j \in Jtis |-> Waits(refresh[j])]
  /\ scope' = [u \in Users |-> Aged(scope[u])]
  /\ request' = [q \in Requests |-> IF Waiting(request[q])
                                    THEN [request[q] EXCEPT !.delay = @ + 1]
                                    ELSE request[q]]
  /\ UNCHANGED <<accounts, places, token, restarts>> /\ Silent

Next ==
  \/ \E u \in Users : CreateUser(u)
  \/ \E r \in Regions : CreateRegion(r)
  \/ \E c \in Cities : CreateCity(c)
  \/ \E a \in Areas : CreateArea(a)
  \/ \E j \in Jtis : Login(j) \/ CheckRefresh(j) \/ IssueAccess(j) \/ Logout(j)
  \/ \E q \in Requests :
       \/ \E j \in Jtis, by \in {"http", "ws"} : Request(q, j, by)
       \/ Resolve(q) \/ Respond(q) \/ Push(q) \/ Disconnect(q)
  \/ Restart \/ Tick

Spec == Init /\ [][Next]_vars

-----------------------------------------------------------------------------
TypeOK ==
  /\ accounts \subseteq Users /\ places \subseteq Regions \cup Cities \cup Areas
  /\ visible \in [Areas -> 0 .. VisibleMax]
  /\ token \in [Jtis -> [user : Users, state : {"unused", "active", "revoked"}]]
  /\ exp \in [Jtis -> Expired .. RefreshTTL]
  /\ age \in [Jtis -> 0 .. AgeMax] /\ out \in [Jtis -> 0 .. OutMax]
  /\ access \in [Jtis -> Expired .. AccessTTL]
  /\ refresh \in [Jtis -> Absent .. MaxDelay]
  /\ scope \in [Users -> [areas : SUBSET Areas, left : Expired .. ScopeTTL]]
  /\ request \in [Requests -> {NoRequest} \cup
                     [stage : {"resolving", "resolved", "open"}, session : Jtis,
                      by : {"http", "ws"}, areas : SUBSET Areas, delay : 0 .. MaxDelay]]
  /\ served \subseteq [session : Jtis, areas : SUBSET Areas, by : {"http", "ws", "push"}]
  /\ restarts \in 0 .. MaxRestarts

Answers == {s \in served : s.by # "push"}   \* to requests, and sockets opened

(* A logout ends the refreshing: from then on the session is answered, and can
   open a WebSocket, only while its refresh token is good as a bearer or with
   an access token that was out or on its way when the logout came.  A socket
   opened before goes on being served.                                       *)
NotExtendedAfterLogout ==
  \A s \in Answers : \/ out[s.session] <= AccessTTL + 2 * MaxDelay
                     \/ age[s.session] <= RefreshTTL + MaxDelay

(* However often it refreshes, a session is answered, and can open a WebSocket,
   no longer after its login than its refresh token, one last access token and
   the requests on their way last.  An open socket has no such end.          *)
AnswersEnd ==
  \A s \in Answers : age[s.session] <= RefreshTTL + AccessTTL + 2 * MaxDelay

(* The areas a manager is responsible for, whatever the role: those named in
   the jurisdiction, and those of a city or region named in it.              *)
Covers(u) == {a \in Areas : {a, CityOf[a], RegionOf[CityOf[a]]} \cap Jurisdiction[u] # {}}

(* What the BFF takes for a manager's areas never reaches beyond the
   jurisdiction, and misses an area created meanwhile no longer than a cache
   entry lives and a lookup takes, whichever lookup stores its answer last.  An
   open socket keeps to the jurisdiction too, but for the high alerts that
   every regional manager hears; it learns of no area created later.         *)
ScopeCurrent ==
  \A s \in served :
    LET u == token[s.session].user IN
    /\ s.areas \subseteq Covers(u) \/ (s.by = "push" /\ RoleOf[u] = "regional_manager")
    /\ s \in Answers =>
         \A a \in (places \cap Covers(u)) \ s.areas : visible[a] <= ScopeTTL + MaxDelay
=============================================================================
