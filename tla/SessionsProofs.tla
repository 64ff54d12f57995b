--------------------------- MODULE SessionsProofs ---------------------------
(* Theorems about sessions, for any users, sessions, concurrent requests and
   places, any lifetimes of tokens and cache entries and any restarts.      *)
EXTENDS Sessions, TLAPS

LEMMA Lifetimes ==
  /\ AccessTTL \in Nat /\ RefreshTTL \in Nat /\ ScopeTTL \in Nat
  /\ MaxDelay \in Nat /\ MaxRestarts \in Nat
  /\ AgeMax = RefreshTTL + AccessTTL + 2 * MaxDelay + 1
  /\ OutMax = AccessTTL + 2 * MaxDelay + 1
  /\ VisibleMax = ScopeTTL + MaxDelay + 1
  /\ AgeMax \in Nat /\ OutMax \in Nat /\ VisibleMax \in Nat
BY SessionAssumption DEF AgeMax, OutMax, VisibleMax

-----------------------------------------------------------------------------
(* Type correctness.                                                        *)

ScopeEntry == [areas : SUBSET Areas, left : Expired .. ScopeTTL]
Pending == [stage : {"resolving", "resolved", "open"}, session : Jtis,
            by : {"http", "ws"}, areas : SUBSET Areas, delay : 0 .. MaxDelay]
Answered == [session : Jtis, areas : SUBSET Areas, by : {"http", "ws", "push"}]

LEMMA InitType == Init => TypeOK
BY Lifetimes DEF Init, TypeOK, NoScope, Expired, Absent, NoRequest

LEMMA AuthType ==
  ASSUME TypeOK,
         \/ \E u \in Users : CreateUser(u)
         \/ \E j \in Jtis : Login(j) \/ CheckRefresh(j) \/ IssueAccess(j) \/ Logout(j)
  PROVE  TypeOK'
<1> USE Lifetimes DEF bff, auth, Expired, Absent, Silent
<1>1. ASSUME NEW u \in Users, CreateUser(u) PROVE TypeOK'
  BY <1>1 DEF TypeOK, CreateUser
<1>2. ASSUME NEW j \in Jtis, Login(j) PROVE TypeOK'
  <2>1. token' \in [Jtis -> [user : Users, state : {"unused", "active", "revoked"}]]
    <3>1. token \in [Jtis -> [user : Users, state : {"unused", "active", "revoked"}]]
      BY DEF TypeOK
    <3> QED
      BY <1>2, <3>1 DEF Login, Store
  <2>2. exp' \in [Jtis -> Expired .. RefreshTTL] /\ access' \in [Jtis -> Expired .. AccessTTL]
    BY <1>2 DEF TypeOK, Login
  <2> QED
    BY <1>2, <2>1, <2>2 DEF TypeOK, Login
<1>3. ASSUME NEW j \in Jtis, CheckRefresh(j) PROVE TypeOK'
  BY <1>3 DEF TypeOK, CheckRefresh
<1>4. ASSUME NEW j \in Jtis, IssueAccess(j) PROVE TypeOK'
  BY <1>4 DEF TypeOK, IssueAccess, Returned
<1>5. ASSUME NEW j \in Jtis, Logout(j) PROVE TypeOK'
  <2>1. token' \in [Jtis -> [user : Users, state : {"unused", "active", "revoked"}]]
    <3>1. token \in [Jtis -> [user : Users, state : {"unused", "active", "revoked"}]]
      BY DEF TypeOK
    <3> QED
      BY <1>5, <3>1 DEF Logout, Revoke
  <2> QED
    BY <1>5, <2>1 DEF TypeOK, Logout
<1> QED
  BY <1>1, <1>2, <1>3, <1>4, <1>5

LEMMA CreateType ==
  ASSUME TypeOK, NEW place \in Regions \cup Cities \cup Areas, Create(place)
  PROVE  TypeOK'
BY DEF TypeOK, Create, auth, bff, Silent

(* What a request may be answered for.                                      *)
LEMMA ScopesType ==
  ASSUME NEW u \in Users
  PROVE  /\ Resolved(u) \subseteq Areas
         /\ RoleOf[u] = "area_manager" => Jurisdiction[u] \subseteq Areas
<1>1. Resolved(u) \subseteq Areas
  BY DEF Resolved, InCities, InRegions
<1>2. RoleOf[u] = "area_manager" => Jurisdiction[u] \subseteq Areas
  BY SessionAssumption
<1> QED
  BY <1>1, <1>2

(* An answer leaves a socket open or nothing, and changes no cache entry.    *)
LEMMA AnswerType ==
  ASSUME TypeOK, NEW q \in Requests, NEW r \in Pending, NEW found \in SUBSET Areas,
         Answer(q, r, found)
  PROVE  /\ request' \in [Requests -> {NoRequest} \cup Pending]
         /\ served' \subseteq Answered
<1>1. Opened(r, found) \in Pending
  <2>1. 0 \in 0 .. MaxDelay
    BY Lifetimes
  <2>2. r.session \in Jtis /\ r.by \in {"http", "ws"}
    BY DEF Pending
  <2> QED
    BY <2>1, <2>2 DEF Opened, Pending
<1>2. request \in [Requests -> {NoRequest} \cup Pending]
  BY DEF TypeOK, Pending
<1>3. request' = [request EXCEPT ![q] = Opened(r, found)]
      \/ request' = [request EXCEPT ![q] = NoRequest]
  BY DEF Answer
<1>4. request' \in [Requests -> {NoRequest} \cup Pending]
  <2> HIDE DEF Pending
  <2> QED
    BY <1>1, <1>2, <1>3
<1>5. served' \subseteq Answered
  <2>1. served' = {[session |-> r.session, areas |-> found, by |-> r.by]}
    BY DEF Answer
  <2> QED
    BY <2>1 DEF Pending, Answered
<1> QED
  BY <1>4, <1>5

LEMMA RequestType ==
  ASSUME TypeOK, NEW q \in Requests,
         \/ \E j \in Jtis, by \in {"http", "ws"} : Request(q, j, by)
         \/ Resolve(q) \/ Respond(q) \/ Push(q) \/ Disconnect(q)
  PROVE  TypeOK'
<1> USE Lifetimes DEF bff, auth
<1>1. ASSUME NEW j \in Jtis, NEW by \in {"http", "ws"}, Request(q, j, by) PROVE TypeOK'
  <2> DEFINE u == token[j].user
             made == Made(j, by)
  <2>1. u \in Users /\ made \in Pending
    BY DEF TypeOK, Made, Pending
  <2>2. UNCHANGED <<auth, places, visible, restarts>>
    BY <1>1 DEF Request
  <2>3. CASE Cached(scope[u])
    <3>1. Answer(q, made, scope[u].areas) /\ UNCHANGED scope
      BY <1>1, <2>3 DEF Request
    <3>2. scope[u].areas \in SUBSET Areas
      BY <2>1 DEF TypeOK
    <3> HIDE DEF made
    <3>3. request' \in [Requests -> {NoRequest} \cup Pending] /\ served' \subseteq Answered
      BY <2>1, <3>1, <3>2, AnswerType
    <3> QED
      BY <2>2, <3>1, <3>3 DEF TypeOK, Pending, Answered
  <2>4. CASE ~Cached(scope[u]) /\ RoleOf[u] = "area_manager"
    <3>1. /\ Answer(q, made, Jurisdiction[u])
          /\ scope' = [scope EXCEPT ![u] = Stored(Jurisdiction[u])]
      BY <1>1, <2>4 DEF Request
    <3>2. Jurisdiction[u] \in SUBSET Areas
      BY <2>1, <2>4, ScopesType
    <3>3. Stored(Jurisdiction[u]) \in ScopeEntry
      BY <3>2 DEF Stored, ScopeEntry, Expired
    <3> HIDE DEF made
    <3>4. request' \in [Requests -> {NoRequest} \cup Pending] /\ served' \subseteq Answered
      BY <2>1, <3>1, <3>2, AnswerType
    <3> QED
      BY <2>1, <2>2, <3>1, <3>3, <3>4 DEF TypeOK, ScopeEntry, Pending, Answered
  <2>5. CASE ~Cached(scope[u]) /\ RoleOf[u] # "area_manager"
    <3>1. request' = [request EXCEPT ![q] = made] /\ UNCHANGED scope /\ served' = {}
      BY <1>1, <2>5 DEF Request, Silent
    <3> QED
      BY <2>1, <2>2, <3>1 DEF TypeOK, Pending
  <2> QED
    BY <2>3, <2>4, <2>5
<1>2. CASE Resolve(q)
  <2> DEFINE r == request[q]
             found == Resolved(token[r.session].user)
  <2>1. r \in Pending
    BY <1>2 DEF Resolve, TypeOK, NoRequest, Pending
  <2>2. found \subseteq Areas
    BY <2>1, ScopesType DEF TypeOK, Pending
  <2>3. request' = [request EXCEPT ![q] = [r EXCEPT !.stage = "resolved", !.areas = found]]
    BY <1>2 DEF Resolve, TypeOK
  <2>4. [r EXCEPT !.stage = "resolved", !.areas = found] \in Pending
    BY <2>1, <2>2 DEF Pending
  <2> QED
    BY <1>2, <2>3, <2>4 DEF Resolve, TypeOK, Pending, Silent
<1>3. CASE Respond(q)
  <2> DEFINE r == request[q]
             u == token[r.session].user
  <2>1. r \in Pending
    BY <1>3 DEF Respond, TypeOK, NoRequest, Pending
  <2>2. u \in Users /\ Stored(r.areas) \in ScopeEntry /\ r.areas \in SUBSET Areas
    BY <2>1 DEF TypeOK, Pending, Stored, ScopeEntry, Expired
  <2>3. /\ scope' = [scope EXCEPT ![u] = Stored(r.areas)]
        /\ Answer(q, r, r.areas)
        /\ UNCHANGED <<auth, places, visible, restarts>>
    BY <1>3 DEF Respond
  <2> HIDE DEF r, u
  <2>4. request' \in [Requests -> {NoRequest} \cup Pending] /\ served' \subseteq Answered
    BY <2>1, <2>2, <2>3, AnswerType
  <2>5. scope' \in [Users -> ScopeEntry]
    BY <2>2, <2>3 DEF TypeOK, ScopeEntry
  <2> QED
    BY <2>3, <2>4, <2>5 DEF TypeOK, ScopeEntry, Pending, Answered
<1>4. CASE Push(q)
  <2> DEFINE r == request[q]
  <2>1. r \in Pending
    BY <1>4 DEF Push, TypeOK, NoRequest, Pending
  <2>2. Heard(r.session, r.areas) \subseteq Areas
    BY <2>1 DEF Heard, Pending
  <2>3. served' \subseteq Answered
    BY <1>4, <2>1, <2>2 DEF Push, Pending, Answered
  <2> QED
    BY <1>4, <2>3 DEF Push, TypeOK, Answered
<1>5. CASE Disconnect(q)
  BY <1>5 DEF Disconnect, Silent, TypeOK
<1> QED
  BY <1>1, <1>2, <1>3, <1>4, <1>5

LEMMA TickType ==
  ASSUME TypeOK, Tick
  PROVE  TypeOK'
<1> USE Lifetimes DEF Expired, Absent
<1>1. /\ age' \in [Jtis -> 0 .. AgeMax] /\ out' \in [Jtis -> 0 .. OutMax]
      /\ visible' \in [Areas -> 0 .. VisibleMax]
  BY DEF Tick, TypeOK, Later
<1>2. exp' \in [Jtis -> Expired .. RefreshTTL] /\ access' \in [Jtis -> Expired .. AccessTTL]
  <2>1. ASSUME NEW j \in Jtis
        PROVE  /\ Less(exp[j]) \in Expired .. RefreshTTL
               /\ Less(access[j]) \in Expired .. AccessTTL
    <3>1. exp[j] \in Expired .. RefreshTTL /\ access[j] \in Expired .. AccessTTL
      BY DEF TypeOK
    <3> QED
      BY <3>1 DEF Less
  <2> QED
    BY <2>1 DEF Tick
<1>3. refresh' \in [Jtis -> Absent .. MaxDelay]
  BY DEF Tick, TypeOK, Waits
<1>4. scope' \in [Users -> ScopeEntry]
  <2>1. ASSUME NEW u \in Users PROVE Aged(scope[u]) \in ScopeEntry
    <3>1. scope[u] \in ScopeEntry
      BY DEF TypeOK, ScopeEntry
    <3> QED
      BY <3>1 DEF Aged, ScopeEntry, NoScope
  <2> QED
    BY <2>1 DEF Tick
<1>5. request' \in [Requests -> {NoRequest} \cup Pending]
  <2>1. ASSUME NEW q \in Requests, Waiting(request[q])
        PROVE  [request[q] EXCEPT !.delay = @ + 1] \in Pending
    <3>1. request[q] \in Pending /\ request[q].delay < MaxDelay
      BY <2>1 DEF Tick, TypeOK, Pending, Waiting, NoRequest
    <3> QED
      BY <3>1 DEF Pending
  <2>2. request \in [Requests -> {NoRequest} \cup Pending]
    BY DEF TypeOK, Pending
  <2> QED
    BY <2>1, <2>2 DEF Tick
<1>6. served' = {} /\ UNCHANGED <<accounts, places, token, restarts>>
  BY DEF Tick, Silent
<1> QED
  BY <1>1, <1>2, <1>3, <1>4, <1>5, <1>6 DEF TypeOK, ScopeEntry, Pending

LEMMA NextType == TypeOK /\ [Next]_vars => TypeOK'
<1> SUFFICES ASSUME TypeOK, [Next]_vars PROVE TypeOK'
  OBVIOUS
<1>1. CASE \/ \E r \in Regions : CreateRegion(r)
           \/ \E c \in Cities : CreateCity(c)
           \/ \E a \in Areas : CreateArea(a)
  BY <1>1, CreateType DEF CreateRegion, CreateCity, CreateArea
<1>2. CASE Restart
  BY <1>2, Lifetimes DEF Restart, TypeOK, NoScope, Expired, Absent, Silent
<1>3. CASE UNCHANGED vars
  BY <1>3 DEF vars, auth, bff, TypeOK
<1> QED
  BY <1>1, <1>2, <1>3, AuthType, RequestType, TickType DEF Next

(* Tokens, cache entries and requests keep their types and ranges in every
   behaviour.                                                               *)
THEOREM TypeCorrect == Spec => []TypeOK
<1> QED
  BY InitType, NextType, PTL DEF Spec

-----------------------------------------------------------------------------
(* How long a session is answered.  Two clocks run on a session: since its
   login, and since its logout.  A refresh is accepted while the clock is at
   most Base; each thing handed on - the refresh on its way, the access token
   it ends in, the request that token opens - may be used for so much longer.
   The refresh token opens requests too, as long as it lasts.                *)
Clocks == {"login", "logout"}
Clock(c, j) == IF c = "login" THEN age[j] ELSE out[j]
Base(c) == IF c = "login" THEN RefreshTTL ELSE 0
Longest(c) == Base(c) + MaxDelay + AccessTTL
InTime(c, j, late) == Clock(c, j) <= Longest(c) + late \/ age[j] <= RefreshTTL + late

ClocksStarted == \A j \in Jtis :
  /\ token[j].state = "unused" => age[j] = 0
  /\ token[j].state # "revoked" => out[j] = 0
  /\ exp[j] # Expired => age[j] + exp[j] <= RefreshTTL
TokensBounded == \A c \in Clocks, j \in Jtis :
  /\ refresh[j] # Absent => Clock(c, j) <= Base(c) + refresh[j]
  /\ access[j] # Expired => Clock(c, j) + access[j] <= Longest(c)
RequestsBounded == \A c \in Clocks, q \in Requests, j \in Jtis :
  Waiting(request[q]) /\ request[q].session = j => InTime(c, j, request[q].delay)
AnswersBounded == \A c \in Clocks, s \in Answers : InTime(c, s.session, MaxDelay)

Bounded == ClocksStarted /\ TokensBounded /\ RequestsBounded /\ AnswersBounded

LEMMA ClockType ==
  ASSUME TypeOK, NEW c \in Clocks, NEW j \in Jtis
  PROVE  /\ Clock(c, j) \in Nat /\ Base(c) \in Nat /\ Longest(c) \in Nat
         /\ exp[j] \in Expired .. RefreshTTL /\ access[j] \in Expired .. AccessTTL
         /\ refresh[j] \in Absent .. MaxDelay
BY Lifetimes DEF TypeOK, Clock, Base, Longest, Clocks

LEMMA InitBounded == Init => Bounded
<1> SUFFICES ASSUME Init PROVE Bounded
  OBVIOUS
<1>1. ClocksStarted /\ TokensBounded
  BY DEF Init, ClocksStarted, TokensBounded
<1>2. RequestsBounded /\ AnswersBounded
  BY DEF Init, RequestsBounded, AnswersBounded, Waiting, NoRequest, Answers
<1> QED
  BY <1>1, <1>2 DEF Bounded

(* Only time moves the clocks.                                              *)
LEMMA ClocksStand ==
  ASSUME UNCHANGED <<age, out>>
  PROVE  \A c \in Clocks, j \in Jtis : Clock(c, j)' = Clock(c, j)
BY DEF Clock

LEMMA RequestsStand ==
  ASSUME RequestsBounded, UNCHANGED <<age, out, request>>
  PROVE  RequestsBounded'
BY DEF RequestsBounded, Clock, InTime, Longest, Base, Waiting

LEMMA NoAnswer ==
  ASSUME Silent
  PROVE  AnswersBounded'
BY DEF Silent, AnswersBounded, Answers

LEMMA LoginBounded ==
  ASSUME TypeOK, Bounded, NEW j \in Jtis, Login(j)
  PROVE  Bounded'
<1> USE DEF Login, Store, Bounded
<1>1. token[j].state = "unused" /\ age[j] = 0 /\ out[j] = 0
  BY DEF ClocksStarted
<1>2. \A i \in Jtis : i # j => token'[i] = token[i] /\ exp'[i] = exp[i] /\ access'[i] = access[i]
  BY DEF TypeOK
<1>3. token'[j].state = "active" /\ exp'[j] = RefreshTTL /\ access'[j] = AccessTTL
  BY DEF TypeOK
<1>4. UNCHANGED <<age, out, refresh, request>> /\ Silent
  BY DEF bff
<1> HIDE DEF Login
<1>5. ClocksStarted'
  BY <1>1, <1>2, <1>3, <1>4, Lifetimes DEF ClocksStarted
<1>6. TokensBounded'
  <2>1. \A c \in Clocks : Clock(c, j) = 0
    BY <1>1 DEF Clock
  <2> QED
    BY <1>2, <1>3, <1>4, <2>1, ClocksStand, ClockType, Lifetimes
    DEF TokensBounded, Longest
<1>7. RequestsBounded' /\ AnswersBounded'
  BY <1>4, RequestsStand, NoAnswer
<1> QED
  BY <1>5, <1>6, <1>7

LEMMA CheckBounded ==
  ASSUME TypeOK, Bounded, NEW j \in Jtis, CheckRefresh(j)
  PROVE  Bounded'
<1> USE DEF Bounded
<1>1. /\ exp[j] # Expired /\ token[j].state = "active"
      /\ refresh' = [refresh EXCEPT ![j] = 0]
      /\ UNCHANGED <<age, out, token, exp, access, request>> /\ Silent
  BY DEF CheckRefresh, Usable, bff
<1>2. ClocksStarted' /\ RequestsBounded' /\ AnswersBounded'
  BY <1>1, RequestsStand, NoAnswer DEF ClocksStarted
<1>3. \A c \in Clocks : Clock(c, j) <= Base(c)
  <2>1. age[j] + exp[j] <= RefreshTTL /\ out[j] = 0
    BY <1>1 DEF ClocksStarted
  <2>2. age[j] \in Nat /\ exp[j] \in Nat
    BY <1>1, Lifetimes DEF TypeOK, Expired
  <2> QED
    BY <2>1, <2>2, Lifetimes DEF Clocks, Clock, Base
<1>4. TokensBounded'
  <2>1. \A i \in Jtis : refresh'[i] = IF i = j THEN 0 ELSE refresh[i]
    BY <1>1 DEF TypeOK
  <2> QED
    BY <1>1, <1>3, <2>1, ClocksStand, ClockType DEF TokensBounded
<1> QED
  BY <1>2, <1>4

LEMMA IssueBounded ==
  ASSUME TypeOK, Bounded, NEW j \in Jtis, IssueAccess(j)
  PROVE  Bounded'
<1> USE DEF Bounded
<1>1. /\ refresh[j] # Absent
      /\ refresh' = [refresh EXCEPT ![j] = Absent]
      /\ access' = [access EXCEPT ![j] = AccessTTL]
      /\ UNCHANGED <<age, out, token, exp, request>> /\ Silent
  BY DEF IssueAccess, Returned, bff
<1>2. ClocksStarted' /\ RequestsBounded' /\ AnswersBounded'
  BY <1>1, RequestsStand, NoAnswer DEF ClocksStarted
<1>3. \A i \in Jtis : /\ refresh'[i] = IF i = j THEN Absent ELSE refresh[i]
                      /\ access'[i] = IF i = j THEN AccessTTL ELSE access[i]
  BY <1>1 DEF TypeOK
<1>4. ASSUME NEW c \in Clocks PROVE Clock(c, j) + AccessTTL <= Longest(c)
  <2>1. Clock(c, j) <= Base(c) + refresh[j]
    BY <1>1 DEF TokensBounded
  <2> QED
    BY <2>1, ClockType, Lifetimes DEF Longest, Absent
<1>5. TokensBounded'
  BY <1>1, <1>3, <1>4, ClocksStand DEF TokensBounded
<1> QED
  BY <1>2, <1>5

LEMMA LogoutBounded ==
  ASSUME TypeOK, Bounded, NEW j \in Jtis, Logout(j)
  PROVE  Bounded'
<1> USE DEF Bounded
<1>1. /\ token[j].state = "active" /\ token' = [token EXCEPT ![j].state = "revoked"]
      /\ UNCHANGED <<age, out, exp, access, refresh, request>> /\ Silent
  BY DEF Logout, Revoke, bff
<1>2. \A i \in Jtis : token'[i].state = IF i = j THEN "revoked" ELSE token[i].state
  BY <1>1 DEF TypeOK
<1>3. ClocksStarted'
  BY <1>1, <1>2 DEF ClocksStarted
<1>4. TokensBounded' /\ RequestsBounded' /\ AnswersBounded'
  BY <1>1, RequestsStand, NoAnswer DEF TokensBounded, Clock
<1> QED
  BY <1>3, <1>4

(* A request is opened in time, with either token.                          *)
LEMMA OpenedInTime ==
  ASSUME TypeOK, Bounded, NEW j \in Jtis, Accepted(j), NEW c \in Clocks
  PROVE  InTime(c, j, 0) /\ InTime(c, j, MaxDelay)
<1>1. /\ Clock(c, j) \in Nat /\ Longest(c) \in Nat /\ age[j] \in Nat
      /\ exp[j] \in Expired .. RefreshTTL /\ access[j] \in Expired .. AccessTTL
  BY ClockType, Lifetimes DEF TypeOK
<1>2. CASE access[j] # Expired
  <2>1. Clock(c, j) + access[j] <= Longest(c)
    BY <1>2 DEF Bounded, TokensBounded
  <2>2. access[j] \in Nat
    BY <1>1, <1>2, Lifetimes DEF Expired
  <2>3. Clock(c, j) <= Longest(c) + 0 /\ Clock(c, j) <= Longest(c) + MaxDelay
    BY <1>1, <2>1, <2>2, Lifetimes
  <2> QED
    BY <2>3 DEF InTime
<1>3. CASE exp[j] # Expired
  <2>1. age[j] + exp[j] <= RefreshTTL
    BY <1>3 DEF Bounded, ClocksStarted
  <2>2. exp[j] \in Nat
    BY <1>1, <1>3, Lifetimes DEF Expired
  <2>3. age[j] <= RefreshTTL + 0 /\ age[j] <= RefreshTTL + MaxDelay
    BY <1>1, <2>1, <2>2, Lifetimes
  <2> QED
    BY <2>3 DEF InTime
<1> QED
  BY <1>2, <1>3 DEF Accepted

(* An answer takes its request off; a socket it opens is no request.         *)
LEMMA AnswerBounded ==
  ASSUME TypeOK, Bounded, NEW q \in Requests, NEW r \in Pending, NEW found,
         Answer(q, r, found), UNCHANGED <<age, out>>,
         \A c \in Clocks : InTime(c, r.session, MaxDelay)
  PROVE  RequestsBounded' /\ AnswersBounded'
<1>1. \A c \in Clocks : \A j, n : InTime(c, j, n)' <=> InTime(c, j, n)
  BY DEF InTime, Clock, Longest, Base
<1>2. \A p \in Requests : Waiting(request'[p]) => request'[p] = request[p]
  <2>1. ~Waiting(NoRequest) /\ ~Waiting(Opened(r, found))
    BY DEF Waiting, NoRequest, Opened, Pending
  <2>2. \A p \in Requests : \/ request'[p] = request[p]
                            \/ request'[p] = NoRequest
                            \/ request'[p] = Opened(r, found)
    BY DEF Answer, TypeOK
  <2> QED
    BY <2>1, <2>2
<1>3. RequestsBounded'
  <2> SUFFICES ASSUME NEW c \in Clocks, NEW p \in Requests, NEW j \in Jtis,
                      Waiting(request'[p]), request'[p].session = j
               PROVE  InTime(c, j, request'[p].delay)
    BY <1>1 DEF RequestsBounded, Waiting, InTime, Clock, Longest, Base
  <2>1. Waiting(request[p]) /\ request[p].session = j /\ request'[p].delay = request[p].delay
    BY <1>2
  <2> QED
    BY <2>1 DEF Bounded, RequestsBounded
<1>4. AnswersBounded'
  <2>1. \A s \in Answers' : s.session = r.session
    BY DEF Answer, Answers
  <2> QED
    BY <1>1, <2>1 DEF AnswersBounded, Answers
<1> QED
  BY <1>3, <1>4

LEMMA RequestBounded ==
  ASSUME TypeOK, Bounded, NEW q \in Requests,
         \/ \E j \in Jtis, by \in {"http", "ws"} : Request(q, j, by)
         \/ Resolve(q) \/ Respond(q) \/ Push(q) \/ Disconnect(q)
  PROVE  Bounded'
<1>1. UNCHANGED <<age, out, token, exp, access, refresh>>
  BY DEF Request, Resolve, Respond, Push, Disconnect, auth
<1>2. ClocksStarted' /\ TokensBounded'
  BY <1>1 DEF Bounded, ClocksStarted, TokensBounded, Clock
<1>3. \A c \in Clocks : \A j, n : InTime(c, j, n)' <=> InTime(c, j, n)
  BY <1>1 DEF InTime, Clock, Longest, Base
<1>4. ASSUME NEW j \in Jtis, NEW by \in {"http", "ws"}, Request(q, j, by)
      PROVE  RequestsBounded' /\ AnswersBounded'
  <2> DEFINE made == Made(j, by)
  <2>1. made \in Pending /\ made.session = j /\ made.delay = 0
    BY Lifetimes DEF Made, Pending
  <2>2. \A c \in Clocks : InTime(c, j, 0) /\ InTime(c, j, MaxDelay)
    BY <1>4, OpenedInTime DEF Request
  <2>3. \/ \E found : Answer(q, made, found)
        \/ request' = [request EXCEPT ![q] = made] /\ Silent
    BY <1>4 DEF Request
  <2> HIDE DEF made
  <2>4. ASSUME NEW found, Answer(q, made, found)
        PROVE  RequestsBounded' /\ AnswersBounded'
    BY <1>1, <2>1, <2>2, <2>4, AnswerBounded
  <2>5. ASSUME request' = [request EXCEPT ![q] = made], Silent
        PROVE  RequestsBounded' /\ AnswersBounded'
    <3>1. \A p \in Requests : request'[p] = request[p] \/ request'[p] = made
      BY <2>5 DEF TypeOK
    <3>2. RequestsBounded'
      <4> SUFFICES ASSUME NEW c \in Clocks, NEW p \in Requests, NEW i \in Jtis,
                          Waiting(request'[p]), request'[p].session = i
                   PROVE  InTime(c, i, request'[p].delay)
        BY <1>3 DEF RequestsBounded, Waiting, InTime, Clock, Longest, Base
      <4>1. CASE request'[p] = made
        BY <2>1, <2>2, <4>1
      <4>2. CASE request'[p] = request[p]
        BY <4>2 DEF Bounded, RequestsBounded
      <4> QED
        BY <3>1, <4>1, <4>2
    <3> QED
      BY <2>5, <3>2, NoAnswer
  <2> QED
    BY <2>3, <2>4, <2>5
<1>5. ASSUME \A p \in Requests : Waiting(request'[p]) =>
               /\ Waiting(request[p]) /\ request'[p].session = request[p].session
               /\ request'[p].delay = request[p].delay
      PROVE  RequestsBounded'
  <2> SUFFICES ASSUME NEW c \in Clocks, NEW p \in Requests, NEW i \in Jtis,
                      Waiting(request'[p]), request'[p].session = i
               PROVE  InTime(c, i, request'[p].delay)
    BY <1>3 DEF RequestsBounded, Waiting, InTime, Clock, Longest, Base
  <2> QED
    BY <1>5 DEF Bounded, RequestsBounded
<1>6. CASE Resolve(q)
  <2>1. request[q] \in Pending /\ Waiting(request[q])
    BY <1>6 DEF Resolve, TypeOK, Pending, NoRequest, Waiting
  <2>2. \A p \in Requests : Waiting(request'[p]) =>
          /\ Waiting(request[p]) /\ request'[p].session = request[p].session
          /\ request'[p].delay = request[p].delay
    BY <1>6, <2>1 DEF Resolve, TypeOK, Pending
  <2> QED
    BY <1>2, <1>5, <1>6, <2>2, NoAnswer DEF Resolve, Bounded
<1>7. CASE Respond(q)
  <2> DEFINE r == request[q]
  <2>1. r \in Pending /\ Waiting(r) /\ Answer(q, r, r.areas)
    BY <1>7 DEF Respond, TypeOK, Pending, NoRequest, Waiting
  <2>2. ASSUME NEW c \in Clocks PROVE InTime(c, r.session, MaxDelay)
    <3>1. InTime(c, r.session, r.delay) /\ r.session \in Jtis
      BY <2>1 DEF Bounded, RequestsBounded, Pending
    <3>2. /\ Clock(c, r.session) \in Nat /\ Longest(c) \in Nat /\ age[r.session] \in Nat
          /\ r.delay \in 0 .. MaxDelay
      BY <2>1, <3>1, ClockType, Lifetimes DEF TypeOK, Pending
    <3> QED
      BY <3>1, <3>2, Lifetimes DEF InTime
  <2> HIDE DEF r
  <2> QED
    BY <1>1, <1>2, <2>1, <2>2, AnswerBounded DEF Bounded
<1>8. CASE Push(q)
  <2>1. Answers' = {}
    BY <1>8 DEF Push, Answers
  <2> QED
    BY <1>1, <1>2, <1>8, <2>1, RequestsStand DEF Push, Bounded, AnswersBounded
<1>9. CASE Disconnect(q)
  <2>1. \A p \in Requests : Waiting(request'[p]) => request'[p] = request[p]
    BY <1>9 DEF Disconnect, Waiting, NoRequest, TypeOK
  <2> QED
    BY <1>2, <1>5, <1>9, <2>1, NoAnswer DEF Disconnect, Bounded
<1> QED
  BY <1>2, <1>4, <1>6, <1>7, <1>8, <1>9 DEF Bounded

LEMMA TickBounded ==
  ASSUME TypeOK, Bounded, Tick
  PROVE  Bounded'
<1> USE DEF Bounded, Expired, Absent
<1>1. ASSUME NEW j \in Jtis
      PROVE  /\ age'[j] = (IF token[j].state = "unused" THEN 0 ELSE Later(age[j], AgeMax))
             /\ out'[j] = (IF token[j].state = "revoked" THEN Later(out[j], OutMax) ELSE 0)
             /\ exp'[j] = Less(exp[j]) /\ access'[j] = Less(access[j])
             /\ refresh'[j] = Waits(refresh[j])
  BY DEF Tick
<1>2. token' = token /\ Silent
  BY DEF Tick
<1>3. ASSUME NEW j \in Jtis
      PROVE  /\ age[j] \in Nat /\ out[j] \in Nat
             /\ exp[j] \in Int /\ access[j] \in Int /\ refresh[j] \in Int
  BY Lifetimes DEF TypeOK
<1>4. ASSUME NEW c \in Clocks, NEW j \in Jtis
      PROVE  Clock(c, j)' <= Clock(c, j) + 1 /\ Clock(c, j)' \in Nat
  BY <1>1, <1>3, Lifetimes DEF Clock, Clocks, Later
<1>5. ClocksStarted'
  BY <1>1, <1>2, <1>3, Lifetimes DEF ClocksStarted, Later, Less
<1>6. TokensBounded'
  <2> SUFFICES ASSUME NEW c \in Clocks, NEW j \in Jtis
               PROVE  /\ refresh'[j] # Absent => Clock(c, j)' <= Base(c) + refresh'[j]
                      /\ access'[j] # Expired => Clock(c, j)' + access'[j] <= Longest(c)
    BY DEF TokensBounded, Base, Longest
  <2>1. /\ refresh[j] # Absent => Clock(c, j) <= Base(c) + refresh[j]
        /\ access[j] # Expired => Clock(c, j) + access[j] <= Longest(c)
    BY DEF TokensBounded
  <2>2. /\ Clock(c, j)' <= Clock(c, j) + 1 /\ Clock(c, j)' \in Nat
        /\ Clock(c, j) \in Nat /\ Base(c) \in Nat /\ Longest(c) \in Nat
    BY <1>4, ClockType
  <2> QED
    BY <1>1, <1>3, <2>1, <2>2 DEF Less, Waits
<1>7. RequestsBounded'
  <2> SUFFICES ASSUME NEW c \in Clocks, NEW q \in Requests, NEW j \in Jtis,
                      NEW late, late = request'[q].delay,
                      Waiting(request'[q]), request'[q].session = j
               PROVE  InTime(c, j, late)'
    BY DEF RequestsBounded, InTime, Longest, Base, Waiting, Clock
  <2> DEFINE r == request[q]
  <2>1. Waiting(r) /\ request'[q] = [r EXCEPT !.delay = @ + 1]
    BY DEF Tick
  <2>2. r \in Pending
    BY <2>1 DEF TypeOK, Pending, Waiting, NoRequest
  <2>3. r.session = j /\ request'[q].delay = r.delay + 1 /\ r.delay \in Nat
    BY <2>1, <2>2, Lifetimes DEF Pending
  <2>4. InTime(c, j, r.delay)
    BY <2>1, <2>3 DEF RequestsBounded
  <2>5. /\ Clock(c, j)' <= Clock(c, j) + 1 /\ Clock(c, j)' \in Nat
        /\ Clock(c, j) \in Nat /\ Longest(c) \in Nat
    BY <1>4, ClockType
  <2>6. age'[j] <= age[j] + 1 /\ age'[j] \in Nat /\ age[j] \in Nat
    BY <1>1, <1>3, Lifetimes DEF Later
  <2>7. Longest(c)' = Longest(c)
    BY DEF Longest, Base
  <2> HIDE DEF r
  <2>8. Clock(c, j)' <= Longest(c) + late \/ age'[j] <= RefreshTTL + late
    BY <2>3, <2>4, <2>5, <2>6, Lifetimes DEF InTime
  <2> QED
    BY <2>7, <2>8 DEF InTime
<1>8. AnswersBounded'
  BY <1>2, NoAnswer
<1> QED
  BY <1>5, <1>6, <1>7, <1>8

LEMMA NextBounded == TypeOK /\ Bounded /\ [Next]_vars => Bounded'
<1> SUFFICES ASSUME TypeOK, Bounded, [Next]_vars PROVE Bounded'
  OBVIOUS
<1>1. ASSUME UNCHANGED <<token, exp, age, out, access, refresh, request>>,
             Silent \/ UNCHANGED served
      PROVE  Bounded'
  <2>1. ClocksStarted' /\ TokensBounded'
    BY <1>1 DEF Bounded, ClocksStarted, TokensBounded, Clock
  <2>2. RequestsBounded'
    BY <1>1, RequestsStand DEF Bounded
  <2>3. AnswersBounded'
    <3>1. CASE UNCHANGED served
      BY <1>1, <3>1 DEF Bounded, AnswersBounded, Answers, InTime, Clock, Longest, Base
    <3> QED
      BY <1>1, <3>1, NoAnswer
  <2> QED
    BY <2>1, <2>2, <2>3 DEF Bounded
<1>2. CASE \/ \E u \in Users : CreateUser(u)
           \/ \E r \in Regions : CreateRegion(r)
           \/ \E c \in Cities : CreateCity(c)
           \/ \E a \in Areas : CreateArea(a)
           \/ UNCHANGED vars
  <2>1. UNCHANGED <<token, exp, age, out, access, refresh, request>> /\ (Silent \/ UNCHANGED served)
    BY <1>2 DEF CreateUser, CreateRegion, CreateCity, CreateArea, Create, vars, auth, bff
  <2> QED
    BY <1>1, <2>1
<1>3. CASE Restart
  <2>1. UNCHANGED <<token, exp, age, out, access>> /\ Silent
    BY <1>3 DEF Restart
  <2>2. ClocksStarted' /\ AnswersBounded'
    BY <2>1, NoAnswer DEF Bounded, ClocksStarted
  <2>3. CASE refresh' = [j \in Jtis |-> Absent] /\ UNCHANGED <<scope, request>>
    <3>1. TokensBounded'
      BY <2>1, <2>3 DEF Bounded, TokensBounded, Clock
    <3> QED
      BY <2>1, <2>2, <2>3, <3>1, RequestsStand DEF Bounded
  <2>4. CASE UNCHANGED refresh /\ request' = [q \in Requests |-> NoRequest]
    <3>1. TokensBounded'
      BY <2>1, <2>4 DEF Bounded, TokensBounded, Clock
    <3>2. RequestsBounded'
      BY <2>4 DEF RequestsBounded, Waiting, NoRequest
    <3> QED
      BY <2>2, <3>1, <3>2 DEF Bounded
  <2> QED
    BY <1>3, <2>3, <2>4 DEF Restart
<1> QED
  BY <1>2, <1>3, LoginBounded, CheckBounded, IssueBounded, LogoutBounded, RequestBounded,
     TickBounded DEF Next

LEMMA BoundedCorrect == Spec => []Bounded
<1> QED
  BY InitBounded, NextBounded, TypeCorrect, PTL DEF Spec

LEMMA AnsweredSessions == TypeOK => \A s \in Answers : s.session \in Jtis
BY DEF TypeOK, Answers

(* A logged-out session is answered only while its refresh token is good as a
   bearer, or as one access token and two delays allow, for any number of
   refreshes and requests on their way.                                     *)
THEOREM NotExtendedAfterLogoutAlways == Spec => []NotExtendedAfterLogout
<1>1. TypeOK /\ Bounded => NotExtendedAfterLogout
  <2> SUFFICES ASSUME TypeOK, Bounded, NEW s \in Answers
               PROVE  \/ out[s.session] <= AccessTTL + 2 * MaxDelay
                      \/ age[s.session] <= RefreshTTL + MaxDelay
    BY DEF NotExtendedAfterLogout
  <2>1. InTime("logout", s.session, MaxDelay)
    BY DEF Bounded, AnswersBounded, Clocks
  <2>2. out[s.session] \in Nat /\ age[s.session] \in Nat
    BY AnsweredSessions, Lifetimes DEF TypeOK
  <2> QED
    BY <2>1, <2>2, Lifetimes DEF InTime, Clock, Longest, Base
<1> QED
  BY <1>1, TypeCorrect, BoundedCorrect, PTL

(* However often it refreshes, a session is answered no longer than its
   refresh token lasts, but for one last access token and what is on its way. *)
THEOREM AnswersEndAlways == Spec => []AnswersEnd
<1>1. TypeOK /\ Bounded => AnswersEnd
  <2> SUFFICES ASSUME TypeOK, Bounded, NEW s \in Answers
               PROVE  age[s.session] <= RefreshTTL + AccessTTL + 2 * MaxDelay
    BY DEF AnswersEnd
  <2>1. InTime("login", s.session, MaxDelay)
    BY DEF Bounded, AnswersBounded, Clocks
  <2>2. age[s.session] \in Nat
    BY AnsweredSessions, Lifetimes DEF TypeOK
  <2> QED
    BY <2>1, <2>2, Lifetimes DEF InTime, Clock, Longest, Base
<1> QED
  BY <1>1, TypeCorrect, BoundedCorrect, PTL

-----------------------------------------------------------------------------
(* How current the areas are that a manager is answered for.  A set of areas
   is Known for some ticks: it stays within the jurisdiction, and what it
   misses was created since.  A lookup's answer is known for the lookup's
   delay, a cache entry for that of its lookup and its own age.              *)
Known(u, found, ticks) ==
  /\ found \subseteq Covers(u)
  /\ \A a \in (places \cap Covers(u)) \ found : visible[a] <= ticks

Unseen == \A a \in Areas : a \notin places => visible[a] = 0
CacheKnown == \A u \in Users :
  Cached(scope[u]) => Known(u, scope[u].areas, MaxDelay + ScopeTTL - scope[u].left)
LookupKnown(r, u) ==
  /\ Waiting(r) => RoleOf[u] # "area_manager"
  /\ r.stage = "resolved" => Known(u, r.areas, r.delay)
  /\ r.stage = "open" => r.areas \subseteq Covers(u)
LookupsKnown == \A q \in Requests, j \in Jtis, u \in Users :
  request[q] # NoRequest /\ request[q].session = j /\ token[j].user = u =>
    LookupKnown(request[q], u)
AnswerKnown(s, u) ==
  /\ s.by # "push" => Known(u, s.areas, ScopeTTL + MaxDelay)
  /\ s.by = "push" /\ RoleOf[u] # "regional_manager" => s.areas \subseteq Covers(u)
AnswersKnown == \A s \in served, u \in Users :
  token[s.session].user = u => AnswerKnown(s, u)

ScopesKnown == Unseen /\ CacheKnown /\ LookupsKnown /\ AnswersKnown

LEMMA InitScopes == Init => ScopesKnown
BY DEF Init, ScopesKnown, Unseen, CacheKnown, LookupsKnown, AnswersKnown, Cached, NoScope,
       NoRequest

LEMMA NoneAnswered == Silent => AnswersKnown'
BY DEF Silent, AnswersKnown

(* What a lookup finds is what the jurisdiction covers of the places there
   are, for every role.                                                     *)
LEMMA LookupsAreExact ==
  ASSUME NEW u \in Users
  PROVE  /\ RoleOf[u] = "area_manager" => Jurisdiction[u] = Covers(u)
         /\ RoleOf[u] # "area_manager" => Resolved(u) = places \cap Covers(u)
<1>1. Covers(u) \subseteq Areas
  BY DEF Covers
<1>2. ASSUME RoleOf[u] = "area_manager" PROVE Jurisdiction[u] = Covers(u)
  <2>1. Jurisdiction[u] \subseteq Areas
    BY <1>2, SessionAssumption
  <2>2. \A a \in Areas : CityOf[a] \notin Areas /\ RegionOf[CityOf[a]] \notin Areas
    BY SessionAssumption
  <2> QED
    BY <2>1, <2>2 DEF Covers
<1>3. ASSUME RoleOf[u] = "city_manager" PROVE Resolved(u) = places \cap Covers(u)
  <2>1. Jurisdiction[u] \subseteq Cities
    BY <1>3, SessionAssumption
  <2>2. \A a \in Areas : a \notin Cities /\ RegionOf[CityOf[a]] \notin Cities
    BY SessionAssumption
  <2> QED
    BY <1>3, <2>1, <2>2 DEF Covers, Resolved, InCities
<1>4. ASSUME RoleOf[u] = "regional_manager" PROVE Resolved(u) = places \cap Covers(u)
  <2>1. Jurisdiction[u] \subseteq Regions
    BY <1>4, SessionAssumption
  <2>2. \A a \in Areas : a \notin Regions /\ CityOf[a] \notin Regions
    BY SessionAssumption
  <2> QED
    BY <1>4, <2>1, <2>2 DEF Covers, Resolved, InRegions
<1>5. RoleOf[u] \in {"area_manager", "city_manager", "regional_manager"}
  BY SessionAssumption
<1> QED
  BY <1>2, <1>3, <1>4, <1>5

LEMMA KnownLonger ==
  ASSUME TypeOK, NEW u \in Users, NEW found, NEW m \in Int, NEW n \in Int,
         m <= n, Known(u, found, m)
  PROVE  Known(u, found, n)
<1>1. \A a \in Covers(u) : visible[a] \in Int
  BY Lifetimes DEF TypeOK, Covers
<1> QED
  BY <1>1 DEF Known

(* A new place has been visible for no time at all.                          *)
LEMMA CreateScopes ==
  ASSUME TypeOK, ScopesKnown, NEW place, Create(place)
  PROVE  ScopesKnown'
<1> USE DEF ScopesKnown
<1>1. /\ place \notin places /\ places' = places \cup {place}
      /\ UNCHANGED <<visible, token, scope, request>> /\ Silent
  BY DEF Create, auth, bff
<1>2. Unseen'
  BY <1>1 DEF Unseen
<1>3. ASSUME NEW u \in Users, NEW found, NEW n \in Nat, Known(u, found, n)
      PROVE  Known(u, found, n)'
  BY <1>1, <1>3 DEF Known, Unseen, Covers
<1>4. CacheKnown'
  <2>1. \A u \in Users : Cached(scope[u]) => MaxDelay + ScopeTTL - scope[u].left \in Nat
    BY Lifetimes DEF TypeOK, Cached, Expired
  <2> SUFFICES ASSUME NEW u \in Users, Cached(scope[u])
               PROVE  Known(u, scope[u].areas, MaxDelay + ScopeTTL - scope[u].left)'
    BY <1>1 DEF CacheKnown
  <2>2. Known(u, scope[u].areas, MaxDelay + ScopeTTL - scope[u].left)
    BY DEF CacheKnown
  <2> QED
    BY <1>1, <2>1, <2>2 DEF Known, Unseen, Covers
<1>5. LookupsKnown'
  <2> SUFFICES ASSUME NEW q \in Requests, NEW j \in Jtis, NEW u \in Users,
                      request[q] # NoRequest, request[q].session = j, token[j].user = u
               PROVE  LookupKnown(request[q], u)'
    BY <1>1 DEF LookupsKnown, LookupKnown
  <2>1. request[q].delay \in Nat
    BY Lifetimes DEF TypeOK
  <2>2. LookupKnown(request[q], u)
    BY DEF LookupsKnown
  <2>3. request[q].stage = "resolved" => Known(u, request[q].areas, request[q].delay)'
    BY <1>1, <2>1, <2>2 DEF LookupKnown, Known, Unseen, Covers
  <2> QED
    BY <1>1, <2>2, <2>3 DEF LookupKnown, Covers, Waiting
<1> QED
  BY <1>1, <1>2, <1>4, <1>5, NoneAnswered

(* A step that leaves places and the tokens' owners alone leaves what is known
   of a scope as it was.                                                    *)
LEMMA KnownStays ==
  ASSUME UNCHANGED <<places, visible>>, NEW u, NEW found, NEW n
  PROVE  Known(u, found, n)' <=> Known(u, found, n)
BY DEF Known, Covers

LEMMA LookupStays ==
  ASSUME UNCHANGED <<places, visible>>, NEW u, NEW found, NEW r
  PROVE  /\ LookupKnown(r, u)' <=> LookupKnown(r, u)
         /\ AnswerKnown(r, u)' <=> AnswerKnown(r, u)
BY DEF LookupKnown, AnswerKnown, Known, Covers, Waiting

LEMMA LookupsStated ==
  ASSUME UNCHANGED <<places, visible, token>>,
         \A p \in Requests, i \in Jtis, v \in Users :
           request'[p] # NoRequest /\ request'[p].session = i /\ token[i].user = v =>
             LookupKnown(request'[p], v)
  PROVE  LookupsKnown'
BY DEF LookupsKnown, LookupKnown, Known, Covers, Waiting

(* What is known of an answer is known of the socket it opens.               *)
LEMMA AnswerScopes ==
  ASSUME TypeOK, ScopesKnown, NEW q \in Requests, NEW r \in Pending, NEW found,
         Answer(q, r, found), UNCHANGED <<places, visible, token>>,
         Known(token[r.session].user, found, ScopeTTL + MaxDelay)
  PROVE  LookupsKnown' /\ AnswersKnown'
<1>1. AnswersKnown'
  <2> SUFFICES ASSUME NEW s \in served', NEW v \in Users, token[s.session].user = v
               PROVE  AnswerKnown(s, v)
    BY LookupStays DEF AnswersKnown
  <2>1. s.session = r.session /\ s.areas = found /\ s.by \in {"http", "ws"}
    BY DEF Answer, Pending
  <2> QED
    BY <2>1 DEF AnswerKnown
<1>2. LookupsKnown'
  <2> SUFFICES ASSUME NEW p \in Requests, NEW i \in Jtis, NEW v \in Users,
                      request'[p] # NoRequest, request'[p].session = i, token[i].user = v
               PROVE  LookupKnown(request'[p], v)
    BY LookupsStated
  <2>1. \/ request'[p] = request[p]
        \/ request'[p] = Opened(r, found)
    BY DEF Answer, TypeOK
  <2>2. CASE request'[p] = request[p]
    BY <2>2 DEF ScopesKnown, LookupsKnown
  <2>3. CASE request'[p] = Opened(r, found)
    <3>1. /\ request'[p].stage = "open" /\ request'[p].areas = found
          /\ request'[p].session = r.session
      BY <2>3 DEF Opened, Pending
    <3>2. found \subseteq Covers(v)
      BY <3>1 DEF Known
    <3> QED
      BY <3>1, <3>2 DEF LookupKnown, Waiting
  <2> QED
    BY <2>1, <2>2, <2>3
<1> QED
  BY <1>1, <1>2

(* A cache entry just stored is known for the delay of its lookup.           *)
LEMMA CacheStored ==
  ASSUME TypeOK, ScopesKnown, NEW u \in Users, NEW found,
         UNCHANGED <<places, visible>>, scope' = [scope EXCEPT ![u] = Stored(found)],
         Known(u, found, MaxDelay)
  PROVE  CacheKnown'
<1> SUFFICES ASSUME NEW v \in Users, Cached(scope'[v])
             PROVE  Known(v, scope'[v].areas, MaxDelay + ScopeTTL - scope'[v].left)
  BY KnownStays DEF CacheKnown, Known, Covers, Cached
<1>1. CASE v # u
  <2>1. scope'[v] = scope[v]
    BY <1>1 DEF TypeOK
  <2> QED
    BY <2>1 DEF ScopesKnown, CacheKnown
<1>2. CASE v = u
  <2>1. scope'[v].areas = found /\ scope'[v].left = ScopeTTL
    BY <1>2 DEF TypeOK, Stored
  <2>2. MaxDelay + ScopeTTL - scope'[v].left = MaxDelay
    BY <2>1, Lifetimes
  <2> QED
    BY <1>2, <2>1, <2>2
<1> QED
  BY <1>1, <1>2

LEMMA RequestScopes ==
  ASSUME TypeOK, ScopesKnown, NEW q \in Requests, NEW j \in Jtis, NEW by \in {"http", "ws"},
         Request(q, j, by)
  PROVE  ScopesKnown'
<1> DEFINE u == token[j].user
           made == Made(j, by)
<1>1. UNCHANGED <<places, visible, token>> /\ u \in Users
  BY DEF Request, TypeOK, auth
<1>2. made \in Pending /\ made.session = j /\ made.stage = "resolving"
  BY Lifetimes DEF Made, Pending
<1>3. Unseen'
  BY <1>1 DEF ScopesKnown, Unseen
<1>4. CASE Cached(scope[u])
  <2>1. Answer(q, made, scope[u].areas) /\ UNCHANGED scope
    BY <1>4 DEF Request
  <2>2. Known(u, scope[u].areas, ScopeTTL + MaxDelay)
    <3>1. Known(u, scope[u].areas, MaxDelay + ScopeTTL - scope[u].left)
      BY <1>1, <1>4 DEF ScopesKnown, CacheKnown
    <3>2. /\ MaxDelay + ScopeTTL - scope[u].left \in Int /\ ScopeTTL + MaxDelay \in Int
          /\ MaxDelay + ScopeTTL - scope[u].left <= ScopeTTL + MaxDelay
      BY <1>1, <1>4, Lifetimes DEF TypeOK, Cached, Expired
    <3> HIDE DEF u
    <3> QED
      BY <1>1, <3>1, <3>2, KnownLonger
  <2>3. CacheKnown'
    BY <1>1, <2>1, KnownStays DEF ScopesKnown, CacheKnown
  <2> HIDE DEF made
  <2>4. LookupsKnown' /\ AnswersKnown'
    BY <1>1, <1>2, <2>1, <2>2, AnswerScopes
  <2> QED
    BY <1>3, <2>3, <2>4 DEF ScopesKnown
<1>5. CASE ~Cached(scope[u]) /\ RoleOf[u] = "area_manager"
  <2>1. /\ Answer(q, made, Jurisdiction[u])
        /\ scope' = [scope EXCEPT ![u] = Stored(Jurisdiction[u])]
    BY <1>5 DEF Request
  <2>2. Known(u, Jurisdiction[u], MaxDelay) /\ Known(u, Jurisdiction[u], ScopeTTL + MaxDelay)
    BY <1>1, <1>5, LookupsAreExact DEF Known
  <2> HIDE DEF made, u
  <2>3. CacheKnown'
    BY <1>1, <2>1, <2>2, CacheStored
  <2> USE DEF u
  <2>4. LookupsKnown' /\ AnswersKnown'
    BY <1>1, <1>2, <2>1, <2>2, AnswerScopes
  <2> QED
    BY <1>3, <2>3, <2>4 DEF ScopesKnown
<1>6. CASE ~Cached(scope[u]) /\ RoleOf[u] # "area_manager"
  <2>1. request' = [request EXCEPT ![q] = made] /\ UNCHANGED scope /\ Silent
    BY <1>6 DEF Request
  <2> HIDE DEF made
  <2>2. CacheKnown'
    BY <1>1, <2>1, KnownStays DEF ScopesKnown, CacheKnown
  <2>3. LookupsKnown'
    <3> SUFFICES ASSUME NEW p \in Requests, NEW i \in Jtis, NEW v \in Users,
                        request'[p] # NoRequest, request'[p].session = i, token[i].user = v
                 PROVE  LookupKnown(request'[p], v)
      BY <1>1, LookupsStated
    <3>1. CASE request'[p] = made
      BY <1>2, <1>6, <3>1 DEF LookupKnown
    <3>2. CASE request'[p] = request[p]
      BY <3>2 DEF ScopesKnown, LookupsKnown
    <3>3. request'[p] = made \/ request'[p] = request[p]
      BY <2>1 DEF TypeOK
    <3> QED
      BY <3>1, <3>2, <3>3
  <2> QED
    BY <1>3, <2>1, <2>2, <2>3, NoneAnswered DEF ScopesKnown
<1> QED
  BY <1>4, <1>5, <1>6

LEMMA ResolveScopes ==
  ASSUME TypeOK, ScopesKnown, NEW q \in Requests, Resolve(q)
  PROVE  ScopesKnown'
<1> USE DEF ScopesKnown
<1> DEFINE r == request[q]
           u == token[r.session].user
<1>1. /\ r.stage = "resolving" /\ UNCHANGED <<places, visible, token, scope>> /\ Silent
      /\ request' = [request EXCEPT ![q] = [r EXCEPT !.stage = "resolved", !.areas = Resolved(u)]]
  BY DEF Resolve, auth, TypeOK
<1>2. r \in Pending /\ r # NoRequest /\ u \in Users
  <2>1. r \in Pending /\ r # NoRequest
    BY <1>1 DEF TypeOK, Pending, NoRequest
  <2> QED
    BY <2>1 DEF TypeOK, Pending
<1>3. RoleOf[u] # "area_manager"
  BY <1>1, <1>2 DEF LookupsKnown, LookupKnown, Pending, Waiting
<1>4. Known(u, Resolved(u), r.delay)
  BY <1>2, <1>3, LookupsAreExact DEF Known
<1>5. LookupsKnown'
  <2> SUFFICES ASSUME NEW p \in Requests, NEW i \in Jtis, NEW v \in Users,
                      request'[p] # NoRequest, request'[p].session = i, token[i].user = v
               PROVE  LookupKnown(request'[p], v)
    BY <1>1, LookupsStated
  <2>1. CASE p = q
    <3>1. /\ request'[p].session = r.session /\ request'[p].areas = Resolved(u)
          /\ request'[p].delay = r.delay /\ request'[p].stage = "resolved"
      BY <1>1, <1>2, <2>1 DEF TypeOK, Pending
    <3> QED
      BY <1>3, <1>4, <3>1 DEF LookupKnown
  <2>2. CASE p # q
    <3>1. request'[p] = request[p]
      BY <1>1, <2>2 DEF TypeOK
    <3> QED
      BY <3>1 DEF LookupsKnown
  <2> QED
    BY <2>1, <2>2
<1>6. Unseen' /\ CacheKnown'
  BY <1>1 DEF Unseen, CacheKnown, Known, Covers
<1> QED
  BY <1>1, <1>5, <1>6, NoneAnswered

LEMMA RespondScopes ==
  ASSUME TypeOK, ScopesKnown, NEW q \in Requests, Respond(q)
  PROVE  ScopesKnown'
<1> DEFINE r == request[q]
           u == token[r.session].user
<1>1. /\ r.stage = "resolved" /\ UNCHANGED <<places, visible, token>>
      /\ scope' = [scope EXCEPT ![u] = Stored(r.areas)]
      /\ Answer(q, r, r.areas)
  BY DEF Respond, auth
<1>2. r \in Pending /\ r # NoRequest /\ u \in Users
  <2>1. r \in Pending /\ r # NoRequest
    BY <1>1 DEF TypeOK, Pending, NoRequest
  <2> QED
    BY <2>1 DEF TypeOK, Pending
<1>3. Known(u, r.areas, MaxDelay) /\ Known(u, r.areas, ScopeTTL + MaxDelay)
  <2>1. Known(u, r.areas, r.delay)
    BY <1>1, <1>2 DEF ScopesKnown, LookupsKnown, LookupKnown, Pending
  <2>2. /\ r.delay \in Int /\ MaxDelay \in Int /\ ScopeTTL + MaxDelay \in Int
        /\ r.delay <= MaxDelay /\ MaxDelay <= ScopeTTL + MaxDelay
    BY <1>2, Lifetimes DEF Pending
  <2> HIDE DEF u, r
  <2> QED
    BY <1>2, <2>1, <2>2, KnownLonger
<1>4. Unseen'
  BY <1>1 DEF ScopesKnown, Unseen
<1>5. LookupsKnown' /\ AnswersKnown'
  <2> HIDE DEF r
  <2> QED
    BY <1>1, <1>2, <1>3, AnswerScopes
<1>6. CacheKnown'
  <2> HIDE DEF r, u
  <2> QED
    BY <1>1, <1>2, <1>3, CacheStored
<1> QED
  BY <1>4, <1>5, <1>6 DEF ScopesKnown

(* A push stays within the channels of the socket.                          *)
LEMMA SocketScopes ==
  ASSUME TypeOK, ScopesKnown, NEW q \in Requests, Push(q) \/ Disconnect(q)
  PROVE  ScopesKnown'
<1>1. UNCHANGED <<places, visible, token, scope>>
  BY DEF Push, Disconnect, auth
<1>2. Unseen' /\ CacheKnown'
  BY <1>1 DEF ScopesKnown, Unseen, CacheKnown, Known, Covers
<1>3. LookupsKnown'
  <2> SUFFICES ASSUME NEW p \in Requests, NEW i \in Jtis, NEW v \in Users,
                      request'[p] # NoRequest, request'[p].session = i, token[i].user = v
               PROVE  LookupKnown(request'[p], v)
    BY <1>1, LookupsStated
  <2>1. request'[p] = request[p]
    BY DEF Push, Disconnect, TypeOK
  <2> QED
    BY <2>1 DEF ScopesKnown, LookupsKnown
<1>4. CASE Disconnect(q)
  BY <1>2, <1>3, <1>4, NoneAnswered DEF Disconnect, ScopesKnown
<1>5. CASE Push(q)
  <2> DEFINE r == request[q]
  <2>1. /\ r.stage = "open"
        /\ served' = {[session |-> r.session, areas |-> Heard(r.session, r.areas), by |-> "push"]}
    BY <1>5 DEF Push
  <2>2. r \in Pending /\ r # NoRequest
    BY <2>1 DEF TypeOK, Pending, NoRequest
  <2>3. AnswersKnown'
    <3> SUFFICES ASSUME NEW s \in served', NEW v \in Users, token[s.session].user = v
                 PROVE  AnswerKnown(s, v)
      BY <1>1, LookupStays DEF AnswersKnown
    <3>1. s.session = r.session /\ s.areas = Heard(r.session, r.areas) /\ s.by = "push"
      BY <2>1
    <3>2. r.areas \subseteq Covers(v)
      BY <2>1, <2>2, <3>1 DEF ScopesKnown, LookupsKnown, LookupKnown, Pending
    <3> QED
      BY <3>1, <3>2 DEF AnswerKnown, Heard
  <2> QED
    BY <1>2, <1>3, <2>3 DEF ScopesKnown
<1> QED
  BY <1>4, <1>5

(* A tick ages what is known by one.                                        *)
LEMMA TickScopes ==
  ASSUME TypeOK, ScopesKnown, Tick
  PROVE  ScopesKnown'
<1> USE DEF ScopesKnown
<1>1. places' = places /\ token' = token /\ Silent
  BY DEF Tick
<1>2. ASSUME NEW a \in Areas
      PROVE  /\ visible[a] \in Nat /\ visible'[a] \in Nat
             /\ visible'[a] <= visible[a] + 1
             /\ a \notin places => visible'[a] = 0
  <2>1. visible[a] \in 0 .. VisibleMax
    BY DEF TypeOK
  <2>2. visible'[a] = IF a \in places THEN Later(visible[a], VisibleMax) ELSE 0
    BY DEF Tick
  <2> QED
    BY <2>1, <2>2, Lifetimes DEF Later
<1>3. ASSUME NEW u, NEW found, NEW n \in Int, Known(u, found, n)
      PROVE  Known(u, found, n + 1)'
  BY <1>1, <1>2, <1>3 DEF Known, Covers
<1>4. Unseen' /\ AnswersKnown'
  BY <1>1, <1>2, NoneAnswered DEF Unseen
<1>5. CacheKnown'
  <2> SUFFICES ASSUME NEW u \in Users, NEW found, NEW n, Cached(scope'[u]),
                      found = scope'[u].areas, n = MaxDelay + ScopeTTL - scope'[u].left
               PROVE  Known(u, found, n)'
    BY DEF CacheKnown, Cached, Known
  <2>1. /\ Cached(scope[u]) /\ scope'[u].areas = scope[u].areas
        /\ scope'[u].left = scope[u].left - 1 /\ scope[u].left \in Int
    BY Lifetimes DEF Tick, Aged, NoScope, Cached, Expired, TypeOK
  <2>2. Known(u, found, MaxDelay + ScopeTTL - scope[u].left)
    BY <2>1 DEF CacheKnown
  <2>3. /\ n = (n - 1) + 1 /\ n - 1 \in Int
        /\ MaxDelay + ScopeTTL - scope[u].left = n - 1
    BY <2>1, Lifetimes
  <2>4. Known(u, found, n - 1)
    BY <2>2, <2>3
  <2>5. Known(u, found, (n - 1) + 1)'
    BY <1>3, <2>3, <2>4
  <2> QED
    BY <2>3, <2>5 DEF Known
<1>6. LookupsKnown'
  <2> SUFFICES ASSUME NEW q \in Requests, NEW j \in Jtis, NEW u \in Users,
                      NEW found, NEW n, found = request'[q].areas, n = request'[q].delay,
                      request'[q] # NoRequest, request'[q].session = j, token[j].user = u
               PROVE  /\ Waiting(request'[q]) => RoleOf[u] # "area_manager"
                      /\ request'[q].stage = "resolved" => Known(u, found, n)'
                      /\ request'[q].stage = "open" => found \subseteq Covers(u)
    BY <1>1 DEF LookupsKnown, LookupKnown, Known, Covers, Waiting
  <2> DEFINE r == request[q]
  <2>1. CASE ~Waiting(r)
    <3>1. request'[q] = r
      BY <2>1 DEF Tick
    <3> QED
      BY <2>1, <3>1 DEF LookupsKnown, LookupKnown, Waiting
  <2>2. CASE Waiting(r)
    <3>1. r \in Pending /\ r # NoRequest
      BY <2>2 DEF TypeOK, Pending, Waiting, NoRequest
    <3>2. request'[q] = [r EXCEPT !.delay = @ + 1]
      BY <2>2 DEF Tick
    <3>3. /\ r.session = j /\ r.areas = found /\ request'[q].stage = r.stage
          /\ n = r.delay + 1 /\ r.delay \in Int
      BY <3>1, <3>2, Lifetimes DEF Pending
    <3>4. RoleOf[u] # "area_manager" /\ (r.stage = "resolved" => Known(u, found, r.delay))
      BY <2>2, <3>1, <3>3 DEF LookupsKnown, LookupKnown
    <3>5. n - 1 \in Int /\ r.delay = n - 1 /\ n = (n - 1) + 1
      BY <3>3
    <3>6. r.stage = "resolved" => Known(u, found, (n - 1) + 1)'
      BY <1>3, <3>4, <3>5
    <3> QED
      BY <2>2, <3>3, <3>4, <3>5, <3>6 DEF Known, Waiting
  <2> QED
    BY <2>1, <2>2
<1> QED
  BY <1>4, <1>5, <1>6

LEMMA NextScopes == TypeOK /\ ScopesKnown /\ [Next]_vars => ScopesKnown'
<1> SUFFICES ASSUME TypeOK, ScopesKnown, [Next]_vars PROVE ScopesKnown'
  OBVIOUS
<1> USE DEF ScopesKnown
<1>1. CASE UNCHANGED vars \/ \E u \in Users : CreateUser(u)
  <2>1. UNCHANGED <<places, visible, token, scope, request>>
    BY <1>1 DEF vars, auth, bff, CreateUser
  <2>2. Unseen' /\ CacheKnown'
    BY <2>1 DEF Unseen, CacheKnown, Known, Covers, Cached
  <2>3. LookupsKnown'
    BY <2>1, LookupStays DEF LookupsKnown
  <2>4. AnswersKnown'
    <3>1. CASE UNCHANGED vars
      BY <2>1, <3>1, LookupStays DEF AnswersKnown, vars
    <3> QED
      BY <1>1, <3>1, NoneAnswered DEF CreateUser
  <2> QED
    BY <2>2, <2>3, <2>4
<1>2. CASE \/ \E r \in Regions : CreateRegion(r)
           \/ \E c \in Cities : CreateCity(c)
           \/ \E a \in Areas : CreateArea(a)
  BY <1>2, CreateScopes DEF CreateRegion, CreateCity, CreateArea
<1>3. CASE \E j \in Jtis : Login(j) \/ CheckRefresh(j) \/ IssueAccess(j) \/ Logout(j)
  <2>1. /\ UNCHANGED <<places, visible, scope, request>> /\ Silent
        /\ \A i \in Jtis : token'[i].user = token[i].user
    <3> PICK j \in Jtis : Login(j) \/ CheckRefresh(j) \/ IssueAccess(j) \/ Logout(j)
      BY <1>3
    <3>1. UNCHANGED <<places, visible, scope, request>> /\ Silent
      <4>1. CASE Login(j)
        BY <4>1 DEF Login, bff
      <4>2. CASE CheckRefresh(j)
        BY <4>2 DEF CheckRefresh, bff
      <4>3. CASE IssueAccess(j)
        BY <4>3 DEF IssueAccess, bff
      <4>4. CASE Logout(j)
        BY <4>4 DEF Logout, bff
      <4> QED
        BY <4>1, <4>2, <4>3, <4>4
    <3>2. \/ token' = token
          \/ token' = [token EXCEPT ![j].state = "active"]
          \/ token' = [token EXCEPT ![j].state = "revoked"]
      BY DEF Login, Store, CheckRefresh, IssueAccess, Logout, Revoke
    <3>3. token \in [Jtis -> [user : Users, state : {"unused", "active", "revoked"}]]
      BY DEF TypeOK
    <3>4. \A i \in Jtis : token'[i].user = token[i].user
      <4> HIDE DEF TypeOK, ScopesKnown
      <4>1. CASE token' = token
        BY <4>1
      <4>2. CASE token' = [token EXCEPT ![j].state = "active"]
        BY <3>3, <4>2
      <4>3. CASE token' = [token EXCEPT ![j].state = "revoked"]
        BY <3>3, <4>3
      <4> QED
        BY <3>2, <4>1, <4>2, <4>3
    <3> QED
      BY <3>1, <3>4
  <2>3. Unseen' /\ CacheKnown'
    BY <2>1 DEF Unseen, CacheKnown, Known, Covers, Cached
  <2>4. LookupsKnown'
    BY <2>1, LookupStays DEF LookupsKnown
  <2> QED
    BY <2>1, <2>3, <2>4, NoneAnswered
<1>4. CASE Restart
  <2>1. UNCHANGED <<places, visible, token>> /\ Silent
    BY <1>4 DEF Restart
  <2>2. Unseen' /\ AnswersKnown'
    BY <2>1, NoneAnswered DEF Unseen
  <2>3. CASE UNCHANGED <<scope, request>>
    <3>1. LookupsKnown'
      BY <2>1, <2>3, LookupStays DEF LookupsKnown
    <3>2. CacheKnown'
      BY <2>1, <2>3, KnownStays DEF CacheKnown
    <3> QED
      BY <2>2, <3>1, <3>2
  <2>4. CASE scope' = [u \in Users |-> NoScope] /\ request' = [q \in Requests |-> NoRequest]
    BY <2>2, <2>4 DEF CacheKnown, LookupsKnown, Cached, NoScope
  <2> QED
    BY <1>4, <2>3, <2>4 DEF Restart
<1> QED
  BY <1>1, <1>2, <1>3, <1>4, RequestScopes, ResolveScopes, RespondScopes, SocketScopes,
     TickScopes DEF Next

(* A manager is answered for no area outside the jurisdiction, and for every
   area in it but those created within the cache's lifetime and a lookup's
   delay: for any number of concurrent lookups, whichever is stored last.  An
   open socket keeps to it too, high alerts for regional managers excepted.  *)
THEOREM ScopeIsCurrent == Spec => []ScopeCurrent
<1>1. Spec => []ScopesKnown
  BY InitScopes, NextScopes, TypeCorrect, PTL DEF Spec
<1>2. TypeOK /\ ScopesKnown => ScopeCurrent
  BY DEF TypeOK, ScopesKnown, AnswersKnown, AnswerKnown, Known, ScopeCurrent, Answers
<1> QED
  BY <1>1, <1>2, TypeCorrect, PTL
=============================================================================
