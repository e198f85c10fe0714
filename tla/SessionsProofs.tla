---------------------------- MODULE SessionsProofs ----------------------------
(***************************************************************************)
(* Rights are recent, sessions last and buttons agree with the server: for *)
(* any users, clients, requests and keys, any life of a token and length   *)
(* of a second, whatever the administrator does and when servers restart.  *)
(*                                                                         *)
(* The argument: an account is read while it is active in the role, and    *)
(* signed for at most MaxLogin later; so every token that is under way or  *)
(* stored was issued at most MaxLogin after its user was active in its     *)
(* role.  Its expiry is TTL after the issue, less a part of a second.      *)
(***************************************************************************)
EXTENDS Sessions, TLAPS

\* The user is active in the role, or was at time t or later.
HeldAt(u, role, t) ==
    \/ accounts[u] = [role |-> role, active |-> TRUE]
    \/ t <= left[<<u, role>>]

Genuine(token) ==
    token # NoSession =>
        /\ token.user \in Users /\ token.role \in Roles
        /\ token.issued \in Times /\ token.expires \in Int
        /\ token.issued <= now
        /\ token.issued + TTL - Second < token.expires
        /\ token.expires <= token.issued + TTL
        /\ HeldAt(token.user, token.role, token.issued - MaxLogin)

\* What holds of a request, by the place where it is.
Placed(r) ==
    /\ r.at = "find" => r.client \in Clients /\ r.user \in Users
    /\ r.at = "sign" =>
          /\ r.client \in Clients /\ r.user \in Users /\ r.role \in Roles
          /\ r.read \in Times
          /\ r.read <= now /\ now <= r.read + MaxLogin
          /\ HeldAt(r.user, r.role, r.read)
    /\ r.at = "answer" => r.client \in Clients /\ Genuine(r.token)
    /\ r.at = "auth" => r.route \in Routes /\ Genuine(r.token)

SessionInv ==
    /\ now \in Times
    /\ accounts \in [Users -> [role : Roles, active : BOOLEAN]]
    /\ left \in [Users \X Roles -> Int]
    /\ DOMAIN req = Requests /\ \A q \in Requests : Placed(req[q])
    /\ DOMAIN session = Clients /\ \A c \in Clients : Genuine(session[c])

\* What is left of a division is less than the divisor.
LEMMA Remainder == ASSUME NEW a \in Nat, NEW b \in Nat \ {0} PROVE a % b \in 0..(b - 1)
BY SMT

\* Cutting an expiry to whole seconds takes less than a second (Login).
LEMMA Rounding ==
    ASSUME NEW t \in Nat
    PROVE  /\ Expiry(t) \in Int
           /\ t + TTL - Second < Expiry(t)
           /\ Expiry(t) <= t + TTL
<1> DEFINE r == (t + TTL) % Second
<1>1. t + TTL \in Nat
    BY SessionsAssumption
<1>2. r \in 0..(Second - 1)
    BY <1>1, Remainder, SessionsAssumption
<1> HIDE DEF r
<1>3. Expiry(t) = t + TTL - r
    BY DEF Expiry, r
<1>4. QED
    BY <1>2, <1>3, SessionsAssumption

\* Nobody is logged in on a server that was just seeded (Seed).
LEMMA SessionInit == Init => SessionInv
<1> SUFFICES ASSUME Init PROVE SessionInv
    OBVIOUS
<1>1. now \in Times
    BY SessionsAssumption DEF Init, Times
<1>2. accounts \in [Users -> [role : Roles, active : BOOLEAN]]
    BY SessionsAssumption DEF Init
<1>3. left \in [Users \X Roles -> Int]
    BY SessionsAssumption DEF Init
<1>4. DOMAIN req = Requests /\ \A q \in Requests : Placed(req[q])
    BY DEF Init, Placed, Free
<1>5. DOMAIN session = Clients /\ \A c \in Clients : Genuine(session[c])
    BY DEF Init, Genuine
<1>6. QED
    BY <1>1, <1>2, <1>3, <1>4, <1>5 DEF SessionInv

\* What holds of a token and of a request's place depends on nothing but the
\* time and the accounts, and these on no request.
LEMMA OnlyTimeAndAccounts ==
    ASSUME UNCHANGED <<now, accounts, left>>
    PROVE  /\ \A token : Genuine(token) => Genuine(token)'
           /\ \A r : Placed(r) => Placed(r)'
BY DEF Genuine, Placed, HeldAt

\* One request moves on.
LEMMA OneMoves ==
    ASSUME SessionInv, UNCHANGED <<now, accounts, left, session>>,
           NEW q \in Requests, NEW r, Placed(r), req' = [req EXCEPT ![q] = r]
    PROVE  SessionInv'
<1>1. DOMAIN req' = Requests /\ \A p \in Requests : Placed(req'[p])
    BY DEF SessionInv
<1>2. \A p \in Requests : Placed(req[p])'
    BY <1>1, OnlyTimeAndAccounts
<1>3. \A c \in Clients : Genuine(session[c])'
    BY OnlyTimeAndAccounts DEF SessionInv
<1>4. QED
    BY <1>1, <1>2, <1>3 DEF SessionInv

\* An account is read while it is active in its role (FindUserByUsername).
LEMMA FindKeeps ==
    ASSUME SessionInv, NEW q \in Requests, Find(q) PROVE SessionInv'
<1> DEFINE u == req[q].user
           r == [at |-> "sign", client |-> req[q].client,
                 user |-> u, role |-> accounts[u].role, read |-> now]
<1>1. u \in Users /\ req[q].client \in Clients
    BY DEF SessionInv, Find, Placed
<1>2. Placed(Free)
    BY DEF Placed, Free
<1>3. CASE accounts[u].active /\ req' = [req EXCEPT ![q] = r]
    <2>1. accounts[u] \in [role : Roles, active : BOOLEAN]
        BY <1>1 DEF SessionInv
    <2>2. HeldAt(u, accounts[u].role, now) /\ accounts[u].role \in Roles
        BY <1>3, <2>1 DEF HeldAt
    <2>3. now \in Times /\ now <= now /\ now <= now + MaxLogin
        BY SessionsAssumption DEF SessionInv, Times
    <2>4. Placed(r)
        BY <1>1, <2>2, <2>3 DEF Placed
    <2>5. QED
        BY <1>3, <2>4, OneMoves DEF Find
<1>4. CASE req' = [req EXCEPT ![q] = Free]
    BY <1>2, <1>4, OneMoves DEF Find
<1>5. QED
    BY <1>3, <1>4 DEF Find

\* A token is issued at most MaxLogin after its account was read (Login).
LEMMA SignKeeps ==
    ASSUME SessionInv, NEW q \in Requests, Sign(q) PROVE SessionInv'
<1> DEFINE new == Token(req[q].user, req[q].role, now)
           r == [at |-> "answer", client |-> req[q].client, token |-> new]
<1>1. now \in Nat /\ now \in Times
    BY SessionsAssumption DEF SessionInv, Times
<1>2. /\ req[q].client \in Clients
      /\ req[q].user \in Users /\ req[q].role \in Roles
      /\ req[q].read \in Nat /\ now - MaxLogin <= req[q].read
      /\ HeldAt(req[q].user, req[q].role, req[q].read)
    BY <1>1, SessionsAssumption DEF SessionInv, Sign, Placed, Times
<1>3. HeldAt(req[q].user, req[q].role, now - MaxLogin)
    <2>1. left[<<req[q].user, req[q].role>>] \in Int
        BY <1>2 DEF SessionInv
    <2>2. QED
        BY <1>1, <1>2, <2>1, SessionsAssumption DEF HeldAt
<1>4. /\ Expiry(now) \in Int
      /\ now + TTL - Second < Expiry(now)
      /\ Expiry(now) <= now + TTL
    BY <1>1, Rounding
<1>5. /\ new.user = req[q].user /\ new.role = req[q].role
      /\ new.issued = now /\ new.expires = Expiry(now)
    BY DEF Token
<1>6. now <= now
    BY <1>1
<1> HIDE DEF new
<1>7. Genuine(new)
    BY <1>1, <1>2, <1>3, <1>4, <1>5, <1>6 DEF Genuine
<1>8. Placed(r)
    BY <1>2, <1>7 DEF Placed
<1>9. req' = [req EXCEPT ![q] = r]
    BY DEF Sign, new
<1>10. QED
    BY <1>8, <1>9, OneMoves DEF Sign

\* Logins and calls that arrive make no token.
LEMMA ArrivalKeeps ==
    ASSUME SessionInv, NEW q \in Requests, NEW c \in Clients,
           \/ \E u \in Users : LoginArrives(q, c, u)
           \/ \E route \in Routes : Call(q, c, route)
    PROVE  SessionInv'
<1>1. ASSUME NEW u \in Users, LoginArrives(q, c, u) PROVE SessionInv'
    <2>1. Placed([at |-> "find", client |-> c, user |-> u])
        BY DEF Placed
    <2>2. QED
        BY <1>1, <2>1, OneMoves DEF LoginArrives
<1>2. ASSUME NEW route \in Routes, Call(q, c, route) PROVE SessionInv'
    <2>1. Placed([at |-> "auth", route |-> route, token |-> session[c]])
        BY DEF Placed, SessionInv
    <2>2. QED
        BY <1>2, <2>1, OneMoves DEF Call
<1>3. QED
    BY <1>1, <1>2

\* Nor does a request that is judged or done (Authenticate).
LEMMA JudgingKeeps ==
    ASSUME SessionInv, NEW q \in Requests, Authenticate(q) \/ Finish(q) PROVE SessionInv'
<1>1. UNCHANGED <<now, accounts, left, session>>
    BY DEF Authenticate, Finish
<1>2. CASE req' = [req EXCEPT ![q] =
                [at |-> "handler", route |-> req[q].route, token |-> req[q].token]]
    <2>1. Placed([at |-> "handler", route |-> req[q].route, token |-> req[q].token])
        BY DEF Placed
    <2>2. QED
        BY <1>1, <1>2, <2>1, OneMoves
<1>3. ASSUME NEW why, Refuse(q, why) PROVE SessionInv'
    <2>1. Placed([at |-> "refused", route |-> req[q].route,
                  token |-> req[q].token, why |-> why])
        BY DEF Placed
    <2>2. QED
        BY <1>1, <1>3, <2>1, OneMoves DEF Refuse
<1>4. CASE req' = [req EXCEPT ![q] = Free]
    <2>1. Placed(Free)
        BY DEF Placed, Free
    <2>2. QED
        BY <1>1, <1>4, <2>1, OneMoves
<1>5. QED
    BY <1>2, <1>3, <1>4 DEF Authenticate, Finish

\* Sessions that are stored were under way, and cleared ones are none.
LEMMA StoringKeeps ==
    ASSUME SessionInv,
           (\E q \in Requests : Deliver(q)) \/ (\E c \in Clients : Forget(c))
    PROVE  SessionInv'
<1>1. UNCHANGED <<now, accounts, left>>
    BY DEF Deliver, Forget
<1>2. DOMAIN req' = Requests /\ \A q \in Requests : Placed(req'[q])
    BY DEF SessionInv, Deliver, Forget, Placed, Free
<1>3. DOMAIN session' = Clients /\ \A c \in Clients : Genuine(session'[c])
    <2>1. Genuine(NoSession)
        BY DEF Genuine
    <2>2. \A q \in Requests : req[q].at = "answer" => Genuine(req[q].token)
        BY DEF SessionInv, Placed
    <2>3. QED
        BY <2>1, <2>2 DEF SessionInv, Deliver, Forget
<1>4. QED
    BY <1>1, <1>2, <1>3, OnlyTimeAndAccounts DEF SessionInv

\* An account that is changed was held in its old role until now.
LEMMA AdministratorKeeps ==
    ASSUME SessionInv, NEW u \in Users, NEW role \in Roles, NEW active \in BOOLEAN,
           SetAccount(u, role, active)
    PROVE  SessionInv'
<1>1. \A v \in Users, s \in Roles, t \in Int : t <= now /\ HeldAt(v, s, t) => HeldAt(v, s, t)'
    <2> SUFFICES ASSUME NEW v \in Users, NEW s \in Roles, NEW t \in Int,
                        t <= now, HeldAt(v, s, t)
                 PROVE  HeldAt(v, s, t)'
        OBVIOUS
    <2>1. CASE v = u /\ accounts[u] = [role |-> s, active |-> TRUE]
        <3>1. accounts[u].active /\ accounts[u].role = s
            BY <2>1
        <3>2. left' = [left EXCEPT ![<<u, s>>] = now]
            BY <3>1 DEF SetAccount
        <3>3. left'[<<u, s>>] = now
            BY <3>2 DEF SessionInv
        <3>4. QED
            BY <2>1, <3>3 DEF HeldAt
    <2>2. CASE v # u /\ accounts[v] = [role |-> s, active |-> TRUE]
        BY <2>2 DEF SessionInv, SetAccount, HeldAt
    <2>3. CASE t <= left[<<v, s>>]
        <3>1. left'[<<v, s>>] = left[<<v, s>>] \/ left'[<<v, s>>] = now
            BY DEF SessionInv, SetAccount
        <3>2. QED
            BY <2>3, <3>1 DEF HeldAt
    <2>4. QED
        BY <2>1, <2>2, <2>3 DEF HeldAt
<1>2. accounts' \in [Users -> [role : Roles, active : BOOLEAN]]
    BY DEF SessionInv, SetAccount
<1>3. left' \in [Users \X Roles -> Int]
    BY DEF SessionInv, SetAccount, Times
<1>4. \A token : Genuine(token) => Genuine(token)'
    BY <1>1, SessionsAssumption DEF SessionInv, SetAccount, Genuine, Times
<1>5. \A r : Placed(r) => Placed(r)'
    BY <1>1, <1>4 DEF SetAccount, Placed, Times
<1>6. QED
    BY <1>2, <1>3, <1>4, <1>5 DEF SessionInv, SetAccount

\* A restart only ends requests (main).
LEMMA RestartKeeps ==
    ASSUME SessionInv, NEW k \in Keys, Restart(k) PROVE SessionInv'
<1>1. DOMAIN req' = Requests /\ \A q \in Requests : Placed(req'[q])
    BY DEF SessionInv, Restart, Placed, Free
<1>2. QED
    BY <1>1, OnlyTimeAndAccounts DEF SessionInv, Restart

\* Time leaves no login behind.
LEMMA TickKeeps ==
    ASSUME SessionInv, Tick PROVE SessionInv'
<1>1. now \in Times /\ now' \in Times /\ now' = now + 1
    BY SessionsAssumption DEF SessionInv, Tick, Times
<1>2. \A u, role, t : HeldAt(u, role, t) => HeldAt(u, role, t)'
    BY DEF Tick, HeldAt
<1>3. \A token : Genuine(token) => Genuine(token)'
    BY <1>1, <1>2 DEF Genuine, Times
<1>4. \A q \in Requests : Placed(req[q])'
    BY <1>1, <1>2, <1>3, SessionsAssumption DEF SessionInv, Tick, Placed, Times
<1>5. QED
    BY <1>1, <1>3, <1>4 DEF SessionInv, Tick

\* Every step keeps the invariant.
LEMMA SessionStep == SessionInv /\ [Next]_vars => SessionInv'
<1> SUFFICES ASSUME SessionInv, [Next]_vars PROVE SessionInv'
    OBVIOUS
<1>1. CASE UNCHANGED vars
    BY <1>1, OnlyTimeAndAccounts DEF vars, SessionInv
<1>2. CASE Next
    BY <1>2, ArrivalKeeps, FindKeeps, SignKeeps, StoringKeeps, JudgingKeeps,
       AdministratorKeeps, RestartKeeps, TickKeeps DEF Next
<1>3. QED
    BY <1>1, <1>2

\* Only Authenticate moves a request on from where its token is looked at.
LEMMA OnlyAuthenticateJudges ==
    ASSUME SessionInv, [Next]_vars, NEW q \in Requests,
           req'[q] # req[q], req'[q].at \in {"handler", "refused"}
    PROVE  Authenticate(q)
<1>1. DOMAIN req = Requests
    BY DEF SessionInv
<1>2. \A r : \A p \in Requests : req' = [req EXCEPT ![p] = r] => p = q /\ req'[q] = r
    BY <1>1
<1>3. ASSUME NEW p \in Requests, NEW c \in Clients,
             \/ \E u \in Users : LoginArrives(p, c, u)
             \/ \E route \in Routes : Call(p, c, route)
      PROVE  FALSE
    BY <1>2, <1>3 DEF LoginArrives, Call, Free
<1>4. ASSUME NEW p \in Requests, Find(p) \/ Sign(p) \/ Deliver(p) \/ Finish(p) PROVE FALSE
    <2>1. Deliver(p) \/ Finish(p) => req'[q] = Free
        BY <1>2 DEF Deliver, Finish
    <2>2. Find(p) \/ Sign(p) => req'[q].at \in {"free", "sign", "answer"}
        BY <1>2 DEF Find, Sign, Free
    <2>3. QED
        BY <1>4, <2>1, <2>2 DEF Free
<1>5. ASSUME NEW p \in Requests, Authenticate(p) PROVE p = q
    BY <1>2, <1>5 DEF Authenticate, Refuse
<1>6. ASSUME NEW k \in Keys, Restart(k) PROVE FALSE
    BY <1>6, <1>1 DEF Restart, Free
<1>7. (\E c \in Clients : Forget(c)) \/ Tick => UNCHANGED req
    BY DEF Forget, Tick
<1>8. (\E u \in Users, role \in Roles, active \in BOOLEAN : SetAccount(u, role, active))
         => UNCHANGED req
    BY DEF SetAccount
<1>9. QED
    BY <1>3, <1>4, <1>5, <1>6, <1>7, <1>8 DEF Next, vars

\* A request is judged by a role its user had less than TTL and one login ago
\* (Login, Authenticate, RequireMinimumRole).
THEOREM RightsStayRecent == Spec => RightsAreRecent
<1>1. ASSUME SessionInv, [Next]_vars, NEW q \in Requests, Judged(q)
      PROVE  HeldWithin(req[q].token.user, req[q].token.role, TTL + MaxLogin)
    <2> DEFINE token == req[q].token
    <2>1. Authenticate(q)
        BY <1>1, OnlyAuthenticateJudges DEF Judged
    <2>2. token # NoSession /\ Valid(token)
        BY <1>1, <2>1 DEF SessionInv, Judged, Authenticate, Refuse
    <2>3. Genuine(token)
        BY <1>1 DEF SessionInv, Placed, Judged
    <2>4. left[<<token.user, token.role>>] \in Int
        BY <1>1, <2>2, <2>3 DEF SessionInv, Genuine
    <2>5. now \in Int /\ token.issued \in Int
        BY <1>1, <2>2, <2>3, SessionsAssumption DEF SessionInv, Genuine, Times
    <2>6. QED
        BY <2>2, <2>3, <2>4, <2>5, SessionsAssumption
        DEF Genuine, Valid, HeldAt, HeldWithin
<1>2. SessionInv /\ [Next]_vars =>
         [\A q \in Requests : Judged(q) =>
             HeldWithin(req[q].token.user, req[q].token.role, TTL + MaxLogin)]_vars
    BY <1>1
<1>3. QED
    BY <1>2, SessionInit, SessionStep, PTL DEF Spec, RightsAreRecent

\* A token is not called invalid before its time, less a second, is over,
\* unless the server's key is another (Login, Authenticate).
THEOREM SessionsDoLast == Spec => SessionsLast
<1>1. ASSUME SessionInv, [Next]_vars, NEW q \in Requests,
             req[q].at = "auth", req'[q].at = "refused", req'[q].why = "invalid_token",
             req[q].token.key = key
      PROVE  now > req[q].token.issued + TTL - Second
    <2> DEFINE token == req[q].token
    <2>1. Authenticate(q)
        BY <1>1, OnlyAuthenticateJudges
    <2>2. token # NoSession /\ ~Valid(token)
        BY <1>1, <2>1 DEF SessionInv, Authenticate, Refuse
    <2>3. Genuine(token)
        BY <1>1 DEF SessionInv, Placed
    <2>4. now \in Int /\ token.issued \in Int
        BY <1>1, <2>2, <2>3, SessionsAssumption DEF SessionInv, Genuine, Times
    <2>5. QED
        BY <1>1, <2>2, <2>3, <2>4, SessionsAssumption DEF Genuine, Valid
<1>2. SessionInv /\ [Next]_vars =>
         [\A q \in Requests :
             req[q].at = "auth" /\ req'[q].at = "refused" /\ req'[q].why = "invalid_token" =>
                \/ req[q].token.key # key
                \/ now > req[q].token.issued + TTL - Second]_vars
    BY <1>1
<1>3. QED
    BY <1>2, SessionInit, SessionStep, PTL DEF Spec, SessionsLast

\* The ranks of the table, and of every role that is not in it (constants/roles.go).
LEMMA Ranks ==
    /\ RankOf("viewer") = 1 /\ RankOf("operator") = 2
    /\ RankOf("reviewer") = 3 /\ RankOf("admin") = 4
    /\ \A role : role \notin {"viewer", "operator", "reviewer", "admin"} => RankOf(role) = 0
BY DEF RankOf, Rank

\* Nobody but these roles is allowed more than to read, and they are all allowed
\* to write (router: the routes' minimum roles).
LEMMA WritersAgree ==
    ASSUME NEW route \in Routes, NEW role
    PROVE  /\ Permits(route, role) /\ route # "read" => CanWrite(role)
           /\ ~Permits("write", role) => ~CanWrite(role)
<1>1. Minimum["write"] = "operator" /\ Minimum["audits"] = "reviewer"
    BY DEF Minimum
<1>2. route \in {"read", "write", "audits", "remove"}
    BY SessionsAssumption
<1>3. RankOf(role) >= 2 => CanWrite(role)
    BY Ranks DEF CanWrite
<1>4. CanWrite(role) => RankOf(role) \in {2, 3, 4}
    BY Ranks DEF CanWrite
<1>5. RankOf(role) \in Nat
    BY Ranks
<1>6. Permits(route, role) /\ route # "read" => CanWrite(role)
    BY <1>1, <1>2, <1>3, <1>5, Ranks DEF Permits, CanWrite
<1>7. ~Permits("write", role) => ~CanWrite(role)
    BY <1>1, <1>4, Ranks DEF Permits
<1>8. QED
    BY <1>6, <1>7

\* The workbench enables its writing buttons for exactly the roles to which the
\* server grants writes (RequireMinimumRole, RequireRoles; EntityPage canWrite).
THEOREM ButtonsDoAgree == Spec => []ButtonsAgree
<1>1. Init => ButtonsAgree
    BY DEF Init, Free, ButtonsAgree
<1>2. ASSUME SessionInv, ButtonsAgree, [Next]_vars PROVE ButtonsAgree'
    <2> SUFFICES ASSUME NEW q \in Requests, req'[q] # req[q],
                        req'[q].at \in {"handler", "refused"}
                 PROVE  /\ req'[q].at = "handler" /\ req'[q].route # "read" =>
                              CanWrite(req'[q].token.role)
                        /\ req'[q].at = "refused" /\ req'[q].why = "insufficient_role"
                              /\ req'[q].route = "write" => ~CanWrite(req'[q].token.role)
        BY <1>2 DEF ButtonsAgree, CanWrite
    <2>1. Authenticate(q)
        BY <1>2, OnlyAuthenticateJudges
    <2>2. req[q].route \in Routes
        BY <1>2, <2>1 DEF Authenticate, SessionInv, Placed
    <2>3. DOMAIN req = Requests
        BY <1>2 DEF SessionInv
    <2>4. /\ req'[q].route = req[q].route /\ req'[q].token = req[q].token
          /\ req'[q].at = "handler" => Permits(req[q].route, req[q].token.role)
          /\ req'[q].at = "refused" /\ req'[q].why = "insufficient_role" =>
                ~Permits(req[q].route, req[q].token.role)
        BY <2>1, <2>3 DEF Authenticate, Refuse
    <2>5. QED
        BY <2>2, <2>4, WritersAgree
<1>3. QED
    BY <1>1, <1>2, SessionInit, SessionStep, PTL DEF Spec

-----------------------------------------------------------------------------
(* Types.  What is not obvious of them is that expiries are whole seconds. *)

\* A multiple of a number leaves nothing when it is divided.
LEMMA Multiple == ASSUME NEW k \in Int, NEW b \in Nat \ {0} PROVE (b * k) % b = 0
BY SMT

\* A number less what is left of its division is a multiple.
LEMMA CutDivides == ASSUME NEW a \in Int, NEW b \in Nat \ {0} PROVE (a - (a % b)) % b = 0
<1>1. PICK k \in Int : a - (a % b) = b * k
    BY SMTT(60)
<1>2. QED
    BY <1>1, Multiple

\* An expiry is a whole second (Login).
LEMMA ExpiryIsSecond == ASSUME NEW t \in Nat PROVE Expiry(t) % Second = 0
<1>1. PICK a \in Int : a = t + TTL
    BY SessionsAssumption
<1>2. (a - (a % Second)) % Second = 0
    BY CutDivides, SessionsAssumption
<1> DEFINE r == (t + TTL) % Second
<1>3. r = a % Second
    BY <1>1
<1> HIDE DEF r
<1>4. Expiry(t) = t + TTL - r
    BY DEF Expiry, r
<1>5. Expiry(t) = a - r
    <2>1. t + TTL \in Nat
        BY SessionsAssumption
    <2>2. r \in Int
        BY <2>1, Remainder, SessionsAssumption DEF r
    <2>3. QED
        BY <1>1, <1>4, <2>2, SessionsAssumption
<1>6. QED
    BY <1>2, <1>3, <1>5, Zenon

Whole(r) == r.at = "answer" => r.token.expires % Second = 0
WholeSeconds == \A q \in Requests : Whole(req[q])

TypedInv == TypeOK /\ WholeSeconds

\* What a place tells of the other fields.
LEMMA Places ==
    ASSUME NEW r \in Where
    PROVE  /\ r.at = "find" => r.client \in Clients /\ r.user \in Users
           /\ r.at = "sign" =>
                 r.client \in Clients /\ r.user \in Users /\ r.role \in Roles
           /\ r.at = "answer" => r.client \in Clients /\ r.token \in Tokens
           /\ r.at = "auth" => r.route \in Routes /\ r.token \in MaybeTokens
BY DEF Where, Free

\* One request moves on, to a place with the fields it has there.
LEMMA OneMovesTyped ==
    ASSUME TypedInv, UNCHANGED <<now, key, accounts, left, session>>,
           NEW q \in Requests, NEW r \in Where, Whole(r), req' = [req EXCEPT ![q] = r]
    PROVE  TypedInv'
<1>1. req' \in [Requests -> Where]
    BY DEF TypedInv, TypeOK
<1>2. \A p \in Requests : Whole(req'[p])
    BY DEF TypedInv, TypeOK, WholeSeconds
<1>3. QED
    BY <1>1, <1>2 DEF TypedInv, TypeOK, WholeSeconds, Whole

\* Nothing but whole seconds from the start.
LEMMA TypedInit == Init => TypedInv
<1> SUFFICES ASSUME Init PROVE TypedInv
    OBVIOUS
<1>1. SessionInv /\ key \in Keys
    BY SessionInit DEF Init
<1>2. session \in [Clients -> MaybeTokens] /\ \A c \in Clients : session[c] = NoSession
    BY DEF Init, MaybeTokens
<1>3. req \in [Requests -> Where] /\ WholeSeconds
    BY DEF Init, Where, WholeSeconds, Whole, Free
<1>4. QED
    BY <1>1, <1>2, <1>3 DEF SessionInv, TypedInv, TypeOK

\* Logins, the calls and their judgement.
LEMMA LoginTyped ==
    ASSUME TypedInv, NEW q \in Requests,
           \/ \E c \in Clients, u \in Users : LoginArrives(q, c, u)
           \/ \E c \in Clients, route \in Routes : Call(q, c, route)
           \/ Find(q) \/ Authenticate(q) \/ Finish(q)
    PROVE  TypedInv'
<1>1. /\ req[q] \in Where /\ now \in Times
      /\ accounts \in [Users -> [role : Roles, active : BOOLEAN]]
      /\ session \in [Clients -> MaybeTokens]
    BY DEF TypedInv, TypeOK
<1>2. Free \in Where /\ Whole(Free)
    BY DEF Where, Free, Whole
<1>3. PICK r \in Where : Whole(r) /\ req' = [req EXCEPT ![q] = r]
    <2>1. CASE \E c \in Clients, u \in Users : LoginArrives(q, c, u)
        <3>1. PICK c \in Clients, u \in Users : LoginArrives(q, c, u)
            BY <2>1
        <3> DEFINE r == [at |-> "find", client |-> c, user |-> u]
        <3>2. r \in Where /\ Whole(r)
            BY DEF Where, Whole
        <3>3. QED
            BY <3>1, <3>2 DEF LoginArrives
    <2>2. CASE \E c \in Clients, route \in Routes : Call(q, c, route)
        <3>1. PICK c \in Clients, route \in Routes : Call(q, c, route)
            BY <2>2
        <3> DEFINE r == [at |-> "auth", route |-> route, token |-> session[c]]
        <3>2. r \in Where /\ Whole(r)
            BY <1>1 DEF Where, Whole
        <3>3. QED
            BY <3>1, <3>2 DEF Call
    <2>3. CASE Find(q)
        <3> DEFINE r == [at |-> "sign", client |-> req[q].client, user |-> req[q].user,
                         role |-> accounts[req[q].user].role, read |-> now]
        <3>1. req[q].client \in Clients /\ req[q].user \in Users
            BY <1>1, <2>3, Places DEF Find
        <3>2. accounts[req[q].user].role \in Roles
            BY <1>1, <3>1
        <3>3. r \in Where /\ Whole(r)
            BY <1>1, <3>1, <3>2 DEF Where, Whole
        <3>4. req' = [req EXCEPT ![q] = r] \/ req' = [req EXCEPT ![q] = Free]
            BY <2>3 DEF Find
        <3>5. QED
            BY <1>2, <3>3, <3>4
    <2>4. CASE Authenticate(q)
        <3>1. req[q].route \in Routes /\ req[q].token \in MaybeTokens
            BY <1>1, <2>4, Places DEF Authenticate
        <3>2. CASE /\ req[q].token # NoSession
                   /\ req' = [req EXCEPT ![q] = [at |-> "handler", route |-> req[q].route,
                                                 token |-> req[q].token]]
            <4> DEFINE r == [at |-> "handler", route |-> req[q].route, token |-> req[q].token]
            <4>1. r \in Where /\ Whole(r)
                BY <3>1, <3>2 DEF Where, MaybeTokens, Whole
            <4>2. QED
                BY <3>2, <4>1
        <3>3. CASE \E why \in {"missing_token", "invalid_token", "incomplete_claims",
                               "insufficient_role"} : Refuse(q, why)
            <4>1. PICK why \in {"missing_token", "invalid_token", "incomplete_claims",
                                "insufficient_role"} : Refuse(q, why)
                BY <3>3
            <4> DEFINE r == [at |-> "refused", route |-> req[q].route, token |-> req[q].token,
                             why |-> why]
            <4>2. r \in Where /\ Whole(r)
                BY <3>1 DEF Where, Whole
            <4>3. QED
                BY <4>1, <4>2 DEF Refuse
        <3>4. QED
            BY <2>4, <3>2, <3>3 DEF Authenticate
    <2>5. CASE Finish(q)
        BY <1>2, <2>5 DEF Finish
    <2>6. QED
        BY <2>1, <2>2, <2>3, <2>4, <2>5
<1>4. UNCHANGED <<now, key, accounts, left, session>>
    BY DEF LoginArrives, Call, Find, Authenticate, Finish
<1>5. QED
    BY <1>3, <1>4, OneMovesTyped

\* A token is signed for a whole second (Login).
LEMMA SignTyped ==
    ASSUME TypedInv, NEW q \in Requests, Sign(q)
    PROVE  TypedInv'
<1> DEFINE token == Token(req[q].user, req[q].role, now)
           r == [at |-> "answer", client |-> req[q].client, token |-> token]
<1>1. req[q].client \in Clients /\ req[q].user \in Users /\ req[q].role \in Roles
    <2>1. req[q] \in Where /\ req[q].at = "sign"
        BY DEF Sign, TypedInv, TypeOK
    <2>2. QED
        BY <2>1, Places
<1>2. now \in Times /\ now \in Nat /\ key \in Keys
    BY SessionsAssumption DEF TypedInv, TypeOK, Times
<1>3. Expiry(now) \in Int /\ Expiry(now) % Second = 0
    BY <1>2, Rounding, ExpiryIsSecond
<1>4. token \in Tokens /\ token.expires = Expiry(now)
    BY <1>1, <1>2, <1>3 DEF Token, Tokens
<1> HIDE DEF token
<1>5. r \in Where /\ Whole(r)
    BY <1>1, <1>3, <1>4 DEF Where, Whole
<1>6. req' = [req EXCEPT ![q] = r] /\ UNCHANGED <<now, key, accounts, left, session>>
    BY DEF Sign, token
<1>7. QED
    BY <1>5, <1>6, OneMovesTyped

\* A session that is stored is one that was signed, a cleared one none.
LEMMA StoringTyped ==
    ASSUME TypedInv,
           (\E q \in Requests : Deliver(q)) \/ (\E c \in Clients : Forget(c))
    PROVE  TypedInv'
<1>1. UNCHANGED <<now, key, accounts, left>>
    BY DEF Deliver, Forget
<1>2. \A q \in Requests : req[q].at = "answer" =>
          req[q].token \in Tokens /\ req[q].token.expires % Second = 0
    BY Places DEF TypedInv, TypeOK, WholeSeconds, Whole
<1>3. req' \in [Requests -> Where] /\ \A q \in Requests : Whole(req'[q])
    BY DEF Deliver, Forget, TypedInv, TypeOK, WholeSeconds, Where, Free, Whole
<1>4. /\ session' \in [Clients -> MaybeTokens]
      /\ \A c \in Clients : session'[c] # NoSession => session'[c].expires % Second = 0
    <2>1. /\ session \in [Clients -> MaybeTokens]
          /\ \A c \in Clients : session[c] # NoSession => session[c].expires % Second = 0
        BY DEF TypedInv, TypeOK
    <2>2. CASE UNCHANGED session
        BY <2>1, <2>2
    <2>3. ASSUME NEW d \in Clients, NEW x \in MaybeTokens, session' = [session EXCEPT ![d] = x],
                 x # NoSession => x.expires % Second = 0
          PROVE  /\ session' \in [Clients -> MaybeTokens]
                 /\ \A c \in Clients : session'[c] # NoSession => session'[c].expires % Second = 0
        BY <2>1, <2>3
    <2>4. CASE \E q \in Requests : Deliver(q) /\ session' # session
        <3>1. PICK q \in Requests : Deliver(q) /\ session' # session
            BY <2>4
        <3>2. req[q] \in Where /\ req[q].at = "answer"
            BY <3>1 DEF Deliver, TypedInv, TypeOK
        <3>3. req[q].client \in Clients /\ req[q].token \in MaybeTokens
            BY <3>2, Places DEF MaybeTokens
        <3>4. QED
            BY <1>2, <2>3, <3>1, <3>2, <3>3 DEF Deliver
    <2>5. CASE \E d \in Clients : Forget(d)
        <3>1. NoSession \in MaybeTokens
            BY DEF MaybeTokens
        <3>2. QED
            BY <2>3, <2>5, <3>1 DEF Forget
    <2>6. QED
        BY <2>2, <2>4, <2>5
<1>5. QED
    BY <1>1, <1>3, <1>4 DEF TypedInv, TypeOK, WholeSeconds, Whole

\* Accounts, restarts and the clock.
LEMMA EnvironmentTyped ==
    ASSUME TypedInv,
           \/ \E u \in Users, role \in Roles, active \in BOOLEAN : SetAccount(u, role, active)
           \/ \E k \in Keys : Restart(k)
           \/ Tick
    PROVE  TypedInv'
<1>1. CASE \E u \in Users, role \in Roles, active \in BOOLEAN : SetAccount(u, role, active)
    <2>1. PICK u \in Users, role \in Roles, active \in BOOLEAN : SetAccount(u, role, active)
        BY <1>1
    <2>2. accounts' \in [Users -> [role : Roles, active : BOOLEAN]]
        BY <2>1 DEF SetAccount, TypedInv, TypeOK
    <2>3. left' \in [Users \X Roles -> Int]
        BY <2>1 DEF SetAccount, TypedInv, TypeOK, Times
    <2>4. QED
        BY <2>1, <2>2, <2>3 DEF SetAccount, TypedInv, TypeOK, WholeSeconds, Whole
<1>2. CASE \E k \in Keys : Restart(k)
    <2>1. PICK k \in Keys : Restart(k)
        BY <1>2
    <2>2. req' \in [Requests -> Where] /\ \A q \in Requests : Whole(req'[q])
        BY <2>1 DEF Restart, TypedInv, TypeOK, WholeSeconds, Where, Free, Whole
    <2>3. QED
        BY <2>1, <2>2 DEF Restart, TypedInv, TypeOK, WholeSeconds, Whole
<1>3. CASE Tick
    <2>1. now' \in Times
        BY <1>3, SessionsAssumption DEF Tick, TypedInv, TypeOK, Times
    <2>2. QED
        BY <1>3, <2>1 DEF Tick, TypedInv, TypeOK, WholeSeconds, Whole
<1>4. QED
    BY <1>1, <1>2, <1>3

\* The state has its type, and every stored token expires on a whole second
\* (Login: the expiry is a Unix time), for any life of a token.
THEOREM SessionsTyped == Spec => []TypeOK
<1>1. TypedInv /\ [Next]_vars => TypedInv'
    <2> SUFFICES ASSUME TypedInv, [Next]_vars PROVE TypedInv'
        OBVIOUS
    <2>1. CASE UNCHANGED vars
        BY <2>1 DEF vars, TypedInv, TypeOK, WholeSeconds, Whole
    <2>2. CASE Next
        BY <2>2, LoginTyped, SignTyped, StoringTyped, EnvironmentTyped DEF Next
    <2>3. QED
        BY <2>1, <2>2
<1>2. TypedInv => TypeOK
    BY DEF TypedInv
<1>3. QED
    BY <1>1, <1>2, TypedInit, PTL DEF Spec
=============================================================================
