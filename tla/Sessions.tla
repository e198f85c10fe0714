------------------------------- MODULE Sessions -------------------------------
(***************************************************************************)
(* Login, tokens and role checks: securityService.Login, the middleware of *)
(* auth.go on the routes of router.go and of the handlers' Register, and   *)
(* the session a client keeps (frontend/src/api/client.ts).                *)
(*                                                                         *)
(* The server remembers no session.  A token carries the role its user had *)
(* when the login read the account, and is judged by that role until it    *)
(* expires or the server is started with another key, whatever becomes of  *)
(* the account.  Accounts are changed by an administrator of the database: *)
(* no code of the program changes one after seeding.                       *)
(*                                                                         *)
(* Time counts ticks, several to a second; a token's expiry is cut to      *)
(* whole seconds.  History: left, and the field issued of a token.         *)
(***************************************************************************)
EXTENDS Integers

CONSTANTS
    Users,       \* the seeded users; each is named after its first role
    Roles,       \* the roles that occur in the users table, unknown ones too
    Clients,     \* browsers or scripts, each with one session of its own
    Requests,    \* the handler goroutines that may run at the same time
    Routes,      \* the kinds of routes that are called
    Keys,        \* signing secret and issuer a server is configured with
    TTL,         \* ticks a token lives: TOKEN_TTL
    Second,      \* ticks of a second
    MaxLogin,    \* ticks from reading an account to signing its token
    MaxTime      \* bound: the clock stops there

ASSUME SessionsAssumption ==
    /\ Users \subseteq Roles \cap {"viewer", "operator", "reviewer", "admin"}
    /\ Routes \subseteq {"read", "write", "audits", "remove"}
    /\ TTL \in Nat /\ MaxLogin \in Nat /\ MaxTime \in Nat
    /\ Second \in Nat \ {0}

Times == 0..MaxTime

VARIABLES
    now,       \* the time, in ticks
    key,       \* what the running server signs and verifies with
    accounts,  \* the users table: role and active flag
    session,   \* per client: the token it stored, or NoSession
    req,       \* per request: where its handler is
    left       \* when a user last ceased to be active in a role

vars == <<now, key, accounts, session, req, left>>

NoSession == [user |-> "nobody"]
Free == [at |-> "free"]

Rank == [viewer |-> 1, operator |-> 2, reviewer |-> 3, admin |-> 4]

\* The rank of a role, 0 for one that is not in the table.
RankOf(role) == IF role \in DOMAIN Rank THEN Rank[role] ELSE 0

\* Variant: writing is left to reviewers.
MinimumRaised == [read |-> "viewer", write |-> "reviewer", audits |-> "reviewer"]

\* The lowest role of the routes that ask for a minimum.
Minimum == [read |-> "viewer", write |-> "operator", audits |-> "reviewer"]

Permits(route, role) ==
    \/ route = "remove" /\ role \in {"admin"}
    \/ route # "remove" /\ RankOf(role) >= RankOf(Minimum[route])

\* The roles to which the workbench enables its writing buttons.
CanWrite(role) == role \in {"operator", "reviewer", "admin"}

\* Variants: the expiry is not cut to seconds, or cut upwards.
ExpiryExact(t) == t + TTL
ExpiryRoundedUp(t) == t + TTL + Second - ((t + TTL) % Second)

Expiry(t) == t + TTL - ((t + TTL) % Second)

Token(u, role, t) ==
    [user |-> u, role |-> role, issued |-> t, expires |-> Expiry(t), key |-> key]

\* Signature, issuer and expiry of a token hold.
Valid(token) == token.key = key /\ now < token.expires

Init ==
    /\ now = 0
    /\ key \in Keys
    /\ accounts = [u \in Users |-> [role |-> u, active |-> TRUE]]
    /\ session = [c \in Clients |-> NoSession]
    /\ req = [q \in Requests |-> Free]
    /\ left = [w \in Users \X Roles |-> -(TTL + MaxLogin)]

-----------------------------------------------------------------------------
(* Login. *)

LoginArrives(q, c, u) ==
    /\ req[q] = Free
    /\ req' = [req EXCEPT ![q] = [at |-> "find", client |-> c, user |-> u]]
    /\ UNCHANGED <<now, key, accounts, session, left>>

\* The account is read, if it is active.  The answer is 401 if it is not, if
\* the statement fails, and if the password then proves to be wrong.
Find(q) ==
    /\ req[q].at = "find"
    /\ LET u == req[q].user IN
          \/ /\ accounts[u].active
             /\ req' = [req EXCEPT ![q] = [at |-> "sign", client |-> req[q].client,
                                           user |-> u, role |-> accounts[u].role,
                                           read |-> now]]
          \/ req' = [req EXCEPT ![q] = Free]
    /\ UNCHANGED <<now, key, accounts, session, left>>

\* Variant: the token's times are taken before the password is compared.
SignEarly(q) ==
    /\ req[q].at = "sign"
    /\ req' = [req EXCEPT ![q] =
                  [at |-> "answer", client |-> req[q].client,
                   token |-> [Token(req[q].user, req[q].role, now)
                                 EXCEPT !.expires = Expiry(req[q].read)]]]
    /\ UNCHANGED <<now, key, accounts, session, left>>

\* The password matched: the token is signed for the account as it was read.
Sign(q) ==
    /\ req[q].at = "sign"
    /\ req' = [req EXCEPT ![q] =
                  [at |-> "answer", client |-> req[q].client,
                   token |-> Token(req[q].user, req[q].role, now)]]
    /\ UNCHANGED <<now, key, accounts, session, left>>

\* The client stores the session it is sent (saveSession), or never gets it.
Deliver(q) ==
    /\ req[q].at = "answer"
    /\ req' = [req EXCEPT ![q] = Free]
    /\ \/ session' = [session EXCEPT ![req[q].client] = req[q].token]
       \/ UNCHANGED session
    /\ UNCHANGED <<now, key, accounts, left>>

\* The session is cleared before the user logs in again (clearSession).
Forget(c) ==
    /\ session[c] # NoSession
    /\ session' = [session EXCEPT ![c] = NoSession]
    /\ UNCHANGED <<now, key, accounts, req, left>>

-----------------------------------------------------------------------------
(* Requests to the other routes. *)

\* A client sends a request with the token it holds at that moment, if any.
Call(q, c, route) ==
    /\ req[q] = Free
    /\ req' = [req EXCEPT ![q] = [at |-> "auth", route |-> route, token |-> session[c]]]
    /\ UNCHANGED <<now, key, accounts, session, left>>

Refuse(q, why) ==
    req' = [req EXCEPT ![q] = [at |-> "refused", route |-> req[q].route,
                               token |-> req[q].token, why |-> why]]

\* Authenticate, then the role check of the route.
Authenticate(q) ==
    /\ req[q].at = "auth"
    /\ LET token == req[q].token IN
          \/ token = NoSession /\ Refuse(q, "missing_token")
          \/ token # NoSession /\
                \/ ~Valid(token) /\ Refuse(q, "invalid_token")
                \/ Valid(token) /\
                      \/ RankOf(token.role) = 0 /\ Refuse(q, "incomplete_claims")
                      \/ RankOf(token.role) # 0 /\
                            \/ /\ Permits(req[q].route, token.role)
                               /\ req' = [req EXCEPT ![q] = [at |-> "handler",
                                     route |-> req[q].route, token |-> token]]
                            \/ /\ ~Permits(req[q].route, token.role)
                               /\ Refuse(q, "insufficient_role")
    /\ UNCHANGED <<now, key, accounts, session, left>>

Finish(q) ==
    /\ req[q].at \in {"handler", "refused"}
    /\ req' = [req EXCEPT ![q] = Free]
    /\ UNCHANGED <<now, key, accounts, session, left>>

-----------------------------------------------------------------------------
(* The environment. *)

\* The administrator changes the row of a user.
SetAccount(u, role, active) ==
    /\ accounts' = [accounts EXCEPT ![u] = [role |-> role, active |-> active]]
    /\ left' = IF accounts[u].active
               THEN [left EXCEPT ![<<u, accounts[u].role>>] = now]
               ELSE left
    /\ UNCHANGED <<now, key, session, req>>

\* The server ends and starts again, perhaps with another key.  Requests die
\* with it, but not the answers it has sent, nor what clients have stored.
Restart(k) ==
    /\ key' = k
    /\ req' = [q \in Requests |-> IF req[q].at = "answer" THEN req[q] ELSE Free]
    /\ UNCHANGED <<now, accounts, session, left>>

\* No login takes longer than MaxLogin from reading the account to signing.
Tick ==
    /\ now < MaxTime
    /\ \A q \in Requests : req[q].at = "sign" => now < req[q].read + MaxLogin
    /\ now' = now + 1
    /\ UNCHANGED <<key, accounts, session, req, left>>

Next ==
    \/ \E q \in Requests :
          \/ \E c \in Clients, u \in Users : LoginArrives(q, c, u)
          \/ Find(q) \/ Sign(q) \/ Deliver(q)
          \/ \E c \in Clients, route \in Routes : Call(q, c, route)
          \/ Authenticate(q) \/ Finish(q)
    \/ \E c \in Clients : Forget(c)
    \/ \E u \in Users, role \in Roles, active \in BOOLEAN : SetAccount(u, role, active)
    \/ \E k \in Keys : Restart(k)
    \/ Tick

Spec == Init /\ [][Next]_vars

-----------------------------------------------------------------------------
(* Properties. *)

Tokens == [user : Users, role : Roles, issued : Times, expires : Int, key : Keys]
MaybeTokens == Tokens \cup {NoSession}

Where ==
    {Free}
    \cup [at : {"find"}, client : Clients, user : Users]
    \cup [at : {"sign"}, client : Clients, user : Users, role : Roles, read : Times]
    \cup [at : {"answer"}, client : Clients, token : Tokens]
    \cup [at : {"auth"}, route : Routes, token : MaybeTokens]
    \cup [at : {"handler"}, route : Routes, token : Tokens]
    \cup [at : {"refused"}, route : Routes, token : MaybeTokens,
          why : {"missing_token", "invalid_token", "incomplete_claims", "insufficient_role"}]

\* Tokens expire on whole seconds (Login: exp is a Unix time).
TypeOK ==
    /\ now \in Times /\ key \in Keys
    /\ accounts \in [Users -> [role : Roles, active : BOOLEAN]]
    /\ session \in [Clients -> MaybeTokens]
    /\ req \in [Requests -> Where]
    /\ left \in [Users \X Roles -> Int]
    /\ \A c \in Clients : session[c] # NoSession => session[c].expires % Second = 0

\* Was the user active in the role less than d ticks ago, or is it now?
HeldWithin(u, role, d) ==
    \/ accounts[u] = [role |-> role, active |-> TRUE]
    \/ now < left[<<u, role>>] + d

\* The request's token is accepted and its role judged in this step.
Judged(q) ==
    /\ req[q].at = "auth"
    /\ \/ req'[q].at = "handler"
       \/ req'[q].at = "refused" /\ req'[q].why = "insufficient_role"

\* Rights end with a delay that is bounded: a request is served, or refused for
\* want of rights, by a role that its user really had less than TTL and one
\* login ago, however logins, changes of the account, expiry, restarts and
\* late answers interleave (Login, Authenticate, RequireMinimumRole).
RightsAreRecent ==
    [][\A q \in Requests : Judged(q) =>
          HeldWithin(req[q].token.user, req[q].token.role, TTL + MaxLogin)]_vars

\* A session lasts: a token is only called invalid if the server has another
\* key than the one that signed it, or if its life, less the second lost to
\* rounding, is over (Login, Authenticate).
SessionsLast ==
    [][\A q \in Requests :
          req[q].at = "auth" /\ req'[q].at = "refused" /\ req'[q].why = "invalid_token" =>
             \/ req[q].token.key # key
             \/ now > req[q].token.issued + TTL - Second]_vars

\* The buttons the workbench enables are those the server honours: a write is
\* never refused for want of rights to a role whose buttons are enabled, and
\* whoever is served more than reads has his buttons enabled (README: role
\* checks of the routes and of the buttons agree; EntityPage canWrite).
ButtonsAgree ==
    \A q \in Requests :
        /\ req[q].at = "handler" /\ req[q].route # "read" => CanWrite(req[q].token.role)
        /\ req[q].at = "refused" /\ req[q].why = "insufficient_role" /\ req[q].route = "write"
              => ~CanWrite(req[q].token.role)
=============================================================================
