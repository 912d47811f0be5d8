------------------------------ MODULE Sessions ------------------------------
(***************************************************************************)
(* Who is logged in and what he may do: the handlers of AuthController and *)
(* UsersController between the tables users and refresh_tokens and the     *)
(* cookies of the browsers.                                                *)
(*                                                                         *)
(* A session is two JWTs in cookies.  The access token names the user and  *)
(* carries his roles; it is trusted until it expires, without a look at    *)
(* the database.  The refresh token names a row of refresh_tokens and is   *)
(* exchanged for a new pair once: rotate revokes the row.                  *)
(*                                                                         *)
(* A handler is cut at its awaits.  A request that is refused before it    *)
(* has changed anything is no step.                                        *)
(***************************************************************************)
EXTENDS Integers, FiniteSets

CONSTANTS
  Browsers,        \* each with its cookies
  Emails, Owner,   \* Owner: the address that registers as super user
  Ids,             \* ids of users
  Jtis,            \* ids of refresh tokens
  Grants,          \* the role lists that are requested (sets of roles)
  None,
  AccessLifetime, RefreshLifetime,   \* in ticks
  Slots,           \* bound: requests in flight
  MaxCalls,        \* bound: requests
  MaxTicks,        \* bound: the clock
  MaxFaults        \* bound: failed statements, lost replies, crashes

\* The role codes; a role's first digit is its level, the last one its rank
\* among roles with the same first three.
Code == [superUser |-> 1000, admin |-> 2000,
         userFL |-> 3011, userHL |-> 3012, userML |-> 3013, userLL |-> 3014]
Roles == DOMAIN Code

ASSUME GrantsAssumption == Grants \subseteq SUBSET Roles
ASSUME NoneAssumption   == None \notin Ids /\ None \notin Jtis
ASSUME TimesAssumption  == /\ AccessLifetime \in Nat /\ RefreshLifetime \in Nat
                           /\ MaxCalls \in Nat /\ MaxTicks \in Nat /\ MaxFaults \in Nat

VARIABLES
  users,    \* [Ids -> row or None]
  tokens,   \* [Jtis -> row or None]: refresh_tokens
  cookies,  \* [Browsers -> pair of cookies]
  jobs,     \* [Slots -> request in flight or None]
  now,
  raced,    \* history: refresh tokens presented twice at the same time
  calls, faults

vars == <<users, tokens, cookies, jobs, now, raced, calls, faults>>

UserRows  == [email : Emails, roles : SUBSET Roles]
\* expiresAt is written and never read; parent is a history variable: the token
\* this one was exchanged for.
TokenRows == [user : Ids, revoked : BOOLEAN, parent : Jtis \cup {None}]

ASSUME RowsAssumption   == /\ \A r \in UserRows  : r # None
                           /\ \A r \in TokenRows : r # None

Times    == 0..(MaxTicks + AccessLifetime + RefreshLifetime)
Access   == [user : Ids, roles : SUBSET Roles, exp : Times]
Refresh  == [user : Ids, jti : Jtis, exp : Times]
Pairs    == [access : Access \cup {None}, refresh : Refresh \cup {None}]
NoPair   == [access |-> None, refresh |-> None]

\* A request: the user it is about and the roles read for him (or to be given),
\* the refresh token presented, the cookies of the reply, and the statement it
\* is suspended on.  held is a history variable: the roles its user has had
\* since the request came; by: the roles in the access token of who asked.
Jobs == [kind : {"register", "login", "refresh", "logout", "updateRoles"},
         from : Browsers, at : {"save", "revoke", "reread", "insert", "saveRoles", "reply"},
         email : Emails \cup {None}, user : Ids \cup {None}, roles : SUBSET Roles,
         jti : Jtis \cup {None}, gives : Pairs,
         held : SUBSET Roles, by : SUBSET Roles]

ASSUME JobsAssumption == None \notin Jobs

NoJob(kind, b) ==
  [kind |-> kind, from |-> b, at |-> "reply", email |-> None, user |-> None,
   roles |-> {}, jti |-> None, gives |-> NoPair, held |-> {}, by |-> {}]

Init ==
  /\ users   = [u \in Ids |-> None]
  /\ tokens  = [j \in Jtis |-> None]
  /\ cookies = [b \in Browsers |-> NoPair]
  /\ jobs    = [s \in Slots |-> None]
  /\ now     = 0
  /\ raced   = {}
  /\ calls   = 0
  /\ faults  = 0

Running(s)    == jobs[s] # None
HasEmail(u, e) == users[u] # None /\ users[u].email = e

\* A request enters a free slot.
Start(job) ==
  /\ calls < MaxCalls
  /\ calls' = calls + 1
  /\ \E s \in Slots : ~Running(s)
  /\ jobs' = [jobs EXCEPT ![CHOOSE s \in Slots : ~Running(s)] = job]
-----------------------------------------------------------------------------
(***************************************************************************)
(* The roles guard.                                                        *)
(***************************************************************************)
\* getRoles: the roles a role includes.
Expand(r) ==
  {q \in Roles : \/ Code[q] \div 1000 > Code[r] \div 1000
                 \/ Code[q] \div 10 = Code[r] \div 10 /\ Code[q] % 10 > Code[r] % 10
                 \/ q = r}

Valid(token)          == token # None /\ now < token.exp
MayDo(roles, required) == \E r \in roles : required \cap Expand(r) # {}
-----------------------------------------------------------------------------
(***************************************************************************)
(* Issuing a pair of tokens, the end of register, login and refresh.       *)
(***************************************************************************)
\* issuePair: the row is inserted, the tokens are signed with the roles the
\* handler has, and the reply sets both cookies.
IssuePair(s) ==
  /\ Running(s) /\ jobs[s].at = "insert"
  /\ \E jti \in Jtis : tokens[jti] = None
  /\ LET j   == jobs[s]
         jti == CHOOSE t \in Jtis : tokens[t] = None
     IN  /\ tokens' = [tokens EXCEPT ![jti] =
                         [user |-> j.user, revoked |-> FALSE, parent |-> j.jti]]
         /\ jobs' = [jobs EXCEPT ![s].at = "reply",
              ![s].gives = [access  |-> [user |-> j.user, roles |-> j.roles,
                                         exp |-> now + AccessLifetime],
                            refresh |-> [user |-> j.user, jti |-> jti,
                                         exp |-> now + RefreshLifetime]]]
  /\ UNCHANGED <<users, cookies, now, raced, calls, faults>>

\* The reply reaches the browser.  Only updateRoles sets no cookies.
Reply(s) ==
  /\ Running(s) /\ jobs[s].at = "reply"
  /\ cookies' = IF jobs[s].kind = "updateRoles" THEN cookies
                ELSE [cookies EXCEPT ![jobs[s].from] = jobs[s].gives]
  /\ jobs' = [jobs EXCEPT ![s] = None]
  /\ UNCHANGED <<users, tokens, now, raced, calls, faults>>
-----------------------------------------------------------------------------
(***************************************************************************)
(* Register, login, refresh, logout.                                       *)
(***************************************************************************)
\* The address is not in use yet; the password is hashed.
Register(b, e) ==
  /\ ~\E u \in Ids : HasEmail(u, e)
  /\ Start([NoJob("register", b) EXCEPT !.at = "save", !.email = e])
  /\ UNCHANGED <<users, tokens, cookies, now, raced, faults>>

DefaultRoles(e) == IF e = Owner THEN {"superUser"} ELSE {"userLL"}

\* mutant: the table has no unique index on email
CanInsertAny(e) == TRUE
\* The unique index of the table.
CanInsert(e) == ~\E u \in Ids : HasEmail(u, e)

\* The user is saved; if the address has been taken meanwhile the database
\* refuses, and the request ends.
SaveUser(s) ==
  /\ Running(s) /\ jobs[s].at = "save"
  /\ \E u \in Ids : users[u] = None
  /\ LET e == jobs[s].email
         r == DefaultRoles(e)
         u == CHOOSE v \in Ids : users[v] = None
     IN  IF CanInsert(e)
         THEN /\ users' = [users EXCEPT ![u] = [email |-> e, roles |-> r]]
              /\ jobs'  = [jobs EXCEPT ![s].at = "insert", ![s].user = u,
                                       ![s].roles = r, ![s].held = r]
         ELSE /\ jobs' = [jobs EXCEPT ![s] = None]
              /\ UNCHANGED users
  /\ UNCHANGED <<tokens, cookies, now, raced, calls, faults>>

\* The user is found and the password compared.
Login(b, u) ==
  /\ users[u] # None
  /\ Start([NoJob("login", b) EXCEPT !.at = "insert", !.user = u,
              !.roles = users[u].roles, !.held = users[u].roles])
  /\ UNCHANGED <<users, tokens, cookies, now, raced, faults>>

\* The guard accepts the refresh token, and its row is not revoked.
RefreshPair(b) ==
  LET t == cookies[b].refresh
  IN  /\ Valid(t)
      /\ tokens[t.jti] # None /\ ~tokens[t.jti].revoked
      /\ Start([NoJob("refresh", b) EXCEPT !.at = "revoke", !.user = t.user,
                  !.jti = t.jti, !.held = users[t.user].roles])
      /\ raced' = IF \E s \in Slots : Running(s) /\ jobs[s].jti = t.jti
                  THEN raced \cup {t.jti} ELSE raced
      /\ UNCHANGED <<users, tokens, cookies, now, faults>>

\* mutant: the row is left as it is
RevokedNone(jti) == tokens
\* mutant: every session of the user is revoked
RevokedAll(jti) ==
  [j \in Jtis |-> IF tokens[j] # None /\ tokens[j].user = tokens[jti].user
                  THEN [tokens[j] EXCEPT !.revoked = TRUE] ELSE tokens[j]]
\* mutant: the row is deleted instead
RevokedGone(jti) == [tokens EXCEPT ![jti] = None]
\* The row is revoked, whether or not another request did so meanwhile.
Revoked(jti) == [tokens EXCEPT ![jti].revoked = TRUE]

Revoke(s) ==
  /\ Running(s) /\ jobs[s].at = "revoke"
  /\ tokens' = Revoked(jobs[s].jti)
  /\ jobs'   = [jobs EXCEPT ![s].at = "reread"]
  /\ UNCHANGED <<users, cookies, now, raced, calls, faults>>

\* mutant: the roles are taken over from the access token
RolesInCookie(s) ==
  LET t == cookies[jobs[s].from].access IN IF t = None THEN {} ELSE t.roles
\* The user is read again: the new access token has his roles of now.
RolesOf(s) == users[jobs[s].user].roles

Reread(s) ==
  /\ Running(s) /\ jobs[s].at = "reread"
  /\ jobs' = [jobs EXCEPT ![s].at = "insert", ![s].roles = RolesOf(s)]
  /\ UNCHANGED <<users, tokens, cookies, now, raced, calls, faults>>

\* The reply clears both cookies; the row of the refresh token stays as it is.
Logout(b) ==
  /\ Start(NoJob("logout", b))
  /\ UNCHANGED <<users, tokens, cookies, now, raced, faults>>
-----------------------------------------------------------------------------
(***************************************************************************)
(* updateRoles.                                                            *)
(***************************************************************************)
\* The guards accept the access token, and the user found is no super user.
UpdateRoles(b, u, roles) ==
  LET t == cookies[b].access
  IN  /\ Valid(t)
      /\ MayDo(t.roles, {"admin", "superUser"})
      /\ roles # {}
      /\ users[u] # None /\ "superUser" \notin users[u].roles
      /\ Start([NoJob("updateRoles", b) EXCEPT !.at = "saveRoles", !.user = u,
                  !.roles = roles, !.by = t.roles])
      /\ UNCHANGED <<users, tokens, cookies, now, raced, faults>>

\* mutant: every role of the list is given
GivenAll(roles) == roles
\* Nobody becomes super user.
Given(roles) == roles \ {"superUser"}

\* The requests of a user notice the roles he gets.
Noticing(u, roles) ==
  [t \in Slots |-> IF Running(t) /\ jobs[t].user = u /\ jobs[t].kind # "updateRoles"
                   THEN [jobs[t] EXCEPT !.held = @ \cup roles] ELSE jobs[t]]

SaveRoles(s) ==
  /\ Running(s) /\ jobs[s].at = "saveRoles"
  /\ LET u == jobs[s].user
         r == Given(jobs[s].roles)
     IN  /\ users' = [users EXCEPT ![u].roles = r]
         /\ jobs'  = [Noticing(u, r) EXCEPT ![s].at = "reply"]
  /\ UNCHANGED <<tokens, cookies, now, raced, calls, faults>>
-----------------------------------------------------------------------------
(***************************************************************************)
(* Failures and time.                                                      *)
(***************************************************************************)
\* A statement of the request fails, or its reply is lost.
Drop(s) ==
  /\ Running(s)
  /\ faults < MaxFaults /\ faults' = faults + 1
  /\ jobs' = [jobs EXCEPT ![s] = None]
  /\ UNCHANGED <<users, tokens, cookies, now, raced, calls>>

\* The server dies and starts again.
Crash ==
  /\ \E s \in Slots : Running(s)
  /\ faults < MaxFaults /\ faults' = faults + 1
  /\ jobs' = [s \in Slots |-> None]
  /\ UNCHANGED <<users, tokens, cookies, now, raced, calls>>

Tick ==
  /\ now < MaxTicks
  /\ now' = now + 1
  /\ UNCHANGED <<users, tokens, cookies, jobs, raced, calls, faults>>

Requests ==
  \/ \E b \in Browsers, e \in Emails : Register(b, e)
  \/ \E b \in Browsers, u \in Ids : Login(b, u)
  \/ \E b \in Browsers : RefreshPair(b) \/ Logout(b)
  \/ \E b \in Browsers, u \in Ids, roles \in Grants : UpdateRoles(b, u, roles)

Handlers ==
  \E s \in Slots :
    \/ SaveUser(s) \/ IssuePair(s)
    \/ Revoke(s) \/ Reread(s) \/ SaveRoles(s) \/ Reply(s) \/ Drop(s)

Next == Requests \/ Handlers \/ Crash \/ Tick

Spec == Init /\ [][Next]_vars
-----------------------------------------------------------------------------
(***************************************************************************)
(* Properties.                                                             *)
(***************************************************************************)
\* The state stays within its types, and a user or a token that a request is
\* about to use exists.
TypeOK ==
  /\ users \in [Ids -> UserRows \cup {None}]
  /\ tokens \in [Jtis -> TokenRows \cup {None}]
  /\ cookies \in [Browsers -> Pairs]
  /\ jobs \in [Slots -> Jobs \cup {None}]
  /\ \A s \in Slots : Running(s) =>
       /\ jobs[s].at \in {"reread", "insert", "saveRoles"} => users[jobs[s].user] # None
       /\ jobs[s].at = "revoke" => tokens[jobs[s].jti] # None
  /\ now \in 0..MaxTicks
  /\ raced \subseteq Jtis
  /\ calls \in 0..MaxCalls /\ faults \in 0..MaxFaults

\* Two registrations of one address that overlap make one user.
EmailsUnique ==
  \A u, v \in Ids : users[u] # None /\ HasEmail(v, users[u].email) => u = v

\* "super user role can't be changed": the owner keeps the role and nobody else
\* gets it, although updateRoles checks the user it read and saves him later.
OnlyOwnerIsSuper ==
  \A u \in Ids : users[u] # None =>
    ("superUser" \in users[u].roles <=> users[u].email = Owner)

\* Role changes take effect: the roles a request is about to sign into an access
\* token are roles its user has had since the request came.
GrantedRolesWereHeld ==
  \A s \in Slots :
    Running(s) /\ jobs[s].at = "insert" => jobs[s].roles \subseteq jobs[s].held

\* A refresh token is exchanged for one pair, unless two exchanges overlapped.
ExchangedOnce ==
  \A j, k \in Jtis :
    /\ tokens[j] # None /\ tokens[k] # None /\ j # k
    /\ tokens[j].parent # None /\ tokens[j].parent = tokens[k].parent
    => tokens[j].parent \in raced

\* As long as nothing fails, a browser that waits for no reply holds a refresh
\* token that can still be exchanged, whatever its tabs did at the same time:
\* nobody is logged out by rotation.
CookieIsLive ==
  faults = 0 =>
    \A b \in Browsers :
      /\ cookies[b].refresh # None
      /\ \A s \in Slots : Running(s) => jobs[s].from # b
      => /\ tokens[cookies[b].refresh.jti] # None
         /\ ~tokens[cookies[b].refresh.jti].revoked
=============================================================================
