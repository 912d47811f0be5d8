--------------------------- MODULE RotationProofs ---------------------------
(***************************************************************************)
(* Proofs about the tokens of Sessions, for every set of browsers, users   *)
(* and tokens, every number of requests in flight and every bound.         *)
(*                                                                         *)
(* Three facts that no statement of the handlers establishes by itself:    *)
(* the roles signed into an access token were held, a refresh token is     *)
(* exchanged once, and rotation logs nobody out.  Each has an invariant    *)
(* that says what the requests in flight have already done, because a      *)
(* refresh checks its token, revokes it, reads the user and inserts the    *)
(* next token at four different moments.                                   *)
(***************************************************************************)
EXTENDS SessionsProofs

\* Only the request in slot s changes.
OthersKept(s) == \A t \in Slots : t # s => jobs'[t] = jobs[t]

LEMMA Entered ==
  ASSUME JobsTyped, NEW j, Start(j)
  PROVE  \E s \in Slots : ~Running(s) /\ jobs'[s] = j /\ OthersKept(s)
<1> DEFINE s == CHOOSE t \in Slots : ~Running(t)
<1>1. s \in Slots /\ ~Running(s) /\ jobs' = [jobs EXCEPT ![s] = j]
  BY DEF Start
<1> HIDE DEF s
<1> QED
  BY <1>1 DEF JobsTyped, OthersKept

\* A request ends.
LEMMA Ended ==
  ASSUME JobsTyped, NEW s \in Slots, jobs' = [jobs EXCEPT ![s] = None]
  PROVE  jobs'[s] = None /\ OthersKept(s)
BY DEF JobsTyped, OthersKept

\* The request in slot s goes on, the same request of the same browser.
GoesOn(s) ==
  /\ OthersKept(s) /\ jobs'[s] \in Jobs
  /\ jobs'[s].kind = jobs[s].kind /\ jobs'[s].from = jobs[s].from
  /\ jobs'[s].jti = jobs[s].jti

\* What each statement of a handler leaves of its request.
LEMMA AfterSaveUser ==
  ASSUME Inv, NEW s \in Slots, SaveUser(s)
  PROVE  \/ /\ users' = users /\ jobs'[s] = None /\ OthersKept(s)
         \/ /\ GoesOn(s) /\ jobs'[s].at = "insert" /\ jobs'[s].gives = jobs[s].gives
            /\ \A u \in Ids : users[u] # None => users'[u] = users[u]
            /\ users'[jobs'[s].user].roles = jobs'[s].roles
            /\ jobs'[s].held = jobs'[s].roles
<1> DEFINE e == jobs[s].email
           r == DefaultRoles(e)
           u == CHOOSE v \in Ids : users[v] = None
           j == [jobs[s] EXCEPT !.at = "insert", !.user = u, !.roles = r, !.held = r]
<1>1. jobs[s] \in Jobs
  BY RunningJob DEF SaveUser
<1>2. u \in Ids /\ users[u] = None /\ r \subseteq Roles
  BY DEF SaveUser, DefaultRoles, Roles, Code
<1>3. CASE CanInsert(e)
  <2>1. users' = [users EXCEPT ![u] = [email |-> e, roles |-> r]]
    BY <1>3 DEF SaveUser
  <2>2. jobs' = [jobs EXCEPT ![s] = j]
    <3>1. s \in DOMAIN jobs
      BY DEF Inv, JobsInv, JobsTyped
    <3> QED
      BY <1>3, <3>1 DEF SaveUser
  <2> HIDE DEF u, r
  <2>3. users'[u].roles = r /\ \A v \in Ids : users[v] # None => users'[v] = users[v]
    BY <1>2, <2>1 DEF Inv, TablesInv, TablesTyped
  <2>4. /\ j.kind = jobs[s].kind /\ j.from = jobs[s].from /\ j.jti = jobs[s].jti
        /\ j.gives = jobs[s].gives /\ j.at = "insert" /\ j.user = u /\ j.roles = r /\ j.held = r
    BY <1>1 DEF Jobs
  <2>5. j \in Jobs
    BY <1>1, <1>2 DEF Jobs
  <2> HIDE DEF j
  <2>6. jobs'[s] = j /\ OthersKept(s)
    BY <2>2 DEF OthersKept, Inv, JobsInv, JobsTyped
  <2> QED
    BY <1>2, <2>3, <2>4, <2>5, <2>6 DEF GoesOn
<1>4. CASE ~CanInsert(e)
  BY <1>4, Ended DEF SaveUser, Inv, JobsInv
<1> QED
  BY <1>3, <1>4

LEMMA AfterRevoke ==
  ASSUME Inv, NEW s \in Slots, Revoke(s)
  PROVE  /\ GoesOn(s) /\ jobs[s].at = "revoke" /\ jobs'[s].at = "reread"
         /\ jobs'[s].user = jobs[s].user /\ jobs'[s].held = jobs[s].held
         /\ jobs'[s].gives = jobs[s].gives
         /\ jobs[s].jti \in Jtis /\ tokens[jobs[s].jti] # None
         /\ \A k \in Jtis : tokens[k] # None =>
              /\ tokens'[k] # None /\ tokens'[k].parent = tokens[k].parent
              /\ k # jobs[s].jti => tokens'[k] = tokens[k]
         /\ \A k \in Jtis : tokens'[k] # None => tokens[k] # None
         /\ tokens'[jobs[s].jti].revoked
<1> DEFINE old == jobs[s]
           j == [old EXCEPT !.at = "reread"]
           row == [tokens[old.jti] EXCEPT !.revoked = TRUE]
<1>1. old \in Jobs /\ Sound(old, users, tokens) /\ old.at = "revoke"
  BY RunningJob DEF Revoke
<1>2. old.jti \in Jtis /\ tokens[old.jti] # None /\ tokens[old.jti] \in TokenRows
  BY <1>1 DEF Sound, Inv, TablesInv, TablesTyped
<1>3. tokens' = [tokens EXCEPT ![old.jti] = row] /\ jobs' = [jobs EXCEPT ![s] = j]
  <2>1. s \in DOMAIN jobs
    BY DEF Inv, JobsInv, JobsTyped
  <2>2. old.jti \in DOMAIN tokens
    BY <1>2 DEF Inv, TablesInv, TablesTyped
  <2> QED
    BY <2>1, <2>2 DEF Revoke, Revoked
<1>4. row \in TokenRows /\ row.parent = tokens[old.jti].parent /\ row.revoked
  BY <1>2 DEF TokenRows
<1>5. row # None
  BY <1>4, RowsAssumption
<1>6. /\ j \in Jobs /\ j.kind = old.kind /\ j.from = old.from /\ j.jti = old.jti
      /\ j.at = "reread" /\ j.user = old.user /\ j.held = old.held /\ j.gives = old.gives
  BY <1>1 DEF Jobs
<1> HIDE DEF j, row
<1>7. jobs'[s] = j /\ OthersKept(s)
  BY <1>3 DEF OthersKept, Inv, JobsInv, JobsTyped
<1>8. /\ tokens'[old.jti] = row
      /\ \A k \in Jtis : k # old.jti => tokens'[k] = tokens[k]
  BY <1>2, <1>3 DEF Inv, TablesInv, TablesTyped
<1> HIDE DEF old
<1>9. GoesOn(s)
  BY <1>6, <1>7 DEF GoesOn, old
<1>10. /\ \A k \in Jtis : tokens[k] # None =>
              /\ tokens'[k] # None /\ tokens'[k].parent = tokens[k].parent
              /\ k # old.jti => tokens'[k] = tokens[k]
       /\ \A k \in Jtis : tokens'[k] # None => tokens[k] # None
       /\ tokens'[old.jti].revoked
  BY <1>2, <1>4, <1>5, <1>8
<1> QED
  BY <1>1, <1>2, <1>6, <1>7, <1>9, <1>10 DEF old

LEMMA AfterReread ==
  ASSUME Inv, NEW s \in Slots, Reread(s)
  PROVE  /\ GoesOn(s) /\ jobs[s].at = "reread" /\ jobs'[s].at = "insert"
         /\ jobs'[s].user = jobs[s].user /\ jobs'[s].held = jobs[s].held
         /\ jobs'[s].gives = jobs[s].gives
         /\ jobs'[s].roles = users[jobs[s].user].roles
<1> DEFINE old == jobs[s]
           r == RolesOf(s)
           j == [old EXCEPT !.at = "insert", !.roles = r]
<1>1. old \in Jobs /\ Sound(old, users, tokens) /\ old.at = "reread"
  BY RunningJob DEF Reread
<1>2. r \subseteq Roles
  BY <1>1, RowTyped DEF RolesOf, Inv, Sound, Uses
<1>3. jobs' = [jobs EXCEPT ![s] = j]
  <2>1. s \in DOMAIN jobs
    BY DEF Inv, JobsInv, JobsTyped
  <2> QED
    BY <2>1 DEF Reread
<1> HIDE DEF r
<1>4. /\ j \in Jobs /\ j.kind = old.kind /\ j.from = old.from /\ j.jti = old.jti
      /\ j.at = "insert" /\ j.user = old.user /\ j.held = old.held /\ j.gives = old.gives
      /\ j.roles = r
  BY <1>1, <1>2 DEF Jobs
<1> HIDE DEF j
<1>5. jobs'[s] = j /\ OthersKept(s)
  BY <1>3 DEF OthersKept, Inv, JobsInv, JobsTyped
<1> QED
  BY <1>1, <1>4, <1>5 DEF GoesOn, r, RolesOf

LEMMA AfterIssuePair ==
  ASSUME Inv, NEW s \in Slots, IssuePair(s)
  PROVE  \E jti \in Jtis, row \in TokenRows :
         /\ GoesOn(s) /\ jobs[s].at = "insert" /\ jobs'[s].at = "reply"
         /\ jobs'[s].gives.refresh.jti = jti
         /\ tokens[jti] = None /\ row # None
         /\ tokens' = [tokens EXCEPT ![jti] = row]
         /\ ~row.revoked /\ row.parent = jobs[s].jti
<1> DEFINE old == jobs[s]
           jti == CHOOSE t \in Jtis : tokens[t] = None
           row == [user |-> old.user, revoked |-> FALSE, parent |-> old.jti]
           acc == [user |-> old.user, roles |-> old.roles, exp |-> now + AccessLifetime]
           ref == [user |-> old.user, jti |-> jti, exp |-> now + RefreshLifetime]
           pair == [access |-> acc, refresh |-> ref]
           j == [old EXCEPT !.at = "reply", !.gives = pair]
<1>1. old \in Jobs /\ Sound(old, users, tokens) /\ old.at = "insert"
  BY RunningJob DEF IssuePair
<1>2. jti \in Jtis /\ tokens[jti] = None
  BY DEF IssuePair
<1>3. old.user \in Ids
  BY <1>1 DEF Sound, Uses
<1>4. tokens' = [tokens EXCEPT ![jti] = row] /\ jobs' = [jobs EXCEPT ![s] = j]
  <2>1. s \in DOMAIN jobs
    BY DEF Inv, JobsInv, JobsTyped
  <2> QED
    BY <2>1 DEF IssuePair
<1>5. now + AccessLifetime \in Times /\ now + RefreshLifetime \in Times
  BY TimesAssumption DEF Times, Inv, RestTyped
<1> HIDE DEF jti, old
<1>6. row \in TokenRows /\ ~row.revoked /\ row.parent = old.jti
  <2>1. old.jti \in Jtis \cup {None}
    BY <1>1 DEF Jobs
  <2> QED
    BY <1>3, <2>1 DEF TokenRows
<1>7. row # None
  BY <1>6, RowsAssumption
<1>8. acc \in Access /\ ref \in Refresh /\ ref.jti = jti
  <2>1. old.roles \subseteq Roles
    BY <1>1 DEF Jobs
  <2> QED
    BY <1>2, <1>3, <1>5, <2>1 DEF Access, Refresh
<1> HIDE DEF acc, ref
<1>10. pair \in Pairs /\ pair.refresh = ref
  BY <1>8 DEF Pairs
<1> HIDE DEF pair
<1>11. /\ j \in Jobs /\ j.at = "reply" /\ j.gives = pair
       /\ j.kind = old.kind /\ j.from = old.from /\ j.jti = old.jti
  BY <1>1, <1>10 DEF Jobs
<1> HIDE DEF j, row
<1>12. jobs'[s] = j /\ OthersKept(s)
  BY <1>4 DEF OthersKept, Inv, JobsInv, JobsTyped
<1>13. GoesOn(s) /\ jobs'[s].at = "reply" /\ jobs'[s].gives.refresh.jti = jti
  BY <1>8, <1>10, <1>11, <1>12 DEF GoesOn, old
<1> QED
  BY <1>1, <1>2, <1>4, <1>6, <1>7, <1>13 DEF old

\* A request other than the one that stepped: what it has done is the same.
Like(t) ==
  /\ jobs[t] # None => jobs'[t] \in Jobs
  /\ jobs[t] = None => jobs'[t] = None
  /\ jobs[t] # None =>
       /\ jobs'[t].kind = jobs[t].kind /\ jobs'[t].from = jobs[t].from
       /\ jobs'[t].at = jobs[t].at /\ jobs'[t].user = jobs[t].user
       /\ jobs'[t].roles = jobs[t].roles
       /\ jobs'[t].jti = jobs[t].jti /\ jobs'[t].gives = jobs[t].gives
OthersLike(s) == \A t \in Slots : t # s => Like(t)

LEMMA KeptIsLike ==
  ASSUME Inv, NEW s \in Slots, OthersKept(s)
  PROVE  OthersLike(s)
<1>1. \A t \in Slots : jobs[t] # None => jobs[t] \in Jobs
  BY RunningJob DEF Running
<1> QED
  BY <1>1 DEF OthersKept, OthersLike, Like

\* The request in slot s has given u the roles r.
RolesSaved(s, u, r) ==
  /\ users' = [users EXCEPT ![u].roles = r]
  /\ users[u] # None
  /\ OthersLike(s)
  /\ jobs[s].at = "saveRoles" /\ jobs'[s].at = "reply" /\ jobs'[s] \in Jobs
  /\ jobs'[s].kind = jobs[s].kind /\ jobs'[s].from = jobs[s].from
  /\ jobs'[s].jti = jobs[s].jti /\ jobs'[s].gives = jobs[s].gives
  /\ \A t \in Slots : t # s /\ Running(t) =>
       /\ jobs[t].held \subseteq jobs'[t].held
       /\ jobs[t].user = u /\ jobs[t].kind # "updateRoles" => r \subseteq jobs'[t].held

LEMMA AfterSaveRoles ==
  ASSUME Inv, NEW s \in Slots, SaveRoles(s)
  PROVE  \E u \in Ids, r \in SUBSET Roles : RolesSaved(s, u, r)
<1> DEFINE u == jobs[s].user
           r == Given(jobs[s].roles)
           N == Noticing(u, r)
<1>1. jobs[s] \in Jobs /\ Sound(jobs[s], users, tokens) /\ jobs[s].at = "saveRoles"
  BY RunningJob DEF SaveRoles
<1>2. u \in Ids /\ users[u] # None
  BY <1>1 DEF Sound, Uses
<1>3. r \in SUBSET Roles
  BY <1>1 DEF Given, Jobs
<1>4. users' = [users EXCEPT ![u].roles = r] /\ jobs' = [N EXCEPT ![s].at = "reply"]
  BY DEF SaveRoles
<1>5. ASSUME NEW t \in Slots
      PROVE  /\ Running(t) =>
                  /\ N[t] \in Jobs
                  /\ N[t].kind = jobs[t].kind /\ N[t].from = jobs[t].from
                  /\ N[t].at = jobs[t].at /\ N[t].user = jobs[t].user
                  /\ N[t].roles = jobs[t].roles
                  /\ N[t].jti = jobs[t].jti /\ N[t].gives = jobs[t].gives
                  /\ jobs[t].held \subseteq N[t].held
                  /\ jobs[t].user = u /\ jobs[t].kind # "updateRoles" => r \subseteq N[t].held
             /\ ~Running(t) => N[t] = None
  <2>1. Running(t) => jobs[t] \in Jobs
    BY RunningJob
  <2>2. CASE Running(t) /\ jobs[t].user = u /\ jobs[t].kind # "updateRoles"
    <3>1. N[t] = [jobs[t] EXCEPT !.held = @ \cup r]
      BY <2>2 DEF Noticing
    <3> HIDE DEF N, u, r
    <3> QED
      BY <1>3, <2>1, <2>2, <3>1 DEF Jobs
  <2>3. CASE ~(Running(t) /\ jobs[t].user = u /\ jobs[t].kind # "updateRoles")
    <3>1. N[t] = jobs[t]
      BY <2>3 DEF Noticing
    <3> QED
      BY <2>1, <2>3, <3>1 DEF Running
  <2> QED
    BY <2>2, <2>3
<1>6. DOMAIN N = Slots
  BY DEF Noticing
<1> HIDE DEF N
<1> DEFINE j == [N[s] EXCEPT !.at = "reply"]
<1>7. jobs' = [N EXCEPT ![s] = j]
  BY <1>4, <1>6
<1>8. Running(s)
  BY DEF SaveRoles
<1>9. /\ j \in Jobs /\ j.kind = jobs[s].kind /\ j.from = jobs[s].from
      /\ j.jti = jobs[s].jti /\ j.gives = jobs[s].gives /\ j.at = "reply"
  <2>1. N[s] \in Jobs
    BY <1>5, <1>8
  <2>2. /\ j \in Jobs /\ j.kind = N[s].kind /\ j.from = N[s].from
        /\ j.jti = N[s].jti /\ j.gives = N[s].gives /\ j.at = "reply"
    BY <2>1 DEF Jobs
  <2> QED
    BY <1>5, <1>8, <2>2
<1> HIDE DEF j
<1>10. jobs'[s] = j /\ \A t \in Slots : t # s => jobs'[t] = N[t]
  BY <1>6, <1>7
<1> HIDE DEF u, r
<1>11. OthersLike(s)
  BY <1>5, <1>10 DEF OthersLike, Like, Running
<1>12. RolesSaved(s, u, r)
  BY <1>1, <1>2, <1>4, <1>5, <1>9, <1>10, <1>11 DEF RolesSaved
<1> QED
  BY <1>2, <1>3, <1>12
-----------------------------------------------------------------------------
(***************************************************************************)
(* The roles signed into an access token were held.                        *)
(***************************************************************************)
\* From the moment it has a user a request has noticed every role he has.
HeldOk(j, us) ==
  /\ j.at \in {"save", "revoke", "reread", "insert"} => j.kind # "updateRoles"
  /\ j.at \in {"revoke", "reread", "insert"} => us[j.user].roles \subseteq j.held
  /\ j.at = "insert" => j.roles \subseteq j.held
HeldInv == \A s \in Slots : Running(s) => HeldOk(jobs[s], users)

\* The users that exist keep their roles, and one request steps.
LEMMA HeldOne ==
  ASSUME Inv, HeldInv, NEW s \in Slots, OthersKept(s),
         \A u \in Ids : users[u] # None => users'[u] = users[u],
         jobs'[s] # None => HeldOk(jobs'[s], users')
  PROVE  HeldInv'
<1> SUFFICES ASSUME NEW t \in Slots, t # s, jobs'[t] # None
             PROVE  HeldOk(jobs'[t], users')
  BY DEF HeldInv, Running
<1>1. jobs'[t] = jobs[t]
  BY DEF OthersKept
<1>2. Sound(jobs[t], users, tokens) /\ HeldOk(jobs[t], users)
  BY <1>1, RunningJob DEF HeldInv, Running
<1> QED
  BY <1>1, <1>2 DEF HeldOk, Sound, Uses

\* A request that has no user yet, or has ended its work, enters.
LEMMA HeldEntered ==
  ASSUME Inv, HeldInv, NEW j, Start(j), users' = users, HeldOk(j, users)
  PROVE  HeldInv'
<1>1. PICK s \in Slots : jobs'[s] = j /\ OthersKept(s)
  BY Entered DEF Inv, JobsInv
<1> QED
  BY <1>1, HeldOne

LEMMA HeldRequests ==
  ASSUME Inv, HeldInv, Requests
  PROVE  HeldInv'
<1>1. ASSUME NEW b \in Browsers, NEW e \in Emails, Register(b, e) PROVE HeldInv'
  <2> DEFINE j == [NoJob("register", b) EXCEPT !.at = "save", !.email = e]
  <2>1. j.at = "save" /\ j.kind = "register"
    BY DEF NoJob
  <2>2. Start(j) /\ users' = users
    BY <1>1 DEF Register
  <2> HIDE DEF j
  <2> QED
    BY <2>1, <2>2, HeldEntered DEF HeldOk
<1>2. ASSUME NEW b \in Browsers, NEW u \in Ids, Login(b, u) PROVE HeldInv'
  <2> DEFINE r == users[u].roles
             j == [NoJob("login", b) EXCEPT !.at = "insert", !.user = u, !.roles = r, !.held = r]
  <2>1. Start(j) /\ users' = users
    BY <1>2 DEF Login
  <2> HIDE DEF r
  <2>2. j.kind = "login" /\ j.user = u /\ j.roles = r /\ j.held = r
    BY DEF NoJob
  <2> HIDE DEF j
  <2>3. HeldOk(j, users)
    BY <2>2 DEF HeldOk, r
  <2> QED
    BY <2>1, <2>3, HeldEntered
<1>3. ASSUME NEW b \in Browsers, RefreshPair(b) PROVE HeldInv'
  <2> DEFINE t == cookies[b].refresh
             r == users[t.user].roles
             j == [NoJob("refresh", b) EXCEPT !.at = "revoke", !.user = t.user,
                     !.jti = t.jti, !.held = r]
  <2>1. Start(j) /\ users' = users
    BY <1>3 DEF RefreshPair
  <2> HIDE DEF t, r
  <2>2. j.kind = "refresh" /\ j.at = "revoke" /\ j.user = t.user /\ j.held = r
    BY DEF NoJob
  <2> HIDE DEF j
  <2>3. HeldOk(j, users)
    BY <2>2 DEF HeldOk, r
  <2> QED
    BY <2>1, <2>3, HeldEntered
<1>4. ASSUME NEW b \in Browsers, Logout(b) PROVE HeldInv'
  <2>1. NoJob("logout", b).at = "reply"
    BY DEF NoJob
  <2> QED
    BY <1>4, <2>1, HeldEntered DEF HeldOk, Logout
<1>5. ASSUME NEW b \in Browsers, NEW u \in Ids, NEW roles \in Grants, UpdateRoles(b, u, roles)
      PROVE  HeldInv'
  <2> DEFINE by == cookies[b].access.roles
             j == [NoJob("updateRoles", b) EXCEPT !.at = "saveRoles", !.user = u,
                     !.roles = roles, !.by = by]
  <2>1. Start(j) /\ users' = users
    BY <1>5 DEF UpdateRoles
  <2> HIDE DEF by
  <2>2. j.at = "saveRoles"
    BY DEF NoJob
  <2> HIDE DEF j
  <2> QED
    BY <2>1, <2>2, HeldEntered DEF HeldOk
<1> QED
  BY <1>1, <1>2, <1>3, <1>4, <1>5 DEF Requests

\* The roles of a user change, and the requests that are about him notice.
LEMMA HeldSaveRoles ==
  ASSUME Inv, HeldInv, NEW s \in Slots, SaveRoles(s)
  PROVE  HeldInv'
<1>0. PICK u \in Ids, r \in SUBSET Roles : RolesSaved(s, u, r)
  BY AfterSaveRoles
<1>1. /\ users' = [users EXCEPT ![u].roles = r]
      /\ users[u] # None
      /\ OthersLike(s) /\ jobs'[s].at = "reply"
      /\ \A t \in Slots : t # s /\ Running(t) =>
           /\ jobs[t].held \subseteq jobs'[t].held
           /\ jobs[t].user = u /\ jobs[t].kind # "updateRoles" => r \subseteq jobs'[t].held
  BY <1>0 DEF RolesSaved
<1>2. users'[u].roles = r /\ \A v \in Ids : v # u => users'[v] = users[v]
  <2>1. users[u] \in UserRows
    BY <1>1, RowTyped DEF Inv
  <2>2. [users[u] EXCEPT !.roles = r].roles = r
    BY <2>1 DEF UserRows
  <2>3. users'[u] = [users[u] EXCEPT !.roles = r] /\ \A v \in Ids : v # u => users'[v] = users[v]
    BY <1>1 DEF Inv, TablesInv, TablesTyped
  <2> QED
    BY <2>2, <2>3
<1> SUFFICES ASSUME NEW t \in Slots, jobs'[t] # None
             PROVE  HeldOk(jobs'[t], users')
  BY DEF HeldInv, Running
<1>3. CASE t = s
  BY <1>1, <1>3 DEF HeldOk
<1>4. CASE t # s
  <2>1. Running(t) /\ Like(t)
    BY <1>1, <1>4 DEF OthersLike, Like, Running
  <2>2. Sound(jobs[t], users, tokens) /\ HeldOk(jobs[t], users)
    BY <2>1, RunningJob DEF HeldInv
  <2>3. jobs[t].held \subseteq jobs'[t].held
    BY <1>1, <1>4, <2>1
  <2>4. jobs[t].user = u /\ jobs[t].kind # "updateRoles" => r \subseteq jobs'[t].held
    BY <1>1, <1>4, <2>1
  <2>5. /\ jobs'[t].at = jobs[t].at /\ jobs'[t].kind = jobs[t].kind
        /\ jobs'[t].user = jobs[t].user /\ jobs'[t].roles = jobs[t].roles
    BY <2>1 DEF Like, Running
  <2> QED
    BY <1>2, <2>2, <2>3, <2>4, <2>5 DEF HeldOk, Sound, Uses
<1> QED
  BY <1>3, <1>4

LEMMA HeldHandlers ==
  ASSUME Inv, HeldInv, Handlers
  PROVE  HeldInv'
<1> SUFFICES ASSUME NEW s \in Slots,
                    \/ SaveUser(s) \/ IssuePair(s)
                    \/ Revoke(s) \/ Reread(s) \/ SaveRoles(s) \/ Reply(s) \/ Drop(s)
             PROVE  HeldInv'
  BY DEF Handlers
<1>1. CASE SaveUser(s)
  <2>1. CASE users' = users /\ jobs'[s] = None /\ OthersKept(s)
    BY <2>1, HeldOne
  <2>2. CASE /\ OthersKept(s)
             /\ \A u \in Ids : users[u] # None => users'[u] = users[u]
             /\ users'[jobs'[s].user].roles = jobs'[s].roles
             /\ jobs'[s].held = jobs'[s].roles
             /\ jobs'[s].kind # "updateRoles"
    BY <2>2, HeldOne DEF HeldOk
  <2>3. jobs[s].kind # "updateRoles"
    BY <1>1 DEF HeldInv, HeldOk, SaveUser
  <2> QED
    BY <1>1, <2>1, <2>2, <2>3, AfterSaveUser DEF GoesOn
<1>2. CASE IssuePair(s)
  <2>1. OthersKept(s) /\ jobs'[s].at = "reply"
    BY <1>2, AfterIssuePair DEF GoesOn
  <2> QED
    BY <1>2, <2>1, HeldOne DEF HeldOk, IssuePair
<1>3. CASE Revoke(s)
  <2>1. HeldOk(jobs[s], users)
    BY <1>3 DEF HeldInv, Revoke
  <2>2. /\ OthersKept(s) /\ users' = users
        /\ jobs'[s].kind = jobs[s].kind /\ jobs'[s].user = jobs[s].user
        /\ jobs'[s].held = jobs[s].held
        /\ jobs[s].at = "revoke" /\ jobs'[s].at = "reread"
    BY <1>3, AfterRevoke DEF GoesOn, Revoke
  <2>3. HeldOk(jobs'[s], users')
    BY <2>1, <2>2 DEF HeldOk
  <2> QED
    BY <2>2, <2>3, HeldOne
<1>4. CASE Reread(s)
  <2>1. HeldOk(jobs[s], users)
    BY <1>4 DEF HeldInv, Reread
  <2> QED
    BY <1>4, <2>1, AfterReread, HeldOne DEF HeldOk, Reread, GoesOn
<1>5. CASE SaveRoles(s)
  BY <1>5, HeldSaveRoles
<1>6. CASE Reply(s) \/ Drop(s)
  <2>1. jobs'[s] = None /\ OthersKept(s) /\ users' = users
    BY <1>6, Ended DEF Reply, Drop, Inv, JobsInv
  <2> QED
    BY <2>1, HeldOne
<1> QED
  BY <1>1, <1>2, <1>3, <1>4, <1>5, <1>6

LEMMA HeldWorld ==
  ASSUME HeldInv, Crash \/ Tick \/ UNCHANGED vars
  PROVE  HeldInv'
BY DEF Crash, Tick, vars, HeldInv, Running

\* The roles an access token is signed with are roles its user has had since the
\* request came, whatever updateRoles did to him between the statements of it.
THEOREM GrantedRolesHold == Spec => []GrantedRolesWereHeld
<1>1. Init => HeldInv
  BY DEF Init, HeldInv, Running
<1>2. Inv /\ HeldInv /\ [Next]_vars => HeldInv'
  BY HeldRequests, HeldHandlers, HeldWorld DEF Next
<1>3. HeldInv => GrantedRolesWereHeld
  BY DEF HeldInv, HeldOk, GrantedRolesWereHeld
<1> QED
  BY InvInit, InvStep, <1>1, <1>2, <1>3, PTL DEF Spec
-----------------------------------------------------------------------------
(***************************************************************************)
(* A refresh token is exchanged once.                                      *)
(***************************************************************************)
Exchanging(j) == j.jti # None /\ j.at \in {"revoke", "reread", "insert"}

\* The token a request presented is in its table, and revoked once the request
\* is past its second statement.
PresentedOk(j, ts) ==
  j.jti # None =>
    /\ j.kind = "refresh" /\ j.at \notin {"save", "saveRoles"}
    /\ j.jti \in Jtis /\ ts[j.jti] # None
    /\ j.at # "revoke" => ts[j.jti].revoked
Presented == \A s \in Slots : Running(s) => PresentedOk(jobs[s], tokens)

\* Nobody else exchanges the token j is about to exchange, in the requests js
\* but s, and nobody has, in the table ts.
Alone(j, s, js, ts) ==
  /\ \A t \in Slots : t # s /\ js[t] # None /\ Exchanging(js[t]) => js[t].jti # j.jti
  /\ \A k \in Jtis : ts[k] # None => ts[k].parent # j.jti
AloneOrRaced ==
  \A s \in Slots : Running(s) /\ Exchanging(jobs[s]) =>
    jobs[s].jti \in raced \/ Alone(jobs[s], s, jobs, tokens)

ParentRevoked ==
  \A k \in Jtis : tokens[k] # None /\ tokens[k].parent # None =>
    /\ tokens[k].parent \in Jtis /\ tokens[tokens[k].parent] # None
    /\ tokens[tokens[k].parent].revoked

ExchangeInv == Presented /\ AloneOrRaced /\ ParentRevoked /\ ExchangedOnce

\* The table keeps its rows, and a revoked one stays revoked.
TokensKept ==
  \A k \in Jtis :
    /\ tokens'[k] # None <=> tokens[k] # None
    /\ tokens[k] # None =>
         /\ tokens'[k].parent = tokens[k].parent
         /\ tokens[k].revoked => tokens'[k].revoked

LEMMA PresentedStays ==
  ASSUME NEW j, PresentedOk(j, tokens), TokensKept
  PROVE  PresentedOk(j, tokens')
BY DEF PresentedOk, TokensKept

\* One request steps and inserts no token.
LEMMA ExchangeOne ==
  ASSUME ExchangeInv, TokensKept, NEW s \in Slots, OthersLike(s),
         raced \subseteq raced',
         jobs'[s] # None =>
           /\ PresentedOk(jobs'[s], tokens')
           /\ Exchanging(jobs'[s]) => jobs'[s].jti \in raced' \/ Alone(jobs'[s], s, jobs, tokens)
  PROVE  ExchangeInv'
<1>1. ASSUME NEW t \in Slots, t # s, jobs'[t] # None
      PROVE  /\ Running(t) /\ jobs'[t].jti = jobs[t].jti /\ jobs'[t].at = jobs[t].at
             /\ jobs'[t].kind = jobs[t].kind
  BY <1>1 DEF OthersLike, Like, Running
<1>2. Presented'
  <2> SUFFICES ASSUME NEW t \in Slots, t # s, jobs'[t] # None
               PROVE  PresentedOk(jobs'[t], tokens')
    BY DEF Presented, Running
  <2>1. PresentedOk(jobs[t], tokens)
    BY <1>1 DEF ExchangeInv, Presented
  <2>2. PresentedOk(jobs[t], tokens')
    BY <2>1, PresentedStays
  <2> QED
    BY <1>1, <2>2 DEF PresentedOk
<1>3. AloneOrRaced'
  <2> SUFFICES ASSUME NEW t \in Slots, jobs'[t] # None, Exchanging(jobs'[t]),
                      jobs'[t].jti \notin raced'
               PROVE  Alone(jobs'[t], t, jobs', tokens')
    BY DEF AloneOrRaced, Running
  <2>1. \A k \in Jtis : tokens'[k] # None => tokens[k] # None /\ tokens'[k].parent = tokens[k].parent
    BY DEF TokensKept
  <2>2. CASE t = s
    <3>1. Alone(jobs'[s], s, jobs, tokens)
      BY <2>2
    <3> QED
      BY <1>1, <2>1, <2>2, <3>1 DEF Alone, Exchanging, Running
  <2>3. CASE t # s
    <3>1. Running(t) /\ Exchanging(jobs[t]) /\ jobs[t].jti \notin raced /\ jobs'[t].jti = jobs[t].jti
      BY <1>1, <2>3 DEF Exchanging
    <3>2. Alone(jobs[t], t, jobs, tokens)
      BY <3>1 DEF ExchangeInv, AloneOrRaced
    <3>3. \A k \in Jtis : tokens'[k] # None => tokens'[k].parent # jobs'[t].jti
      BY <2>1, <3>1, <3>2 DEF Alone
    <3>4. ASSUME NEW q \in Slots, q # t, jobs'[q] # None, Exchanging(jobs'[q]),
                 jobs'[q].jti = jobs'[t].jti
          PROVE  FALSE
      <4>1. CASE q # s
        BY <1>1, <3>1, <3>2, <3>4, <4>1 DEF Alone, Exchanging, Running
      <4>2. CASE q = s
        <5>1. Alone(jobs'[s], s, jobs, tokens)
          BY <3>4, <4>2
        <5> QED
          BY <2>3, <3>1, <3>4, <4>2, <5>1 DEF Alone, Running
      <4> QED
        BY <4>1, <4>2
    <3> QED
      BY <3>3, <3>4 DEF Alone
  <2> QED
    BY <2>2, <2>3
<1>4. ParentRevoked'
  BY DEF ParentRevoked, ExchangeInv, TokensKept
<1>5. ExchangedOnce'
  BY DEF ExchangedOnce, ExchangeInv, TokensKept
<1> QED
  BY <1>2, <1>3, <1>4, <1>5 DEF ExchangeInv

LEMMA TableKept ==
  ASSUME tokens' = tokens
  PROVE  TokensKept
BY DEF TokensKept

\* A request without a refresh token goes on, one with a token keeps it.
LEMMA ExchangeGoesOn ==
  ASSUME Inv, ExchangeInv, TokensKept, NEW s \in Slots, Running(s), OthersLike(s),
         raced' = raced, jobs'[s].jti = jobs[s].jti, jobs'[s].kind = jobs[s].kind,
         jobs'[s].at \in {"insert", "reread", "reply"},
         jobs[s].jti # None /\ jobs'[s].at # "reply" => jobs[s].at \in {"revoke", "reread", "insert"},
         jobs[s].at = "revoke" => tokens'[jobs[s].jti].revoked
  PROVE  ExchangeInv'
<1>1. PresentedOk(jobs[s], tokens)
  BY DEF ExchangeInv, Presented
<1>2. PresentedOk(jobs[s], tokens')
  BY <1>1, PresentedStays
<1>3. PresentedOk(jobs'[s], tokens')
  BY <1>2 DEF PresentedOk
<1>4. ASSUME Exchanging(jobs'[s])
      PROVE  jobs'[s].jti \in raced' \/ Alone(jobs'[s], s, jobs, tokens)
  <2>1. Exchanging(jobs[s])
    BY <1>4 DEF Exchanging
  <2>2. jobs[s].jti \in raced \/ Alone(jobs[s], s, jobs, tokens)
    BY <2>1 DEF ExchangeInv, AloneOrRaced
  <2> QED
    BY <2>2 DEF Alone
<1> QED
  BY <1>3, <1>4, ExchangeOne

\* A request that presents no token enters.
LEMMA ExchangeEntered ==
  ASSUME Inv, ExchangeInv, NEW j, Start(j), j.jti = None, tokens' = tokens, raced' = raced
  PROVE  ExchangeInv'
<1>1. PICK s \in Slots : jobs'[s] = j /\ OthersKept(s)
  BY Entered DEF Inv, JobsInv
<1>2. OthersLike(s)
  BY <1>1, KeptIsLike
<1>3. PresentedOk(jobs'[s], tokens') /\ ~Exchanging(jobs'[s])
  BY <1>1 DEF PresentedOk, Exchanging
<1> QED
  BY <1>2, <1>3, TableKept, ExchangeOne

\* The token has not been exchanged, since it is not revoked; if a request that
\* runs has presented it too, the two race.
LEMMA ExchangeRefresh ==
  ASSUME Inv, ExchangeInv, NEW b \in Browsers, RefreshPair(b)
  PROVE  ExchangeInv'
<1> DEFINE t == cookies[b].refresh
           r == users[t.user].roles
           j == [NoJob("refresh", b) EXCEPT !.at = "revoke", !.user = t.user,
                   !.jti = t.jti, !.held = r]
<1>1. /\ Start(j) /\ tokens' = tokens
      /\ raced' = IF \E s \in Slots : Running(s) /\ jobs[s].jti = t.jti
                  THEN raced \cup {t.jti} ELSE raced
      /\ tokens[t.jti] # None /\ ~tokens[t.jti].revoked
  BY DEF RefreshPair
<1>2. t.jti \in Jtis
  BY DEF RefreshPair, Valid, Inv, CookiesInv, CookiesTyped, Pairs, Refresh
<1> HIDE DEF r, t
<1>3. j.jti = t.jti /\ j.kind = "refresh" /\ j.at = "revoke"
  BY DEF NoJob
<1> HIDE DEF j
<1>4. PICK s \in Slots : ~Running(s) /\ jobs'[s] = j /\ OthersKept(s)
  BY <1>1, Entered DEF Inv, JobsInv
<1>5. PresentedOk(jobs'[s], tokens')
  BY <1>1, <1>2, <1>3, <1>4 DEF PresentedOk
<1>6. raced \subseteq raced'
  BY <1>1
<1>7. j.jti \in raced' \/ Alone(j, s, jobs, tokens)
  <2>1. CASE \E q \in Slots : Running(q) /\ jobs[q].jti = t.jti
    BY <1>1, <1>3, <2>1
  <2>2. CASE ~\E q \in Slots : Running(q) /\ jobs[q].jti = t.jti
    <3>1. \A k \in Jtis : tokens[k] # None => tokens[k].parent # t.jti
      BY <1>1, <1>2, NoneAssumption DEF ExchangeInv, ParentRevoked
    <3> QED
      BY <1>3, <2>2, <3>1 DEF Alone, Running
  <2> QED
    BY <2>1, <2>2
<1> QED
  BY <1>1, <1>4, <1>5, <1>6, <1>7, KeptIsLike, TableKept, ExchangeOne

LEMMA ExchangeRequests ==
  ASSUME Inv, ExchangeInv, Requests
  PROVE  ExchangeInv'
<1>1. ASSUME NEW b \in Browsers, NEW e \in Emails, Register(b, e) PROVE ExchangeInv'
  <2> DEFINE j == [NoJob("register", b) EXCEPT !.at = "save", !.email = e]
  <2>1. j.jti = None
    BY DEF NoJob
  <2>2. Start(j) /\ tokens' = tokens /\ raced' = raced
    BY <1>1 DEF Register
  <2> HIDE DEF j
  <2> QED
    BY <2>1, <2>2, ExchangeEntered
<1>2. ASSUME NEW b \in Browsers, NEW u \in Ids, Login(b, u) PROVE ExchangeInv'
  <2> DEFINE r == users[u].roles
             j == [NoJob("login", b) EXCEPT !.at = "insert", !.user = u, !.roles = r, !.held = r]
  <2>1. Start(j) /\ tokens' = tokens /\ raced' = raced
    BY <1>2 DEF Login
  <2> HIDE DEF r
  <2>2. j.jti = None
    BY DEF NoJob
  <2> HIDE DEF j
  <2> QED
    BY <2>1, <2>2, ExchangeEntered
<1>3. ASSUME NEW b \in Browsers, RefreshPair(b) PROVE ExchangeInv'
  BY <1>3, ExchangeRefresh
<1>4. ASSUME NEW b \in Browsers, Logout(b) PROVE ExchangeInv'
  <2>1. NoJob("logout", b).jti = None
    BY DEF NoJob
  <2> QED
    BY <1>4, <2>1, ExchangeEntered DEF Logout
<1>5. ASSUME NEW b \in Browsers, NEW u \in Ids, NEW roles \in Grants, UpdateRoles(b, u, roles)
      PROVE  ExchangeInv'
  <2> DEFINE by == cookies[b].access.roles
             j == [NoJob("updateRoles", b) EXCEPT !.at = "saveRoles", !.user = u,
                     !.roles = roles, !.by = by]
  <2>1. Start(j) /\ tokens' = tokens /\ raced' = raced
    BY <1>5 DEF UpdateRoles
  <2> HIDE DEF by
  <2>2. j.jti = None
    BY DEF NoJob
  <2> HIDE DEF j
  <2> QED
    BY <2>1, <2>2, ExchangeEntered
<1> QED
  BY <1>1, <1>2, <1>3, <1>4, <1>5 DEF Requests

\* The next token is inserted: of the one it is exchanged for there is another
\* only if two exchanges overlapped.
LEMMA ExchangeIssuePair ==
  ASSUME Inv, ExchangeInv, NEW s \in Slots, IssuePair(s)
  PROVE  ExchangeInv'
<1> DEFINE p == jobs[s].jti
<1>1. PICK jti \in Jtis, row \in TokenRows :
         /\ GoesOn(s) /\ jobs[s].at = "insert" /\ jobs'[s].at = "reply"
         /\ tokens[jti] = None /\ row # None
         /\ tokens' = [tokens EXCEPT ![jti] = row]
         /\ ~row.revoked /\ row.parent = p
  BY AfterIssuePair
<1>2. Running(s) /\ raced' = raced
  BY DEF IssuePair
<1>3. tokens'[jti] = row /\ \A k \in Jtis : k # jti => tokens'[k] = tokens[k]
  BY <1>1 DEF Inv, TablesInv, TablesTyped
<1>4. PresentedOk(jobs[s], tokens)
  BY <1>2 DEF ExchangeInv, Presented
<1>5. p # None => p \in Jtis /\ p # jti /\ tokens[p] # None /\ tokens[p].revoked
  BY <1>1, <1>4 DEF PresentedOk
<1>6. p # None => p \in raced \/ Alone(jobs[s], s, jobs, tokens)
  BY <1>1, <1>2 DEF ExchangeInv, AloneOrRaced, Exchanging
<1>7. Presented'
  <2> SUFFICES ASSUME NEW t \in Slots, jobs'[t] # None
               PROVE  PresentedOk(jobs'[t], tokens')
    BY DEF Presented, Running
  <2>1. CASE t = s
    BY <1>1, <1>3, <1>4, <1>5, <2>1 DEF PresentedOk, GoesOn
  <2>2. CASE t # s
    <3>1. jobs'[t] = jobs[t] /\ PresentedOk(jobs[t], tokens)
      BY <1>1, <2>2 DEF GoesOn, OthersKept, ExchangeInv, Presented, Running
    <3> QED
      BY <1>1, <1>3, <3>1 DEF PresentedOk
  <2> QED
    BY <2>1, <2>2
<1>8. AloneOrRaced'
  <2> SUFFICES ASSUME NEW t \in Slots, jobs'[t] # None, Exchanging(jobs'[t]),
                      jobs'[t].jti \notin raced
               PROVE  Alone(jobs'[t], t, jobs', tokens')
    BY <1>2 DEF AloneOrRaced, Running
  <2>1. t # s
    BY <1>1 DEF Exchanging
  <2>2. jobs'[t] = jobs[t] /\ Running(t)
    BY <1>1, <2>1 DEF GoesOn, OthersKept, Running
  <2>3. Alone(jobs[t], t, jobs, tokens)
    BY <2>2 DEF ExchangeInv, AloneOrRaced
  <2>4. Exchanging(jobs[s]) => p # jobs[t].jti
    BY <1>2, <2>1, <2>3 DEF Alone, Running
  <2>5. p # jobs[t].jti
    BY <1>1, <2>2, <2>4 DEF Exchanging
  <2>6. \A k \in Jtis : tokens'[k] # None => tokens'[k].parent # jobs[t].jti
    BY <1>1, <1>3, <2>3, <2>5 DEF Alone
  <2>7. ASSUME NEW q \in Slots, q # t, jobs'[q] # None, Exchanging(jobs'[q])
        PROVE  jobs'[q].jti # jobs[t].jti
    <3>1. q # s
      BY <1>1, <2>7 DEF Exchanging
    <3>2. jobs'[q] = jobs[q]
      BY <1>1, <3>1 DEF GoesOn, OthersKept
    <3> QED
      BY <2>3, <2>7, <3>2 DEF Alone
  <2> QED
    BY <2>2, <2>6, <2>7 DEF Alone
<1>9. ParentRevoked'
  BY <1>1, <1>3, <1>5 DEF ExchangeInv, ParentRevoked
<1>10. ExchangedOnce'
  <2>1. \A k \in Jtis : tokens[k] # None /\ p # None /\ tokens[k].parent = p => p \in raced
    BY <1>6 DEF Alone
  <2> QED
    BY <1>1, <1>2, <1>3, <2>1 DEF ExchangeInv, ExchangedOnce
<1> QED
  BY <1>7, <1>8, <1>9, <1>10 DEF ExchangeInv

LEMMA ExchangeHandlers ==
  ASSUME Inv, ExchangeInv, Handlers
  PROVE  ExchangeInv'
<1> SUFFICES ASSUME NEW s \in Slots,
                    \/ SaveUser(s) \/ IssuePair(s)
                    \/ Revoke(s) \/ Reread(s) \/ SaveRoles(s) \/ Reply(s) \/ Drop(s)
             PROVE  ExchangeInv'
  BY DEF Handlers
<1>1. PresentedOk(jobs[s], tokens) /\ Running(s)
  BY DEF ExchangeInv, Presented, SaveUser, IssuePair, Revoke, Reread, SaveRoles, Reply, Drop
<1>2. ASSUME jobs'[s] = None, OthersKept(s), tokens' = tokens, raced' = raced PROVE ExchangeInv'
  BY <1>2, KeptIsLike, TableKept, ExchangeOne
<1>3. CASE SaveUser(s)
  <2>1. tokens' = tokens /\ raced' = raced
    BY <1>3 DEF SaveUser
  <2>2. ASSUME GoesOn(s), jobs'[s].at = "insert" PROVE ExchangeInv'
    <3>1. OthersLike(s)
      BY <2>2, KeptIsLike DEF GoesOn
    <3>2. jobs[s].at = "save" /\ jobs[s].jti = None
      BY <1>1, <1>3 DEF SaveUser, PresentedOk
    <3> QED
      BY <1>1, <2>1, <2>2, <3>1, <3>2, TableKept, ExchangeGoesOn DEF GoesOn
  <2> QED
    BY <1>2, <1>3, <2>1, <2>2, AfterSaveUser
<1>4. CASE IssuePair(s)
  BY <1>4, ExchangeIssuePair
<1>5. CASE Revoke(s)
  <2>1. TokensKept
    BY <1>5, AfterRevoke DEF TokensKept
  <2>2. OthersLike(s) /\ raced' = raced
    BY <1>5, AfterRevoke, KeptIsLike DEF GoesOn, Revoke
  <2> QED
    BY <1>1, <1>5, <2>1, <2>2, AfterRevoke, ExchangeGoesOn DEF GoesOn
<1>6. CASE Reread(s)
  <2>1. OthersLike(s) /\ raced' = raced /\ tokens' = tokens
    BY <1>6, AfterReread, KeptIsLike DEF GoesOn, Reread
  <2> QED
    BY <1>1, <1>6, <2>1, TableKept, AfterReread, ExchangeGoesOn DEF GoesOn
<1>7. CASE SaveRoles(s)
  <2>1. PICK u \in Ids, r \in SUBSET Roles : RolesSaved(s, u, r)
    BY <1>7, AfterSaveRoles
  <2>2. raced' = raced /\ tokens' = tokens
    BY <1>7 DEF SaveRoles
  <2> QED
    BY <1>1, <2>1, <2>2, TableKept, ExchangeGoesOn DEF RolesSaved
<1>8. CASE Reply(s) \/ Drop(s)
  BY <1>2, <1>8, Ended DEF Reply, Drop, Inv, JobsInv
<1> QED
  BY <1>3, <1>4, <1>5, <1>6, <1>7, <1>8

LEMMA ExchangeWorld ==
  ASSUME ExchangeInv, Crash \/ Tick \/ UNCHANGED vars
  PROVE  ExchangeInv'
BY DEF Crash, Tick, vars, ExchangeInv, Presented, AloneOrRaced, ParentRevoked, ExchangedOnce,
       Running, Alone

LEMMA ExchangeInit == Init => ExchangeInv
BY DEF Init, ExchangeInv, Presented, AloneOrRaced, ParentRevoked, ExchangedOnce, Running

LEMMA ExchangeStep == Inv /\ ExchangeInv /\ [Next]_vars => ExchangeInv'
BY ExchangeRequests, ExchangeHandlers, ExchangeWorld DEF Next

\* Two tokens with one parent come only from two exchanges that overlapped: a
\* token that has been exchanged is revoked, and revoked ones are refused.
THEOREM RefreshTokensRotate == Spec => []ExchangedOnce
<1>1. ExchangeInv => ExchangedOnce
  BY DEF ExchangeInv
<1> QED
  BY InvInit, InvStep, ExchangeInit, ExchangeStep, <1>1, PTL DEF Spec
-----------------------------------------------------------------------------
(***************************************************************************)
(* Rotation logs nobody out.                                               *)
(***************************************************************************)
Holds(p, k) == p.refresh # None /\ p.refresh.jti = k

\* A token a reply is about to give is live, and nobody else has seen it.
GivesFresh ==
  \A s \in Slots, k \in Jtis : Running(s) /\ Holds(jobs[s].gives, k) =>
    /\ tokens[k] # None /\ ~tokens[k].revoked
    /\ \A t \in Slots : Running(t) => jobs[t].jti # k /\ (Holds(jobs[t].gives, k) => s = t)
    /\ \A b \in Browsers : ~Holds(cookies[b], k)

\* The token in a cookie is in no other browser, and none presents it.
CookieOwned ==
  \A b \in Browsers, k \in Jtis : Holds(cookies[b], k) =>
    /\ tokens[k] # None
    /\ \A c \in Browsers : Holds(cookies[c], k) => b = c
    /\ \A s \in Slots : Running(s) /\ jobs[s].jti = k => jobs[s].from = b

\* A revoked token is in a cookie only while the request that presented it runs:
\* the reply replaces the cookie.
Replaced ==
  faults = 0 =>
    \A b \in Browsers, k \in Jtis : Holds(cookies[b], k) /\ tokens[k].revoked =>
      \E s \in Slots : Running(s) /\ jobs[s].jti = k

LiveInv == GivesFresh /\ CookieOwned /\ Replaced

LEMMA NothingGiven ==
  ASSUME NEW k
  PROVE  ~Holds(NoPair, k)
BY DEF Holds, NoPair

\* A request enters; it presents nothing or the token in its browser's cookie.
LEMMA LiveEntered ==
  ASSUME Inv, LiveInv, NEW b \in Browsers, NEW j \in Jobs, Start(j), j.from = b, j.gives = NoPair,
         j.jti = None \/ Holds(cookies[b], j.jti),
         tokens' = tokens, cookies' = cookies, faults' = faults
  PROVE  LiveInv'
<1>1. PICK s \in Slots : ~Running(s) /\ jobs'[s] = j /\ OthersKept(s)
  BY Entered DEF Inv, JobsInv
<1>2. \A t \in Slots : t # s => jobs'[t] = jobs[t]
  BY <1>1 DEF OthersKept
<1>3. \A k \in Jtis : ~Holds(jobs'[s].gives, k)
  BY <1>1, NothingGiven
<1>4. \A k \in Jtis : j.jti = k => Holds(cookies[b], k)
  BY NoneAssumption
<1>5. GivesFresh'
  BY <1>1, <1>2, <1>3, <1>4 DEF GivesFresh, LiveInv, Running, Holds
<1>6. CookieOwned'
  BY <1>1, <1>2, <1>4 DEF CookieOwned, LiveInv, Running, Holds
<1>7. Replaced'
  <2>1. \A t \in Slots : Running(t) => t # s /\ jobs'[t] = jobs[t]
    BY <1>1, <1>2
  <2> QED
    BY <2>1 DEF Replaced, LiveInv, Running, Holds
<1> QED
  BY <1>5, <1>6, <1>7 DEF LiveInv

LEMMA LiveRequests ==
  ASSUME Inv, LiveInv, Requests
  PROVE  LiveInv'
<1>1. ASSUME NEW b \in Browsers, NEW e \in Emails, Register(b, e) PROVE LiveInv'
  <2> DEFINE j == [NoJob("register", b) EXCEPT !.at = "save", !.email = e]
  <2>1. j \in Jobs /\ j.jti = None /\ j.from = b /\ j.gives = NoPair
    BY NewJobTyped DEF Jobs, NoJob
  <2>2. Start(j) /\ tokens' = tokens /\ cookies' = cookies /\ faults' = faults
    BY <1>1 DEF Register
  <2> HIDE DEF j
  <2> QED
    BY <2>1, <2>2, LiveEntered
<1>2. ASSUME NEW b \in Browsers, NEW u \in Ids, Login(b, u) PROVE LiveInv'
  <2> DEFINE r == users[u].roles
             j == [NoJob("login", b) EXCEPT !.at = "insert", !.user = u, !.roles = r, !.held = r]
  <2>1. Start(j) /\ tokens' = tokens /\ cookies' = cookies /\ faults' = faults
    BY <1>2 DEF Login
  <2>2. r \subseteq Roles
    BY <1>2, RowTyped DEF Login, Inv
  <2> HIDE DEF r
  <2>3. j \in Jobs /\ j.jti = None /\ j.from = b /\ j.gives = NoPair
    BY <2>2, NewJobTyped DEF Jobs, NoJob
  <2> HIDE DEF j
  <2> QED
    BY <2>1, <2>3, LiveEntered
<1>3. ASSUME NEW b \in Browsers, RefreshPair(b) PROVE LiveInv'
  <2> DEFINE t == cookies[b].refresh
             r == users[t.user].roles
             j == [NoJob("refresh", b) EXCEPT !.at = "revoke", !.user = t.user,
                     !.jti = t.jti, !.held = r]
  <2>1. Start(j) /\ tokens' = tokens /\ cookies' = cookies /\ faults' = faults
    BY <1>3 DEF RefreshPair
  <2>2. t \in Refresh /\ t # None /\ users[t.user] # None
    BY <1>3 DEF RefreshPair, Valid, Inv, CookiesInv, CookiesTyped, CookiesKnown, PairKnown, Pairs
  <2>3. t.user \in Ids /\ t.jti \in Jtis /\ Holds(cookies[b], t.jti)
    BY <2>2 DEF Refresh, Holds
  <2>4. r \subseteq Roles
    BY <2>2, <2>3, RowTyped DEF Inv
  <2> HIDE DEF r, t
  <2>5. j \in Jobs /\ j.jti = t.jti /\ j.from = b /\ j.gives = NoPair
    BY <2>3, <2>4, NewJobTyped DEF Jobs, NoJob
  <2> HIDE DEF j
  <2> QED
    BY <2>1, <2>3, <2>5, LiveEntered
<1>4. ASSUME NEW b \in Browsers, Logout(b) PROVE LiveInv'
  <2> DEFINE j == NoJob("logout", b)
  <2>1. j \in Jobs /\ j.jti = None /\ j.from = b /\ j.gives = NoPair
    BY NewJobTyped DEF NoJob
  <2>2. Start(j) /\ tokens' = tokens /\ cookies' = cookies /\ faults' = faults
    BY <1>4 DEF Logout
  <2> HIDE DEF j
  <2> QED
    BY <2>1, <2>2, LiveEntered
<1>5. ASSUME NEW b \in Browsers, NEW u \in Ids, NEW roles \in Grants, UpdateRoles(b, u, roles)
      PROVE  LiveInv'
  <2> DEFINE by == cookies[b].access.roles
             j == [NoJob("updateRoles", b) EXCEPT !.at = "saveRoles", !.user = u,
                     !.roles = roles, !.by = by]
  <2>1. Start(j) /\ tokens' = tokens /\ cookies' = cookies /\ faults' = faults
    BY <1>5 DEF UpdateRoles
  <2>2. by \subseteq Roles /\ roles \subseteq Roles
    BY <1>5, GrantsAssumption
       DEF UpdateRoles, Valid, Inv, CookiesInv, CookiesTyped, Pairs, Access
  <2> HIDE DEF by
  <2>3. j \in Jobs /\ j.jti = None /\ j.from = b /\ j.gives = NoPair
    BY <2>2, NewJobTyped DEF Jobs, NoJob
  <2> HIDE DEF j
  <2> QED
    BY <2>1, <2>3, LiveEntered
<1> QED
  BY <1>1, <1>2, <1>3, <1>4, <1>5 DEF Requests

\* A request goes on; no token is revoked but the one it presented.
LEMMA LiveGoesOn ==
  ASSUME LiveInv, NEW s \in Slots, Running(s), OthersLike(s), jobs'[s] \in Jobs,
         jobs'[s].from = jobs[s].from, jobs'[s].jti = jobs[s].jti, jobs'[s].gives = jobs[s].gives,
         cookies' = cookies, faults' = faults,
         \A k \in Jtis : tokens[k] # None =>
           /\ tokens'[k] # None
           /\ k # jobs[s].jti => tokens'[k] = tokens[k]
  PROVE  LiveInv'
<1>1. \A t \in Slots :
        /\ jobs'[t] # None <=> jobs[t] # None
        /\ jobs'[t] # None => /\ jobs'[t].from = jobs[t].from /\ jobs'[t].jti = jobs[t].jti
                              /\ jobs'[t].gives = jobs[t].gives
  BY JobsAssumption DEF OthersLike, Like, Running
<1>2. GivesFresh'
  BY <1>1 DEF GivesFresh, LiveInv, Running, Holds
<1>3. CookieOwned'
  BY <1>1 DEF CookieOwned, LiveInv, Running, Holds
<1>4. Replaced'
  <2> SUFFICES ASSUME faults = 0, NEW b \in Browsers, NEW k \in Jtis,
                      Holds(cookies[b], k), tokens'[k].revoked
               PROVE  \E t \in Slots : jobs'[t] # None /\ jobs'[t].jti = k
    BY DEF Replaced, Running, Holds
  <2>1. CASE k = jobs[s].jti
    BY <1>1, <2>1 DEF Running
  <2>2. CASE k # jobs[s].jti
    <3>1. tokens[k] # None
      BY DEF LiveInv, CookieOwned
    <3>2. \E t \in Slots : Running(t) /\ jobs[t].jti = k
      BY <2>2, <3>1 DEF LiveInv, Replaced
    <3> QED
      BY <1>1, <3>2 DEF Running
  <2> QED
    BY <2>1, <2>2
<1> QED
  BY <1>2, <1>3, <1>4 DEF LiveInv

\* A request ends without a reply that sets cookies; it presented no token, or
\* something has failed.
LEMMA LiveEnded ==
  ASSUME LiveInv, NEW s \in Slots, OthersKept(s), jobs'[s] = None,
         tokens' = tokens, cookies' = cookies,
         \/ faults' # 0
         \/ faults' = faults /\ \A k \in Jtis : jobs[s].jti # k
  PROVE  LiveInv'
<1>1. \A t \in Slots : jobs'[t] # None => jobs'[t] = jobs[t] /\ Running(t)
  BY DEF OthersKept, Running
<1>2. GivesFresh' /\ CookieOwned'
  BY <1>1 DEF GivesFresh, CookieOwned, LiveInv, Running, Holds
<1>3. Replaced'
  <2> SUFFICES ASSUME faults' = 0, NEW b \in Browsers, NEW k \in Jtis,
                      Holds(cookies[b], k), tokens[k].revoked
               PROVE  \E t \in Slots : jobs'[t] # None /\ jobs'[t].jti = k
    BY DEF Replaced, Running, Holds
  <2>1. PICK t \in Slots : Running(t) /\ jobs[t].jti = k
    BY DEF LiveInv, Replaced
  <2>2. jobs'[t] = jobs[t]
    BY <2>1 DEF OthersKept
  <2> QED
    BY <2>1, <2>2 DEF Running
<1> QED
  BY <1>2, <1>3 DEF LiveInv

\* The token inserted has never been seen before.
LEMMA LiveIssuePair ==
  ASSUME Inv, Presented, LiveInv, NEW s \in Slots, IssuePair(s)
  PROVE  LiveInv'
<1>1. PICK jti \in Jtis, row \in TokenRows :
         /\ GoesOn(s) /\ jobs'[s].gives.refresh.jti = jti
         /\ tokens[jti] = None /\ row # None
         /\ tokens' = [tokens EXCEPT ![jti] = row]
         /\ ~row.revoked
  BY AfterIssuePair
<1>2. Running(s) /\ cookies' = cookies /\ faults' = faults
  BY DEF IssuePair
<1>3. tokens'[jti] = row /\ \A k \in Jtis : k # jti => tokens'[k] = tokens[k]
  BY <1>1 DEF Inv, TablesInv, TablesTyped
<1>4. /\ \A t \in Slots : t # s => jobs'[t] = jobs[t]
      /\ jobs'[s] # None /\ jobs'[s].from = jobs[s].from /\ jobs'[s].jti = jobs[s].jti
  BY <1>1, JobsAssumption DEF GoesOn, OthersKept
<1>5. \A t \in Slots : Running(t) => jobs[t].jti # jti /\ ~Holds(jobs[t].gives, jti)
  BY <1>1, NoneAssumption DEF Presented, PresentedOk, LiveInv, GivesFresh
<1>6. \A b \in Browsers : ~Holds(cookies[b], jti)
  BY <1>1 DEF LiveInv, CookieOwned
<1>7. \A k \in Jtis : Holds(jobs'[s].gives, k) => k = jti
  BY <1>1 DEF Holds
<1>8. GivesFresh'
  <2> SUFFICES ASSUME NEW t \in Slots, NEW k \in Jtis, jobs'[t] # None, Holds(jobs'[t].gives, k)
               PROVE  /\ tokens'[k] # None /\ ~tokens'[k].revoked
                      /\ \A q \in Slots : jobs'[q] # None =>
                           jobs'[q].jti # k /\ (Holds(jobs'[q].gives, k) => t = q)
                      /\ \A b \in Browsers : ~Holds(cookies[b], k)
    BY <1>2 DEF GivesFresh, Running, Holds
  <2>1. CASE t = s
    <3>1. k = jti
      BY <1>7, <2>1
    <3> QED
      BY <1>1, <1>2, <1>3, <1>4, <1>5, <1>6, <2>1, <3>1 DEF Running
  <2>2. CASE t # s
    <3>1. Running(t) /\ Holds(jobs[t].gives, k)
      BY <1>4, <2>2 DEF Running
    <3>2. k # jti
      BY <1>5, <3>1
    <3>3. /\ tokens[k] # None /\ ~tokens[k].revoked
          /\ \A q \in Slots : Running(q) => jobs[q].jti # k /\ (Holds(jobs[q].gives, k) => t = q)
          /\ \A b \in Browsers : ~Holds(cookies[b], k)
      BY <3>1 DEF LiveInv, GivesFresh
    <3> QED
      BY <1>2, <1>3, <1>4, <1>7, <2>2, <3>2, <3>3 DEF Running
  <2> QED
    BY <2>1, <2>2
<1>9. CookieOwned'
  BY <1>2, <1>3, <1>4, <1>6 DEF LiveInv, CookieOwned, Running, Holds
<1>10. Replaced'
  BY <1>2, <1>3, <1>4, <1>6 DEF LiveInv, Replaced, Running, Holds
<1> QED
  BY <1>8, <1>9, <1>10 DEF LiveInv

\* The reply takes the place of a token that may be revoked by one that is not.
LEMMA LiveReply ==
  ASSUME Inv, Presented, LiveInv, NEW s \in Slots, Reply(s)
  PROVE  LiveInv'
<1> DEFINE b0 == jobs[s].from
<1>1. Running(s) /\ tokens' = tokens /\ faults' = faults /\ jobs' = [jobs EXCEPT ![s] = None]
  BY DEF Reply
<1>2. jobs'[s] = None /\ OthersKept(s)
  BY <1>1, Ended DEF Inv, JobsInv
<1>3. CASE jobs[s].kind = "updateRoles"
  <2>1. cookies' = cookies
    BY <1>3 DEF Reply
  <2>2. \A k \in Jtis : jobs[s].jti # k
    BY <1>1, <1>3, NoneAssumption DEF Presented, PresentedOk
  <2> QED
    BY <1>1, <1>2, <2>1, <2>2, LiveEnded
<1>4. CASE jobs[s].kind # "updateRoles"
  <2>1. b0 \in Browsers
    BY <1>1, RunningJob DEF Jobs
  <2>2. cookies'[b0] = jobs[s].gives /\ \A b \in Browsers : b # b0 => cookies'[b] = cookies[b]
    BY <1>4, <2>1 DEF Reply, Inv, CookiesInv, CookiesTyped
  <2>3. \A t \in Slots : jobs'[t] # None => t # s /\ jobs'[t] = jobs[t] /\ Running(t)
    BY <1>2 DEF OthersKept, Running
  <2>4. ASSUME NEW k \in Jtis, Holds(jobs[s].gives, k)
        PROVE  /\ tokens[k] # None /\ ~tokens[k].revoked
               /\ \A t \in Slots : Running(t) =>
                    jobs[t].jti # k /\ (Holds(jobs[t].gives, k) => s = t)
               /\ \A b \in Browsers : ~Holds(cookies[b], k)
    BY <1>1, <2>4 DEF LiveInv, GivesFresh
  <2>5. GivesFresh'
    <3> SUFFICES ASSUME NEW t \in Slots, NEW k \in Jtis, jobs'[t] # None, Holds(jobs'[t].gives, k)
                 PROVE  /\ tokens[k] # None /\ ~tokens[k].revoked
                        /\ \A q \in Slots : jobs'[q] # None =>
                             jobs'[q].jti # k /\ (Holds(jobs'[q].gives, k) => t = q)
                        /\ \A b \in Browsers : ~Holds(cookies'[b], k)
      BY <1>1 DEF GivesFresh, Running, Holds
    <3>1. t # s /\ Running(t) /\ Holds(jobs[t].gives, k)
      BY <2>3
    <3>2. /\ tokens[k] # None /\ ~tokens[k].revoked
          /\ \A q \in Slots : Running(q) => jobs[q].jti # k /\ (Holds(jobs[q].gives, k) => t = q)
          /\ \A b \in Browsers : ~Holds(cookies[b], k)
      BY <3>1 DEF LiveInv, GivesFresh
    <3>3. ~Holds(jobs[s].gives, k)
      BY <1>1, <3>1, <3>2
    <3> QED
      BY <2>2, <2>3, <3>2, <3>3
  <2>6. CookieOwned'
    <3> SUFFICES ASSUME NEW b \in Browsers, NEW k \in Jtis, Holds(cookies'[b], k)
                 PROVE  /\ tokens[k] # None
                        /\ \A c \in Browsers : Holds(cookies'[c], k) => b = c
                        /\ \A t \in Slots : jobs'[t] # None /\ jobs'[t].jti = k => jobs'[t].from = b
      BY <1>1 DEF CookieOwned, Running, Holds
    <3>1. CASE b = b0
      BY <2>2, <2>3, <2>4, <3>1
    <3>2. CASE b # b0
      <4>1. Holds(cookies[b], k)
        BY <2>2, <3>2
      <4>2. ~Holds(jobs[s].gives, k)
        BY <2>4, <4>1
      <4> QED
        BY <2>2, <2>3, <3>2, <4>1, <4>2 DEF LiveInv, CookieOwned
    <3> QED
      BY <3>1, <3>2
  <2>7. Replaced'
    <3> SUFFICES ASSUME faults = 0, NEW b \in Browsers, NEW k \in Jtis,
                        Holds(cookies'[b], k), tokens[k].revoked
                 PROVE  \E t \in Slots : jobs'[t] # None /\ jobs'[t].jti = k
      BY <1>1 DEF Replaced, Running, Holds
    <3>1. b # b0
      BY <2>2, <2>4
    <3>2. Holds(cookies[b], k)
      BY <2>2, <3>1
    <3>3. PICK t \in Slots : Running(t) /\ jobs[t].jti = k
      BY <3>2 DEF LiveInv, Replaced
    <3>4. jobs[t].from = b
      BY <3>2, <3>3 DEF LiveInv, CookieOwned
    <3>5. jobs'[t] = jobs[t]
      BY <1>2, <3>1, <3>4 DEF OthersKept
    <3> QED
      BY <3>3, <3>5 DEF Running
  <2> QED
    BY <2>5, <2>6, <2>7 DEF LiveInv
<1> QED
  BY <1>3, <1>4

LEMMA LiveHandlers ==
  ASSUME Inv, Presented, LiveInv, Handlers
  PROVE  LiveInv'
<1> SUFFICES ASSUME NEW s \in Slots,
                    \/ SaveUser(s) \/ IssuePair(s)
                    \/ Revoke(s) \/ Reread(s) \/ SaveRoles(s) \/ Reply(s) \/ Drop(s)
             PROVE  LiveInv'
  BY DEF Handlers
<1>1. PresentedOk(jobs[s], tokens) /\ Running(s)
  BY DEF Presented, SaveUser, IssuePair, Revoke, Reread, SaveRoles, Reply, Drop
<1>2. CASE SaveUser(s)
  <2>1. tokens' = tokens /\ cookies' = cookies /\ faults' = faults
    BY <1>2 DEF SaveUser
  <2>2. CASE jobs'[s] = None /\ OthersKept(s)
    <3>1. \A k \in Jtis : jobs[s].jti # k
      BY <1>1, <1>2, NoneAssumption DEF SaveUser, PresentedOk
    <3> QED
      BY <2>1, <2>2, <3>1, LiveEnded
  <2>3. CASE GoesOn(s) /\ jobs'[s].gives = jobs[s].gives
    <3>1. OthersLike(s)
      BY <2>3, KeptIsLike DEF GoesOn
    <3> QED
      BY <1>1, <2>1, <2>3, <3>1, LiveGoesOn DEF GoesOn
  <2> QED
    BY <1>2, <2>2, <2>3, AfterSaveUser
<1>3. CASE IssuePair(s)
  BY <1>3, LiveIssuePair
<1>4. CASE Revoke(s)
  <2>1. OthersLike(s) /\ cookies' = cookies /\ faults' = faults
    BY <1>4, AfterRevoke, KeptIsLike DEF GoesOn, Revoke
  <2> QED
    BY <1>1, <1>4, <2>1, AfterRevoke, LiveGoesOn DEF GoesOn
<1>5. CASE Reread(s)
  <2>1. OthersLike(s) /\ cookies' = cookies /\ faults' = faults /\ tokens' = tokens
    BY <1>5, AfterReread, KeptIsLike DEF GoesOn, Reread
  <2> QED
    BY <1>1, <1>5, <2>1, AfterReread, LiveGoesOn DEF GoesOn
<1>6. CASE SaveRoles(s)
  <2>1. PICK u \in Ids, r \in SUBSET Roles : RolesSaved(s, u, r)
    BY <1>6, AfterSaveRoles
  <2>2. cookies' = cookies /\ faults' = faults /\ tokens' = tokens
    BY <1>6 DEF SaveRoles
  <2> QED
    BY <1>1, <2>1, <2>2, LiveGoesOn DEF RolesSaved
<1>7. CASE Reply(s)
  BY <1>7, LiveReply
<1>8. CASE Drop(s)
  <2>1. faults' # 0 /\ tokens' = tokens /\ cookies' = cookies
    BY <1>8 DEF Drop, Inv, RestTyped
  <2> QED
    BY <1>8, <2>1, Ended, LiveEnded DEF Drop, Inv, JobsInv
<1> QED
  BY <1>2, <1>3, <1>4, <1>5, <1>6, <1>7, <1>8

LEMMA LiveWorld ==
  ASSUME Inv, LiveInv, Crash \/ Tick \/ UNCHANGED vars
  PROVE  LiveInv'
<1>1. CASE Crash
  <2>1. faults' # 0 /\ tokens' = tokens /\ cookies' = cookies
    BY <1>1 DEF Crash, Inv, RestTyped
  <2>2. \A s \in Slots : jobs'[s] = None
    BY <1>1 DEF Crash
  <2> QED
    BY <2>1, <2>2 DEF LiveInv, GivesFresh, CookieOwned, Replaced, Running, Holds
<1>2. CASE Tick \/ UNCHANGED vars
  BY <1>2 DEF Tick, vars, LiveInv, GivesFresh, CookieOwned, Replaced, Running, Holds
<1> QED
  BY <1>1, <1>2

\* As long as nothing fails, the cookie of a browser that waits for no reply can
\* still be exchanged: a token is revoked only by a request that will replace the
\* cookie it came in, and each of the replies of several tabs brings a live one.
THEOREM RotationKeepsSessions == Spec => []CookieIsLive
<1>1. Init => LiveInv
  BY DEF Init, LiveInv, GivesFresh, CookieOwned, Replaced, Running, Holds, NoPair
<1>2. Inv /\ ExchangeInv /\ LiveInv /\ [Next]_vars => LiveInv'
  BY LiveRequests, LiveHandlers, LiveWorld DEF Next, ExchangeInv
<1>3. Inv /\ LiveInv => CookieIsLive
  <2> SUFFICES ASSUME Inv, LiveInv, faults = 0, NEW b \in Browsers, cookies[b].refresh # None,
                      \A s \in Slots : Running(s) => jobs[s].from # b
               PROVE  /\ tokens[cookies[b].refresh.jti] # None
                      /\ ~tokens[cookies[b].refresh.jti].revoked
    BY DEF CookieIsLive
  <2>1. cookies[b].refresh.jti \in Jtis /\ Holds(cookies[b], cookies[b].refresh.jti)
    BY DEF Holds, Inv, CookiesInv, CookiesTyped, Pairs, Refresh
  <2> QED
    BY <2>1 DEF LiveInv, CookieOwned, Replaced
<1> QED
  BY InvInit, InvStep, ExchangeInit, ExchangeStep, <1>1, <1>2, <1>3, PTL DEF Spec
=============================================================================
