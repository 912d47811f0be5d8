--------------------------- MODULE SessionsProofs ---------------------------
(***************************************************************************)
(* Proofs about Sessions, for every set of browsers, addresses and ids,    *)
(* every number of requests in flight, every lifetime and every bound.     *)
(*                                                                         *)
(* The invariant says what a request in flight may rely on although the    *)
(* tables change under it: its user and its token still exist, and a user  *)
(* whose roles are about to be saved has not become super user since he    *)
(* was read.                                                               *)
(***************************************************************************)
EXTENDS Sessions, TLAPS

\* A refresh token somebody holds belongs to a user that exists.
PairKnown(p, us) == p.refresh # None => us[p.refresh.user] # None

Uses(j) == j.at \in {"revoke", "reread", "insert", "saveRoles"}

\* What a request in flight relies on, in the tables us and ts.
Sound(j, us, ts) ==
  /\ Uses(j) => j.user \in Ids /\ us[j.user] # None
  /\ j.at = "revoke" => j.jti \in Jtis /\ ts[j.jti] # None
  /\ j.at = "save" => j.email \in Emails
  /\ j.at = "saveRoles" => "superUser" \notin us[j.user].roles
  /\ PairKnown(j.gives, us)

TablesTyped == /\ users \in [Ids -> UserRows \cup {None}]
               /\ tokens \in [Jtis -> TokenRows \cup {None}]
JobsTyped   == jobs \in [Slots -> Jobs \cup {None}]
CookiesTyped == cookies \in [Browsers -> Pairs]
RestTyped   == /\ now \in 0..MaxTicks
               /\ raced \subseteq Jtis
               /\ calls \in 0..MaxCalls /\ faults \in 0..MaxFaults

JobsSound    == \A s \in Slots : Running(s) => Sound(jobs[s], users, tokens)
CookiesKnown == \A b \in Browsers : PairKnown(cookies[b], users)

\* The part of the tables, and the part of the requests and the cookies.
TablesInv == TablesTyped /\ EmailsUnique /\ OnlyOwnerIsSuper
JobsInv   == JobsTyped /\ JobsSound
CookiesInv == CookiesTyped /\ CookiesKnown
Inv == TablesInv /\ JobsInv /\ CookiesInv /\ RestTyped

\* The tables only grow, and nobody becomes super user.
Grow ==
  /\ \A u \in Ids : users[u] # None =>
       /\ users'[u] # None
       /\ "superUser" \notin users[u].roles => "superUser" \notin users'[u].roles
  /\ \A j \in Jtis : tokens[j] # None => tokens'[j] # None

LEMMA KnownStays ==
  ASSUME NEW p \in Pairs, PairKnown(p, users), Grow
  PROVE  PairKnown(p, users')
BY DEF Pairs, Refresh, PairKnown, Grow

\* What a request relies on stays true while the tables grow.
LEMMA SoundStays ==
  ASSUME NEW j \in Jobs, Sound(j, users, tokens), Grow
  PROVE  Sound(j, users', tokens')
<1>1. j.gives \in Pairs
  BY DEF Jobs
<1>2. PairKnown(j.gives, users')
  BY <1>1, KnownStays DEF Sound
<1> QED
  BY <1>2 DEF Sound, Grow, Uses

LEMMA CookiesStay ==
  ASSUME CookiesInv, Grow, cookies' = cookies
  PROVE  CookiesInv'
BY KnownStays DEF CookiesInv, CookiesTyped, CookiesKnown

\* One request changes and the tables grow: the requests stay sound.
LEMMA OneJob ==
  ASSUME JobsInv, Grow, NEW s \in Slots, NEW j \in Jobs \cup {None},
         jobs' = [jobs EXCEPT ![s] = j],
         j # None => Sound(j, users', tokens')
  PROVE  JobsInv'
<1>1. JobsTyped'
  BY DEF JobsInv, JobsTyped
<1>2. ASSUME NEW t \in Slots, jobs'[t] # None
      PROVE  Sound(jobs'[t], users', tokens')
  <2>1. CASE t = s
    BY <1>2, <2>1 DEF JobsInv, JobsTyped
  <2>2. CASE t # s
    <3>1. jobs'[t] = jobs[t] /\ jobs[t] \in Jobs
      BY <1>2, <2>2 DEF JobsInv, JobsTyped
    <3>2. Sound(jobs[t], users, tokens)
      BY <1>2, <3>1 DEF JobsInv, JobsSound, Running
    <3> QED
      BY <3>1, <3>2, SoundStays
  <2> QED
    BY <2>1, <2>2
<1>3. JobsSound'
  BY <1>2 DEF JobsSound, Running
<1> QED
  BY <1>1, <1>3 DEF JobsInv

\* A request enters.
LEMMA Entering ==
  ASSUME JobsInv, Grow, NEW j \in Jobs, Start(j), Sound(j, users', tokens'), RestTyped
  PROVE  JobsInv' /\ calls' \in 0..MaxCalls
<1> DEFINE s == CHOOSE t \in Slots : ~Running(t)
<1>1. s \in Slots /\ jobs' = [jobs EXCEPT ![s] = j]
  BY DEF Start
<1>2. calls' \in 0..MaxCalls
  BY TimesAssumption DEF Start, RestTyped
<1> HIDE DEF s
<1> QED
  BY <1>1, <1>2, OneJob
-----------------------------------------------------------------------------
LEMMA InvInit == Init => Inv
<1> SUFFICES ASSUME Init PROVE Inv
  OBVIOUS
<1>1. TablesInv
  BY DEF Init, TablesInv, TablesTyped, EmailsUnique, OnlyOwnerIsSuper, HasEmail
<1>2. JobsInv
  BY DEF Init, JobsInv, JobsTyped, JobsSound, Running
<1>3. CookiesInv
  BY DEF Init, CookiesInv, CookiesTyped, CookiesKnown, Pairs, NoPair, PairKnown
<1>4. RestTyped
  BY TimesAssumption DEF Init, RestTyped
<1> QED
  BY <1>1, <1>2, <1>3, <1>4 DEF Inv

\* Nothing but the tables and the history decides the parts of the invariant.
LEMMA TablesStay ==
  ASSUME TablesInv, users' = users, tokens' = tokens
  PROVE  TablesInv' /\ Grow
BY DEF TablesInv, TablesTyped, EmailsUnique, OnlyOwnerIsSuper, HasEmail, Grow

LEMMA NewJobTyped ==
  ASSUME NEW b \in Browsers, NEW kind \in {"register", "login", "refresh", "logout", "updateRoles"}
  PROVE  NoJob(kind, b) \in Jobs
BY DEF NoJob, Jobs, NoPair, Pairs

\* The rows of users that exist.
LEMMA RowTyped ==
  ASSUME TablesInv, NEW u \in Ids, users[u] # None
  PROVE  users[u] \in UserRows /\ users[u].roles \subseteq Roles
BY DEF TablesInv, TablesTyped, UserRows
-----------------------------------------------------------------------------
LEMMA InvRegister ==
  ASSUME Inv, NEW b \in Browsers, NEW e \in Emails, Register(b, e)
  PROVE  Inv'
<1> DEFINE j == [NoJob("register", b) EXCEPT !.at = "save", !.email = e]
<1>1. Start(j) /\ TablesInv' /\ Grow /\ CookiesInv'
  BY TablesStay, CookiesStay DEF Register, Inv
<1>2. j \in Jobs /\ j.at = "save" /\ j.email = e /\ j.gives = NoPair
  BY NewJobTyped DEF Jobs, NoJob
<1> HIDE DEF j
<1>3. Sound(j, users', tokens')
  BY <1>2 DEF Sound, Uses, PairKnown, NoPair
<1>4. JobsInv' /\ calls' \in 0..MaxCalls
  BY <1>1, <1>2, <1>3, Entering DEF Inv
<1> QED
  BY <1>1, <1>4 DEF Inv, Register, RestTyped

LEMMA InvLogin ==
  ASSUME Inv, NEW b \in Browsers, NEW u \in Ids, Login(b, u)
  PROVE  Inv'
<1> DEFINE r == users[u].roles
           j == [NoJob("login", b) EXCEPT !.at = "insert", !.user = u,
                   !.roles = r, !.held = r]
<1>1. Start(j) /\ TablesInv' /\ Grow /\ CookiesInv'
  BY TablesStay, CookiesStay DEF Login, Inv
<1>2. r \subseteq Roles
  BY RowTyped DEF Login, Inv
<1> HIDE DEF r
<1>3. /\ j \in Jobs /\ j.at = "insert" /\ j.user = u /\ j.gives = NoPair
  BY <1>2, NewJobTyped DEF Jobs, NoJob
<1> HIDE DEF j
<1>4. Sound(j, users', tokens')
  BY <1>3 DEF Sound, Uses, PairKnown, NoPair, Login
<1>5. JobsInv' /\ calls' \in 0..MaxCalls
  BY <1>1, <1>3, <1>4, Entering DEF Inv
<1> QED
  BY <1>1, <1>5 DEF Inv, Login, RestTyped

LEMMA InvRefresh ==
  ASSUME Inv, NEW b \in Browsers, RefreshPair(b)
  PROVE  Inv'
<1> DEFINE t == cookies[b].refresh
           r == users[t.user].roles
           j == [NoJob("refresh", b) EXCEPT !.at = "revoke", !.user = t.user,
                   !.jti = t.jti, !.held = r]
<1>1. Start(j) /\ TablesInv' /\ Grow /\ CookiesInv'
  BY TablesStay, CookiesStay DEF RefreshPair, Inv
<1>2. t \in Refresh /\ users[t.user] # None /\ tokens[t.jti] # None
  BY DEF RefreshPair, Valid, Inv, CookiesInv, CookiesTyped, CookiesKnown, PairKnown, Pairs
<1>3. t.user \in Ids /\ t.jti \in Jtis
  BY <1>2 DEF Refresh
<1>4. r \subseteq Roles
  BY <1>2, <1>3, RowTyped DEF Inv
<1>5. raced' \subseteq Jtis
  BY <1>3 DEF RefreshPair, Inv, RestTyped
<1>6. users' = users /\ tokens' = tokens
  BY DEF RefreshPair
<1> HIDE DEF t, r
<1>7. j \in Jobs /\ j.at = "revoke" /\ j.user = t.user /\ j.jti = t.jti /\ j.gives = NoPair
  BY <1>3, <1>4, NewJobTyped DEF Jobs, NoJob
<1> HIDE DEF j
<1>8. Sound(j, users', tokens')
  BY <1>2, <1>3, <1>6, <1>7 DEF Sound, Uses, PairKnown, NoPair
<1>9. JobsInv' /\ calls' \in 0..MaxCalls
  BY <1>1, <1>7, <1>8, Entering DEF Inv
<1> QED
  BY <1>1, <1>5, <1>9 DEF Inv, RefreshPair, RestTyped

LEMMA InvLogout ==
  ASSUME Inv, NEW b \in Browsers, Logout(b)
  PROVE  Inv'
<1> DEFINE j == NoJob("logout", b)
<1>1. Start(j) /\ TablesInv' /\ Grow /\ CookiesInv'
  BY TablesStay, CookiesStay DEF Logout, Inv
<1>2. j \in Jobs /\ j.at = "reply" /\ j.gives = NoPair
  BY NewJobTyped DEF NoJob
<1> HIDE DEF j
<1>3. Sound(j, users', tokens')
  BY <1>2 DEF Sound, Uses, PairKnown, NoPair
<1>4. JobsInv' /\ calls' \in 0..MaxCalls
  BY <1>1, <1>2, <1>3, Entering DEF Inv
<1> QED
  BY <1>1, <1>4 DEF Inv, Logout, RestTyped

\* The user found is no super user when his roles are checked ...
LEMMA InvUpdateRoles ==
  ASSUME Inv, NEW b \in Browsers, NEW u \in Ids, NEW roles \in Grants, UpdateRoles(b, u, roles)
  PROVE  Inv'
<1> DEFINE by == cookies[b].access.roles
           j == [NoJob("updateRoles", b) EXCEPT !.at = "saveRoles", !.user = u,
                   !.roles = roles, !.by = by]
<1>1. Start(j) /\ TablesInv' /\ Grow /\ CookiesInv'
  BY TablesStay, CookiesStay DEF UpdateRoles, Inv
<1>2. by \subseteq Roles
  BY DEF UpdateRoles, Valid, Inv, CookiesInv, CookiesTyped, Pairs, Access
<1>3. roles \subseteq Roles
  BY GrantsAssumption
<1> HIDE DEF by
<1>4. j \in Jobs /\ j.at = "saveRoles" /\ j.user = u /\ j.gives = NoPair
  BY <1>2, <1>3, NewJobTyped DEF Jobs, NoJob
<1> HIDE DEF j
<1>5. Sound(j, users', tokens')
  BY <1>4 DEF Sound, Uses, PairKnown, NoPair, UpdateRoles
<1>6. JobsInv' /\ calls' \in 0..MaxCalls
  BY <1>1, <1>4, <1>5, Entering DEF Inv
<1> QED
  BY <1>1, <1>6 DEF Inv, UpdateRoles, RestTyped
-----------------------------------------------------------------------------
\* A request that runs, and what is known of it.
LEMMA RunningJob ==
  ASSUME Inv, NEW s \in Slots, Running(s)
  PROVE  jobs[s] \in Jobs /\ Sound(jobs[s], users, tokens)
BY DEF Inv, JobsInv, JobsTyped, JobsSound, Running

\* The unique index decides: the row saved has an address no other row has.
LEMMA InvSaveUser ==
  ASSUME Inv, NEW s \in Slots, SaveUser(s)
  PROVE  Inv'
<1> DEFINE e == jobs[s].email
           r == DefaultRoles(e)
           u == CHOOSE v \in Ids : users[v] = None
           row == [email |-> e, roles |-> r]
           j == [jobs[s] EXCEPT !.at = "insert", !.user = u, !.roles = r, !.held = r]
<1>1. jobs[s] \in Jobs /\ Sound(jobs[s], users, tokens) /\ jobs[s].at = "save"
  BY RunningJob DEF SaveUser
<1>2. u \in Ids /\ users[u] = None
  BY DEF SaveUser
<1>3. e \in Emails /\ r \subseteq Roles
  BY <1>1 DEF Sound, DefaultRoles, Roles, Code
<1>4. row \in UserRows /\ row # None
  BY <1>3, RowsAssumption DEF UserRows
<1>5. cookies' = cookies /\ tokens' = tokens /\ RestTyped'
  BY DEF SaveUser, Inv, RestTyped
<1>6. CASE CanInsert(e)
  <2>1. users' = [users EXCEPT ![u] = row] /\ jobs' = [jobs EXCEPT ![s] = j]
    <3>1. s \in DOMAIN jobs
      BY DEF Inv, JobsInv, JobsTyped
    <3> QED
      BY <1>6, <3>1 DEF SaveUser
  <2>2. \A v \in Ids : ~HasEmail(v, e)
    BY <1>6 DEF CanInsert
  <2> HIDE DEF u
  <2>3. users'[u] = row /\ \A v \in Ids : v # u => users'[v] = users[v]
    BY <1>2, <2>1 DEF Inv, TablesInv, TablesTyped
  <2>4. TablesTyped'
    BY <1>2, <1>4, <1>5, <2>1 DEF Inv, TablesInv, TablesTyped
  <2>5. EmailsUnique'
    BY <2>2, <2>3 DEF Inv, TablesInv, EmailsUnique, HasEmail
  <2>6. OnlyOwnerIsSuper'
    BY <2>3 DEF Inv, TablesInv, OnlyOwnerIsSuper, DefaultRoles
  <2>7. Grow
    BY <1>2, <1>5, <2>3 DEF Grow
  <2>8. /\ j \in Jobs /\ j.at = "insert" /\ j.user = u /\ j.gives = jobs[s].gives
    BY <1>1, <1>2, <1>3 DEF Jobs
  <2> HIDE DEF j, row
  <2>9. PairKnown(j.gives, users')
    BY <1>1, <2>7, <2>8, KnownStays DEF Sound, Jobs
  <2>10. Sound(j, users', tokens')
    BY <1>2, <1>4, <2>3, <2>8, <2>9 DEF Sound, Uses
  <2>11. JobsInv'
    BY <2>1, <2>7, <2>8, <2>10, OneJob DEF Inv
  <2>12. CookiesInv'
    BY <1>5, <2>7, CookiesStay DEF Inv
  <2> QED
    BY <1>5, <2>4, <2>5, <2>6, <2>11, <2>12 DEF Inv, TablesInv
<1>7. CASE ~CanInsert(e)
  <2>1. users' = users /\ jobs' = [jobs EXCEPT ![s] = None]
    BY <1>7 DEF SaveUser
  <2>2. TablesInv' /\ Grow
    BY <1>5, <2>1, TablesStay DEF Inv
  <2>3. JobsInv'
    BY <2>1, <2>2, OneJob DEF Inv
  <2> QED
    BY <1>5, <2>2, <2>3, CookiesStay DEF Inv
<1> QED
  BY <1>6, <1>7

LEMMA InvIssuePair ==
  ASSUME Inv, NEW s \in Slots, IssuePair(s)
  PROVE  Inv'
<1> DEFINE old == jobs[s]
           jti == CHOOSE t \in Jtis : tokens[t] = None
           row == [user |-> old.user, revoked |-> FALSE, parent |-> old.jti]
           acc == [user |-> old.user, roles |-> old.roles, exp |-> now + AccessLifetime]
           ref == [user |-> old.user, jti |-> jti, exp |-> now + RefreshLifetime]
           pair == [access |-> acc, refresh |-> ref]
           j == [old EXCEPT !.at = "reply", !.gives = pair]
<1>1. old \in Jobs /\ Sound(old, users, tokens) /\ old.at = "insert"
  BY RunningJob DEF IssuePair
<1>2. jti \in Jtis /\ tokens[jti] = None
  BY DEF IssuePair
<1>3. old.user \in Ids /\ users[old.user] # None
  BY <1>1 DEF Sound, Uses
<1>4. tokens' = [tokens EXCEPT ![jti] = row] /\ jobs' = [jobs EXCEPT ![s] = j]
  <2>1. s \in DOMAIN jobs
    BY DEF Inv, JobsInv, JobsTyped
  <2> QED
    BY <2>1 DEF IssuePair
<1>5. users' = users /\ cookies' = cookies /\ RestTyped'
  BY DEF IssuePair, Inv, RestTyped
<1>6. now + AccessLifetime \in Times /\ now + RefreshLifetime \in Times
  BY TimesAssumption DEF Times, Inv, RestTyped
<1> HIDE DEF jti, old
<1>7. row \in TokenRows /\ row # None
  <2>1. old.jti \in Jtis \cup {None}
    BY <1>1 DEF Jobs
  <2> QED
    BY <1>3, <2>1, RowsAssumption DEF TokenRows
<1>8. acc \in Access /\ ref \in Refresh
  <2>1. old.roles \subseteq Roles
    BY <1>1 DEF Jobs
  <2> QED
    BY <1>2, <1>3, <1>6, <2>1 DEF Access, Refresh
<1>9. ref.user = old.user
  OBVIOUS
<1> HIDE DEF acc, ref
<1>10. pair \in Pairs /\ pair.refresh = ref
  BY <1>8 DEF Pairs
<1> HIDE DEF pair
<1>11. j \in Jobs /\ j.at = "reply" /\ j.gives = pair
  BY <1>1, <1>10 DEF Jobs
<1> HIDE DEF j, row
<1>12. Grow
  BY <1>2, <1>4, <1>5 DEF Grow, Inv, TablesInv, TablesTyped
<1>13. Sound(j, users', tokens')
  BY <1>3, <1>5, <1>9, <1>10, <1>11 DEF Sound, Uses, PairKnown
<1>14. JobsInv'
  BY <1>4, <1>11, <1>12, <1>13, OneJob DEF Inv
<1>15. TablesInv'
  BY <1>2, <1>4, <1>5, <1>7 DEF Inv, TablesInv, TablesTyped, EmailsUnique, OnlyOwnerIsSuper, HasEmail
<1> QED
  BY <1>5, <1>12, <1>14, <1>15, CookiesStay DEF Inv

LEMMA InvRevoke ==
  ASSUME Inv, NEW s \in Slots, Revoke(s)
  PROVE  Inv'
<1> DEFINE old == jobs[s]
           j == [old EXCEPT !.at = "reread"]
           row == [tokens[old.jti] EXCEPT !.revoked = TRUE]
<1>1. old \in Jobs /\ Sound(old, users, tokens) /\ old.at = "revoke"
  BY RunningJob DEF Revoke
<1>2. old.jti \in Jtis /\ tokens[old.jti] # None
  BY <1>1 DEF Sound
<1>3. tokens' = [tokens EXCEPT ![old.jti] = row] /\ jobs' = [jobs EXCEPT ![s] = j]
  <2>1. s \in DOMAIN jobs
    BY DEF Inv, JobsInv, JobsTyped
  <2>2. old.jti \in DOMAIN tokens
    BY <1>2 DEF Inv, TablesInv, TablesTyped
  <2> QED
    BY <2>1, <2>2 DEF Revoke, Revoked
<1>4. users' = users /\ cookies' = cookies /\ RestTyped'
  BY DEF Revoke, Inv, RestTyped
<1>5. row \in TokenRows /\ row # None
  <2>1. tokens[old.jti] \in TokenRows
    BY <1>2 DEF Inv, TablesInv, TablesTyped
  <2>2. row \in TokenRows
    BY <2>1 DEF TokenRows
  <2> QED
    BY <2>2, RowsAssumption
<1> HIDE DEF old
<1>6. j \in Jobs /\ j.at = "reread" /\ j.user = old.user /\ j.gives = old.gives
  BY <1>1 DEF Jobs
<1> HIDE DEF j, row
<1>7. Grow
  BY <1>2, <1>3, <1>4, <1>5 DEF Grow, Inv, TablesInv, TablesTyped
<1>8. Sound(j, users', tokens')
  BY <1>1, <1>4, <1>6 DEF Sound, Uses, PairKnown
<1>9. JobsInv'
  BY <1>3, <1>6, <1>7, <1>8, OneJob DEF Inv
<1>10. TablesInv'
  BY <1>2, <1>3, <1>4, <1>5 DEF Inv, TablesInv, TablesTyped, EmailsUnique, OnlyOwnerIsSuper, HasEmail
<1> QED
  BY <1>4, <1>7, <1>9, <1>10, CookiesStay DEF Inv

LEMMA InvReread ==
  ASSUME Inv, NEW s \in Slots, Reread(s)
  PROVE  Inv'
<1> DEFINE old == jobs[s]
           r == RolesOf(s)
           j == [old EXCEPT !.at = "insert", !.roles = r]
<1>1. old \in Jobs /\ Sound(old, users, tokens) /\ old.at = "reread"
  BY RunningJob DEF Reread
<1>2. old.user \in Ids /\ users[old.user] # None
  BY <1>1 DEF Sound, Uses
<1>3. r \subseteq Roles
  BY <1>2, RowTyped DEF RolesOf, Inv
<1>4. jobs' = [jobs EXCEPT ![s] = j]
  <2>1. s \in DOMAIN jobs
    BY DEF Inv, JobsInv, JobsTyped
  <2> QED
    BY <2>1 DEF Reread
<1>5. TablesInv' /\ Grow /\ CookiesInv' /\ RestTyped' /\ users' = users /\ tokens' = tokens
  BY TablesStay, CookiesStay DEF Reread, Inv, RestTyped
<1> HIDE DEF old, r
<1>6. j \in Jobs /\ j.at = "insert" /\ j.user = old.user /\ j.gives = old.gives
  BY <1>1, <1>3 DEF Jobs
<1> HIDE DEF j
<1>7. Sound(j, users', tokens')
  BY <1>1, <1>2, <1>5, <1>6 DEF Sound, Uses
<1> QED
  BY <1>4, <1>5, <1>6, <1>7, OneJob DEF Inv

\* ... and still is none when they are saved: nobody has become one meanwhile.
LEMMA InvSaveRoles ==
  ASSUME Inv, NEW s \in Slots, SaveRoles(s)
  PROVE  Inv'
<1> DEFINE u == jobs[s].user
           r == Given(jobs[s].roles)
           row == [users[u] EXCEPT !.roles = r]
           N == Noticing(u, r)
<1>1. jobs[s] \in Jobs /\ Sound(jobs[s], users, tokens) /\ jobs[s].at = "saveRoles"
  BY RunningJob DEF SaveRoles
<1>2. u \in Ids /\ users[u] # None /\ "superUser" \notin users[u].roles
  BY <1>1 DEF Sound, Uses
<1>3. users[u] \in UserRows
  BY <1>2, RowTyped DEF Inv
<1>4. r \subseteq Roles /\ "superUser" \notin r
  BY <1>1 DEF Given, Jobs
<1>5. users' = [users EXCEPT ![u] = row] /\ jobs' = [N EXCEPT ![s].at = "reply"]
  <2>1. u \in DOMAIN users
    BY <1>2 DEF Inv, TablesInv, TablesTyped
  <2> QED
    BY <2>1 DEF SaveRoles
<1>6. tokens' = tokens /\ cookies' = cookies /\ RestTyped'
  BY DEF SaveRoles, Inv, RestTyped
<1>7. row \in UserRows /\ row # None /\ row.roles = r /\ row.email = users[u].email
  <2>1. row \in UserRows /\ row.roles = r /\ row.email = users[u].email
    BY <1>3, <1>4 DEF UserRows
  <2> QED
    BY <2>1, RowsAssumption
<1>8. ASSUME NEW t \in Slots
      PROVE  /\ Running(t) =>
                  /\ N[t] \in Jobs
                  /\ N[t].at = jobs[t].at /\ N[t].user = jobs[t].user
                  /\ N[t].jti = jobs[t].jti /\ N[t].email = jobs[t].email
                  /\ N[t].gives = jobs[t].gives
             /\ ~Running(t) => N[t] = None
  <2>1. jobs[t] \in Jobs \cup {None}
    BY DEF Inv, JobsInv, JobsTyped
  <2>2. CASE Running(t) /\ jobs[t].user = u /\ jobs[t].kind # "updateRoles"
    <3>1. N[t] = [jobs[t] EXCEPT !.held = @ \cup r]
      BY <2>2 DEF Noticing
    <3>2. jobs[t] \in Jobs
      BY <2>1, <2>2 DEF Running
    <3> HIDE DEF N, u, r
    <3> QED
      BY <1>4, <2>2, <3>1, <3>2 DEF Jobs
  <2>3. CASE ~(Running(t) /\ jobs[t].user = u /\ jobs[t].kind # "updateRoles")
    <3>1. N[t] = jobs[t]
      BY <2>3 DEF Noticing
    <3> QED
      BY <2>1, <3>1 DEF Running
  <2> QED
    BY <2>2, <2>3
<1>9. DOMAIN N = Slots
  BY DEF Noticing
<1> HIDE DEF row, r, u
<1>10. users'[u] = row /\ \A v \in Ids : v # u => users'[v] = users[v]
  BY <1>2, <1>5 DEF Inv, TablesInv, TablesTyped
<1>11. TablesInv'
  <2>1. TablesTyped'
    BY <1>5, <1>6, <1>7 DEF Inv, TablesInv, TablesTyped
  <2>2. EmailsUnique'
    BY <1>2, <1>7, <1>10 DEF Inv, TablesInv, EmailsUnique, HasEmail
  <2>3. OnlyOwnerIsSuper'
    BY <1>2, <1>4, <1>7, <1>10 DEF Inv, TablesInv, OnlyOwnerIsSuper
  <2> QED
    BY <2>1, <2>2, <2>3 DEF TablesInv
<1>12. Grow
  BY <1>2, <1>4, <1>6, <1>7, <1>10 DEF Grow
<1> HIDE DEF N
<1>13. ASSUME NEW t \in Slots, Running(t) PROVE Sound(N[t], users', tokens')
  <2>1. jobs[t] \in Jobs /\ Sound(jobs[t], users, tokens)
    BY <1>13, RunningJob
  <2>2. Sound(jobs[t], users', tokens')
    BY <1>12, <2>1, SoundStays
  <2> QED
    BY <1>8, <1>13, <2>2 DEF Sound, Uses, PairKnown
<1> DEFINE j == [N[s] EXCEPT !.at = "reply"]
<1>14. jobs' = [N EXCEPT ![s] = j]
  BY <1>5, <1>9
<1>15. Running(s) /\ N[s] \in Jobs /\ PairKnown(N[s].gives, users')
  BY <1>8, <1>13 DEF SaveRoles, Sound
<1>16. j \in Jobs /\ j.at = "reply" /\ j.gives = N[s].gives
  BY <1>15 DEF Jobs
<1> HIDE DEF j
<1>17. Sound(j, users', tokens')
  BY <1>15, <1>16 DEF Sound, Uses
<1>18. jobs'[s] = j /\ \A t \in Slots : t # s => jobs'[t] = N[t]
  BY <1>9, <1>14
<1>19. JobsTyped'
  <2>1. DOMAIN jobs' = Slots /\ jobs' = [t \in Slots |-> jobs'[t]]
    BY <1>9, <1>14 DEF Noticing
  <2> QED
    BY <1>8, <1>16, <1>18, <2>1 DEF JobsTyped
<1>20. JobsSound'
  BY <1>8, <1>13, <1>17, <1>18 DEF JobsSound, Running
<1> QED
  BY <1>6, <1>11, <1>12, <1>19, <1>20, CookiesStay DEF Inv, JobsInv

LEMMA InvReply ==
  ASSUME Inv, NEW s \in Slots, Reply(s)
  PROVE  Inv'
<1>1. jobs[s] \in Jobs /\ PairKnown(jobs[s].gives, users)
  BY RunningJob DEF Reply, Sound
<1>2. jobs[s].gives \in Pairs
  BY <1>1 DEF Jobs
<1>3. TablesInv' /\ Grow /\ RestTyped' /\ users' = users
  BY TablesStay DEF Reply, Inv, RestTyped
<1>4. CookiesInv'
  BY <1>1, <1>2, <1>3 DEF Reply, Inv, CookiesInv, CookiesTyped, CookiesKnown
<1>5. JobsInv'
  BY <1>3, OneJob DEF Reply, Inv
<1> QED
  BY <1>3, <1>4, <1>5 DEF Inv

\* Failures and time.
LEMMA InvWorld ==
  ASSUME Inv, (\E s \in Slots : Drop(s)) \/ Crash \/ Tick \/ UNCHANGED vars
  PROVE  Inv'
<1>1. TablesInv' /\ Grow /\ CookiesInv' /\ users' = users /\ tokens' = tokens
  BY TablesStay, CookiesStay DEF Drop, Crash, Tick, vars, Inv
<1>2. RestTyped'
  BY TimesAssumption DEF Drop, Crash, Tick, vars, Inv, RestTyped
<1>3. JobsInv'
  <2>1. CASE \E s \in Slots : Drop(s)
    BY <1>1, <2>1, OneJob DEF Drop, Inv
  <2>2. CASE Crash
    BY <2>2 DEF Crash, JobsInv, JobsTyped, JobsSound, Running
  <2>3. CASE Tick \/ UNCHANGED vars
    BY <1>1, <2>3 DEF Tick, vars, Inv, JobsInv, JobsTyped, JobsSound, Running
  <2> QED
    BY <2>1, <2>2, <2>3
<1> QED
  BY <1>1, <1>2, <1>3 DEF Inv

LEMMA InvStep == Inv /\ [Next]_vars => Inv'
<1> SUFFICES ASSUME Inv, [Next]_vars PROVE Inv'
  OBVIOUS
<1>1. CASE Requests
  BY <1>1, InvRegister, InvLogin, InvRefresh, InvLogout, InvUpdateRoles DEF Requests
<1>2. CASE Handlers
  BY <1>2, InvSaveUser, InvIssuePair, InvRevoke, InvReread, InvSaveRoles, InvReply, InvWorld
     DEF Handlers
<1>3. CASE Crash \/ Tick \/ UNCHANGED vars
  BY <1>3, InvWorld
<1> QED
  BY <1>1, <1>2, <1>3 DEF Next
-----------------------------------------------------------------------------
\* Users, tokens, cookies and requests keep their types, and what a request is
\* about to use exists.
THEOREM SessionsTyped == Spec => []TypeOK
<1>1. Inv => TypeOK
  BY RunningJob
     DEF Inv, TablesInv, TablesTyped, JobsInv, JobsTyped, CookiesInv, CookiesTyped,
         RestTyped, TypeOK, Sound, Uses
<1> QED
  BY InvInit, InvStep, <1>1, PTL DEF Spec

\* One address has one user, however registrations overlap: the unique index
\* refuses the second, the check before it does not matter.
THEOREM AddressesAreUnique == Spec => []EmailsUnique
<1>1. Inv => EmailsUnique
  BY DEF Inv, TablesInv
<1> QED
  BY InvInit, InvStep, <1>1, PTL DEF Spec

\* The owner is the super user and nobody else is, although updateRoles checks
\* the user it has read and saves him after others have changed the tables.
THEOREM OwnerStaysSuper == Spec => []OnlyOwnerIsSuper
<1>1. Inv => OnlyOwnerIsSuper
  BY DEF Inv, TablesInv
<1> QED
  BY InvInit, InvStep, <1>1, PTL DEF Spec
=============================================================================
