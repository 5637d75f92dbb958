------------------------------- MODULE Accounts -------------------------------
(***************************************************************************)
(* Users, their refresh tokens and the one-time tokens of their mails:     *)
(* every request of auth/, user/, token/ and email/ that changes them.     *)
(*                                                                         *)
(* A request reads a user, works on what it has read and goes through the  *)
(* rest of its handler, "todo", one awaited call after the other.  save()  *)
(* of a user writes every column as it was read, and inserts the row again *)
(* if it is gone.  Browsers hold two cookies, the access and the refresh   *)
(* token; Sessions adds what the web application does with them.           *)
(***************************************************************************)
EXTENDS Naturals, Sequences, FiniteSets

CONSTANTS
    Emails, GoogleEmail,  \* the e-mail of the one Google account
    MaxUsers, MaxTokens, MaxMails,   \* bounds: rows and mails ever made
    Browsers, Reqs, Tabs,
    NoTab,        \* a request that no call of a tab waits for
    Modes,
    MaxSolo,      \* bound: requests and faults, one after the other, or
    MaxShared,    \* requests at the same time
    MaxFaults     \* bound: failed calls, restarts, switches of Redis

ASSUME AccountsAssumption ==
    /\ GoogleEmail \in Emails
    /\ MaxUsers \in Nat \ {0} /\ MaxTokens \in Nat \ {0} /\ MaxMails \in Nat
    /\ NoTab \notin Tabs /\ "nobody" \notin Browsers
    /\ MaxSolo \in Nat /\ MaxShared \in Nat /\ MaxFaults \in Nat

VARIABLES
    mode,
    selfHosted, devices,     \* INSTANCE_MODE, APP_AUTH_ALLOW_MULTIPLE_DEVICES
    users,                   \* the table users
    tokens,                  \* refresh_tokens, without those that have expired
    redis, inRedis, inMemory,   \* the token store: is Redis ready, and what is where
    jar,                     \* cookies of each browser
    req, answer,             \* requests in progress, and how the last one ended
    nextUser, nextToken, nextMail, requests, faults,
    revoked, used, expired   \* history: refresh tokens that were revoked,
                             \* one-time tokens that were redeemed, or are too old

config == <<mode, selfHosted, devices>>
store == <<redis, inRedis, inMemory, nextMail, used, expired>>
rows == <<tokens, nextToken, revoked>>
vars == <<config, users, rows, store, jar, req, answer, nextUser, requests, faults>>

User == [email : Emails, pass : BOOLEAN, verified : BOOLEAN, locked : BOOLEAN, enabled : BOOLEAN,
         linked : BOOLEAN, made : {"LOCAL", "GOOGLE"}, admin : BOOLEAN]
NoUser == [made |-> "none"]
Id == 1..MaxUsers
Ids == {u \in Id : users[u] # NoUser}
ByEmail(m) == {u \in Ids : users[u].email = m}
Linked == {u \in Ids : users[u].linked}

\* A token of a mail names a user, or the emails of a change.
Mail == [id : 1..MaxMails, kind : {"confirm", "reset", "change"}, user : Id, old : Emails, email : Emails]
Token == [id : 1..MaxTokens, user : Id]
NoCookie == [access |-> "none", refresh |-> 0]
Cookies == [access : Emails \cup {"none", "old"}, refresh : 0..MaxTokens]

Idle == [todo |-> <<>>]
Whats == {"register", "login", "google", "link", "refresh", "logout", "resend", "forgot", "reset",
          "confirm", "askChange", "change", "confirmChange", "edit", "delete", "adminCreate",
          "adminUpdate"}
Steps == {"read", "taken", "owners", "insert", "save", "mail", "purge", "issue", "drop", "revoke",
          "burn", "delete", "find", "merge", "validate", "answer"}
Busy == [what : Whats, todo : Seq(Steps), by : Browsers \cup {"nobody"}, tab : Tabs \cup {NoTab},
         id : Id \cup {0}, row : User \cup {NoUser}, email : Emails,
         shown : 0..MaxTokens,        \* the refresh token of the cookie
         new : 0..MaxTokens,          \* the one issued
         key : Mail \cup {NoUser}]    \* the one-time token that was presented

TypeOK ==
    /\ mode \in Modes /\ selfHosted \in BOOLEAN /\ devices \in BOOLEAN /\ redis \in BOOLEAN
    /\ users \in [Id -> User \cup {NoUser}]
    /\ \A t \in tokens : t \in Token /\ users[t.user] # NoUser
    /\ inRedis \subseteq Mail /\ inMemory \subseteq Mail
    /\ jar \in [Browsers -> Cookies]
    /\ \A r \in Reqs : req[r] # Idle => req[r] \in Busy
    /\ answer \in [Reqs -> {"none", "ok", "failed"}]
    /\ nextUser \in 1..(MaxUsers + 1) /\ nextToken \in 1..(MaxTokens + 1)
    /\ nextMail \in 1..(MaxMails + 1) /\ faults \in 0..MaxFaults
    /\ \A m \in Emails : Cardinality(ByEmail(m)) <= 1
    /\ Cardinality(Linked) <= 1

Quiet == \A r \in Reqs : req[r] = Idle
MayStart ==
    IF mode = "solo" THEN requests + faults < MaxSolo /\ Quiet
    ELSE mode \in {"shared", "google"} /\ requests < MaxShared
Slot(r) == mode \in {"shared", "google"} \/ r = CHOOSE s \in Reqs : TRUE

Request(what, b, u, row, todo) ==
    [what |-> what, todo |-> todo, by |-> b, tab |-> NoTab, id |-> u, row |-> row,
     email |-> GoogleEmail, shown |-> IF b = "nobody" THEN 0 ELSE jar[b].refresh, new |-> 0,
     key |-> NoUser]
Put(r, q) == req' = [req EXCEPT ![r] = q] /\ answer' = [answer EXCEPT ![r] = "none"]
Accept(r, q) ==
    /\ req[r] = Idle /\ MayStart /\ Slot(r)
    /\ Put(r, q)
    /\ requests' = requests + 1
    /\ UNCHANGED <<config, users, rows, store, jar, nextUser, faults>>

At(r, step) == req[r] # Idle /\ Head(req[r].todo) = step
Go(r) == req' = [req EXCEPT ![r].todo = Tail(@)] /\ UNCHANGED answer
End(r, how) ==
    req' = [req EXCEPT ![r] = Idle] /\ answer' = [answer EXCEPT ![r] = how]
Same == UNCHANGED <<config, nextUser, requests, faults>>

\* The user of a valid access token: looked up by the email it names.
Known(b) == {u \in ByEmail(jar[b].access) : users[u].enabled}

------------------------------------------------------------------------------
(* What starts a request, up to its first read.                             *)

Session == <<"purge", "issue", "answer">>

Register(r, b, m) ==
    /\ selfHosted => Ids = {}
    /\ nextUser <= MaxUsers
    /\ LET row == [email |-> m, pass |-> TRUE, verified |-> selfHosted, locked |-> FALSE, enabled |-> TRUE,
                   linked |-> FALSE, made |-> "LOCAL", admin |-> selfHosted]
       IN Accept(r, [Request("register", b, 0, row, <<"taken", "insert", "mail">> \o Session)
                       EXCEPT !.email = m])

Login(r, b, u) ==
    /\ u \in Ids /\ users[u].pass /\ ~users[u].locked
    /\ Accept(r, Request("login", b, u, users[u], <<"save">> \o Session))

GoogleLogin(r, b) ==
    /\ ~selfHosted /\ nextUser <= MaxUsers
    /\ Accept(r, Request("google", b, 0, NoUser, <<"find">>))

Link(r, b) ==
    /\ ~selfHosted
    /\ \E u \in Known(b) :
          /\ ~users[u].locked /\ ~users[u].linked
          /\ Accept(r, Request("link", b, u, [users[u] EXCEPT !.linked = TRUE,
                                    !.verified = @ \/ users[u].email = GoogleEmail],
                               <<"owners", "save">> \o Session))

Refresh(r, b, t) == [Request("refresh", b, 0, NoUser, <<"validate", "drop">> \o Session) EXCEPT !.tab = t]

BeginRefresh(r, b) == jar[b].refresh # 0 /\ Accept(r, Refresh(r, b, NoTab))

Logout(r, b) ==
    /\ jar[b].refresh # 0
    /\ \E u \in Known(b) :
         Accept(r, Request("logout", b, u, users[u],
                           IF devices THEN <<"drop", "answer">> ELSE <<"revoke", "answer">>))

Resend(r, b) ==
    \E u \in Known(b) : ~users[u].verified /\ Accept(r, Request("resend", b, u, users[u], <<"mail", "answer">>))

Forgot(r, u) ==
    /\ ~selfHosted /\ u \in Ids
    /\ Accept(r, Request("forgot", "nobody", u, users[u], <<"mail", "answer">>))

\* A link from a mail: its token is looked up first.
Follow(r, k) ==
    /\ k \in IF redis THEN inRedis ELSE inMemory
    /\ k.kind = "reset" => ~selfHosted
    /\ Accept(r, [Request(CASE k.kind = "reset" -> "reset" [] k.kind = "confirm" -> "confirm"
                            [] k.kind = "change" -> "confirmChange",
                          "nobody", 0, NoUser,
                          IF k.kind = "change" THEN <<"read", "save", "revoke", "burn", "answer">>
                          ELSE <<"read", "save", "burn", "answer">>) EXCEPT !.key = k])

\* changeEmail: by mail, or at once on a self-hosted instance.
ChangeEmail(r, b, m) ==
    \E u \in Known(b) :
      LET ask == Request("askChange", b, u, users[u], <<"taken", "mail", "answer">>)
          now == Request("change", b, u, [users[u] EXCEPT !.email = m],
                         <<"taken", "save", "revoke", "answer">>)
      IN /\ selfHosted => m # users[u].email
         /\ Accept(r, [(IF selfHosted THEN now ELSE ask) EXCEPT !.email = m])

\* updateProfile and changePassword write the row back as it was read;
\* setPasswordForGoogle and unlinkGoogle change it.
Edits(row) ==
    {row} \cup (IF row.made = "GOOGLE" /\ ~row.pass THEN {[row EXCEPT !.pass = TRUE]} ELSE {})
          \cup (IF (row.made = "GOOGLE" \/ row.linked) /\ row.pass
                THEN {[row EXCEPT !.made = "LOCAL", !.linked = FALSE]} ELSE {})

EditAccount(r, b) ==
    \E u \in Known(b) : \E row \in Edits(users[u]) :
        Accept(r, Request("edit", b, u, row, <<"save", "answer">>))

DeleteAccount(r, b) ==
    \E u \in Known(b) :
        /\ ~(selfHosted /\ users[u].admin)
        /\ Accept(r, Request("delete", b, u, users[u], <<"delete", "answer">>))

AdminCreate(r, m) ==
    /\ nextUser <= MaxUsers
    /\ LET row == [email |-> m, pass |-> TRUE, verified |-> FALSE, locked |-> FALSE, enabled |-> TRUE,
                   linked |-> FALSE, made |-> "LOCAL", admin |-> FALSE]
       IN Accept(r, [Request("adminCreate", "nobody", 0, row, <<"taken", "insert", "answer">>)
                       EXCEPT !.email = m])

AdminUpdate(r, u) ==
    /\ u \in Ids
    /\ \E row \in {[users[u] EXCEPT !.locked = ~@], [users[u] EXCEPT !.enabled = ~@]} :
         Accept(r, Request("adminUpdate", "nobody", u, row, <<"save", "answer">>))

AdminDelete(r, u) ==
    u \in Ids /\ Accept(r, Request("delete", "nobody", u, users[u], <<"delete", "answer">>))

------------------------------------------------------------------------------
(* The steps.                                                               *)

Free(m, u) == ByEmail(m) \subseteq {u}
Unique(row, u) == Free(row.email, u) /\ (row.linked => Linked \subseteq {u})

Taken(r) ==
    /\ At(r, "taken")
    /\ IF ByEmail(req[r].email) = {} THEN Go(r) ELSE End(r, "failed")
    /\ UNCHANGED <<users, rows, store, jar>> /\ Same

Owners(r) ==
    /\ At(r, "owners")
    /\ IF Linked \subseteq {req[r].id} /\ Free(GoogleEmail, req[r].id) THEN Go(r) ELSE End(r, "failed")
    /\ UNCHANGED <<users, rows, store, jar>> /\ Same

\* A user by the token of a mail: by id, or by the email there was.
Read(r) ==
    LET k == req[r].key
        found == IF k.kind = "change" THEN ByEmail(k.old) ELSE Ids \cap {k.user}
        changed(u) == CASE k.kind = "reset" -> [users[u] EXCEPT !.pass = TRUE]
                        [] k.kind = "confirm" -> [users[u] EXCEPT !.verified = TRUE]
                        [] k.kind = "change" -> [users[u] EXCEPT !.verified = TRUE, !.email = k.email]
    IN /\ At(r, "read")
       /\ \/ /\ found = {}
             /\ End(r, "failed")
          \/ \E u \in found :
               /\ req' = [req EXCEPT ![r].todo = Tail(@), ![r].id = u, ![r].row = changed(u)]
               /\ UNCHANGED answer
       /\ UNCHANGED <<users, rows, store, jar>> /\ Same

\* The new row of a user; a Google login whose row is refused looks again.
Insert(r) ==
    LET q == req[r] IN
    /\ At(r, "insert")
    /\ Unique(q.row, 0) => nextUser <= MaxUsers
    /\ IF Unique(q.row, 0)
       THEN /\ users' = [users EXCEPT ![nextUser] = q.row]
            /\ req' = [req EXCEPT ![r].todo = Tail(@), ![r].id = nextUser]
            /\ nextUser' = nextUser + 1
            /\ UNCHANGED answer
       ELSE /\ IF q.what = "google" THEN req' = [req EXCEPT ![r].todo = <<"merge">>] /\ UNCHANGED answer
               ELSE End(r, "failed")
            /\ UNCHANGED <<users, nextUser>>
    /\ UNCHANGED <<config, rows, store, jar, requests, faults>>

\* Mutant of Save: without the unique columns.
SaveAnyway(r) ==
    /\ At(r, "save")
    /\ users' = [users EXCEPT ![req[r].id] = req[r].row]
    /\ Go(r)
    /\ UNCHANGED <<rows, store, jar>> /\ Same

Save(r) ==
    LET q == req[r] IN
    /\ At(r, "save")
    /\ IF Unique(q.row, q.id)
       THEN users' = [users EXCEPT ![q.id] = q.row] /\ Go(r)
       ELSE UNCHANGED users /\ End(r, "failed")
    /\ UNCHANGED <<rows, store, jar>> /\ Same

\* loginWithGoogle: the user by the Google email, or else by the Google id;
\* mergeGoogleProfileIntoUser.
Of == IF ByEmail(GoogleEmail) # {} THEN ByEmail(GoogleEmail) ELSE Linked
Merged(row) == [row EXCEPT !.linked = TRUE, !.verified = @ \/ row.email = GoogleEmail]
Merge(r, u) ==
    IF users[u].locked THEN End(r, "failed")
    ELSE /\ req' = [req EXCEPT ![r] = [@ EXCEPT !.todo = <<"save">> \o Session, !.id = u,
                                                !.row = Merged(users[u])]]
         /\ UNCHANGED answer

GoogleRow == [email |-> GoogleEmail, pass |-> FALSE, verified |-> TRUE, locked |-> FALSE, enabled |-> TRUE,
              linked |-> TRUE, made |-> "GOOGLE", admin |-> FALSE]

Find(r) ==
    /\ At(r, "find")
    /\ IF Of # {} THEN \E u \in Of : Merge(r, u)
       ELSE /\ req' = [req EXCEPT ![r] = [@ EXCEPT !.todo = <<"insert">> \o Session, !.row = GoogleRow]]
            /\ UNCHANGED answer
    /\ UNCHANGED <<users, rows, store, jar>> /\ Same

\* Mutant of FindAgain: a row that was refused is an error.
FindNever(r) ==
    /\ At(r, "merge")
    /\ End(r, "failed")
    /\ UNCHANGED <<users, rows, store, jar>> /\ Same

FindAgain(r) ==
    /\ At(r, "merge")
    /\ IF Of # {} THEN \E u \in Of : Merge(r, u) ELSE End(r, "failed")
    /\ UNCHANGED <<users, rows, store, jar>> /\ Same

\* sendConfirmationEmail and the others: the delete before is of a key that is
\* never used, so earlier tokens stay good.
MailKey(q) ==
    [id |-> nextMail, email |-> q.email,
     kind |-> CASE q.what = "forgot" -> "reset" [] q.what = "askChange" -> "change" [] OTHER -> "confirm",
     user |-> q.id, old |-> q.row.email]

SendMail(r) ==
    /\ At(r, "mail") /\ nextMail <= MaxMails
    /\ nextMail' = nextMail + 1
    /\ LET k == MailKey(req[r]) IN
       IF redis THEN inRedis' = inRedis \cup {k} /\ UNCHANGED inMemory
       ELSE inMemory' = inMemory \cup {k} /\ UNCHANGED inRedis
    /\ Go(r)
    /\ UNCHANGED <<users, rows, redis, used, expired, jar>> /\ Same

\* createRefreshToken: with a single device the others go first.
Purge(r) ==
    /\ At(r, "purge")
    /\ tokens' = IF devices THEN tokens ELSE {t \in tokens : t.user # req[r].id}
    /\ Go(r)
    /\ UNCHANGED <<users, nextToken, revoked, store, jar>> /\ Same

Issue(r) ==
    LET q == req[r] IN
    /\ At(r, "issue") /\ nextToken <= MaxTokens
    /\ IF users[q.id] # NoUser
       THEN /\ tokens' = tokens \cup {[id |-> nextToken, user |-> q.id]}
            /\ nextToken' = nextToken + 1
            /\ req' = [req EXCEPT ![r].todo = Tail(@), ![r].new = nextToken]
            /\ UNCHANGED answer
       ELSE End(r, "failed") /\ UNCHANGED <<tokens, nextToken>>
    /\ UNCHANGED <<users, revoked, store, jar>> /\ Same

\* validateRefreshToken reads the row with its user.
Validate(r) ==
    LET found == {t \in tokens : t.id = req[r].shown} IN
    /\ At(r, "validate")
    /\ \/ found = {} /\ End(r, "failed")
       \/ \E t \in found :
            /\ req' = [req EXCEPT ![r].todo = Tail(@), ![r].id = t.user, ![r].row = users[t.user]]
            /\ UNCHANGED answer
    /\ UNCHANGED <<users, rows, store, jar>> /\ Same

\* deleteByToken: no look at whether a row was there.
Drop(r) ==
    /\ At(r, "drop")
    /\ tokens' = {t \in tokens : t.id # req[r].shown}
    /\ Go(r)
    /\ UNCHANGED <<users, nextToken, revoked, store, jar>> /\ Same

\* Mutant of Revoke: only the token of the browser goes.
RevokeOne(r) ==
    /\ At(r, "revoke")
    /\ tokens' = {t \in tokens : t.id # req[r].shown}
    /\ Go(r)
    /\ UNCHANGED <<users, nextToken, revoked, store, jar>> /\ Same

\* deleteByUserId
Revoke(r) ==
    /\ At(r, "revoke")
    /\ tokens' = {t \in tokens : t.user # req[r].id}
    /\ Go(r)
    /\ UNCHANGED <<users, nextToken, revoked, store, jar>> /\ Same

\* deleteUserAndRelatedRows: one transaction.
Delete(r) ==
    /\ At(r, "delete")
    /\ users' = [users EXCEPT ![req[r].id] = NoUser]
    /\ tokens' = {t \in tokens : t.user # req[r].id}
    /\ Go(r)
    /\ UNCHANGED <<nextToken, revoked, store, jar>> /\ Same

\* Mutant of Burn: the key that is deleted is the user's, as in MailKey.
BurnUser(r) ==
    /\ At(r, "burn")
    /\ used' = used \cup {req[r].key.id}
    /\ Go(r)
    /\ UNCHANGED <<users, rows, redis, inRedis, inMemory, nextMail, expired, jar>> /\ Same

\* delete(): in Redis if it is ready, and always in memory.
Burn(r) ==
    LET k == {req[r].key} IN
    /\ At(r, "burn")
    /\ inRedis' = IF redis THEN inRedis \ k ELSE inRedis
    /\ inMemory' = inMemory \ k
    /\ used' = used \cup {req[r].key.id}
    /\ Go(r)
    /\ UNCHANGED <<users, rows, redis, nextMail, expired, jar>> /\ Same

\* The cookies of a session that begins or goes on, or of one that ends.
Attached(q) ==
    CASE q.new # 0 -> [access |-> q.row.email, refresh |-> q.new]
      [] q.what = "logout" -> NoCookie
      [] OTHER -> jar[q.by]

\* The tokens that are good for nothing from now on.
Ended(q) ==
    CASE q.what = "logout" /\ devices -> {q.shown}
      [] q.what \in {"logout", "change", "confirmChange", "delete"} /\ ~(q.what = "logout" /\ devices) ->
           {i \in 1..(nextToken - 1) : ~\E t \in tokens : t.id = i /\ t.user # q.id}
      [] q.what = "refresh" -> {q.shown}
      [] OTHER -> {}

Answer(r) ==
    LET q == req[r] IN
    /\ At(r, "answer")
    /\ End(r, "ok")
    /\ jar' = IF q.by = "nobody" THEN jar ELSE [jar EXCEPT ![q.by] = Attached(q)]
    /\ revoked' = IF mode = "solo" THEN revoked \cup Ended(q) ELSE revoked
    /\ UNCHANGED <<users, tokens, nextToken, store>> /\ Same

------------------------------------------------------------------------------
(* What goes wrong, and time.                                               *)

Faulty == mode \in {"solo", "tab"} /\ faults < MaxFaults

\* A call rejects.  A confirmation mail that cannot be sent does not stop a
\* registration; its token may be stored.
Fails(r) ==
    /\ req[r] # Idle /\ Faulty
    /\ faults' = faults + 1
    /\ IF At(r, "mail") /\ req[r].what = "register" THEN Go(r) ELSE End(r, "failed")
    /\ UNCHANGED <<config, users, rows, store, jar, nextUser, requests>>

Restart ==
    /\ Faulty
    /\ faults' = faults + 1
    /\ req' = [r \in Reqs |-> Idle]
    /\ answer' = [r \in Reqs |-> IF req[r] # Idle THEN "failed" ELSE answer[r]]
    /\ inMemory' = {}
    /\ UNCHANGED <<config, users, rows, redis, inRedis, nextMail, used, expired, jar, nextUser, requests>>

RedisSwitches ==
    /\ mode = "solo" /\ Faulty
    /\ faults' = faults + 1
    /\ redis' = ~redis
    /\ UNCHANGED <<config, users, rows, inRedis, inMemory, nextMail, used, expired, jar, req, answer,
                   nextUser, requests>>

\* Seven days pass for a refresh token, or a mail gets too old, instead of a
\* request.
TokenExpires(t) ==
    /\ mode = "solo" /\ t \in tokens /\ MayStart
    /\ tokens' = tokens \ {t}
    /\ requests' = requests + 1
    /\ UNCHANGED <<config, users, nextToken, revoked, store, jar, req, answer, nextUser, faults>>

MailExpires(k) ==
    /\ mode = "solo" /\ k \in inRedis \cup inMemory /\ MayStart
    /\ inRedis' = inRedis \ {k} /\ inMemory' = inMemory \ {k}
    /\ expired' = expired \cup {k.id}
    /\ requests' = requests + 1
    /\ UNCHANGED <<config, users, rows, redis, nextMail, used, jar, req, answer, nextUser, faults>>

Others(r) ==
    \/ \E b \in Browsers :
         \/ \E m \in Emails : Register(r, b, m) \/ ChangeEmail(r, b, m)
         \/ \E u \in Id : Login(r, b, u)
         \/ Link(r, b) \/ BeginRefresh(r, b) \/ Logout(r, b) \/ Resend(r, b)
         \/ EditAccount(r, b) \/ DeleteAccount(r, b)
    \/ \E u \in Id : Forgot(r, u) \/ AdminUpdate(r, u) \/ AdminDelete(r, u)
    \/ \E k \in inRedis \cup inMemory : Follow(r, k)
    \/ \E m \in Emails : AdminCreate(r, m)

Requests(r) ==
    \/ \E b \in Browsers : GoogleLogin(r, b)
    \/ mode # "google" /\ Others(r)

Advance(r) ==
    \/ Taken(r) \/ Owners(r) \/ Read(r) \/ Insert(r) \/ Save(r) \/ Find(r) \/ FindAgain(r)
    \/ SendMail(r) \/ Purge(r) \/ Issue(r) \/ Validate(r) \/ Drop(r) \/ Revoke(r) \/ Delete(r)
    \/ Burn(r)

Around ==
    \/ \E r \in Reqs : Fails(r)
    \/ Restart \/ RedisSwitches
    \/ \E t \in tokens : TokenExpires(t)
    \/ \E k \in inRedis \cup inMemory : MailExpires(k)

------------------------------------------------------------------------------
(* Properties.                                                              *)

\* A request that ends sessions, and is answered as a success, has ended them:
\* the browser's on a log out, all of the user's on a change of email, a
\* deletion, or a log out with a single device; and a refreshed token is gone.
RevokedStayRevoked == mode = "solo" => ~\E t \in tokens : t.id \in revoked

\* As long as nothing fails, the link of a mail is good until it has been
\* followed to the end, and never again.
OneTimeTokens ==
    mode = "solo" /\ Quiet /\ faults = 0 =>
        {k.id : k \in IF redis THEN inRedis ELSE inMemory} = 1..(nextMail - 1) \ (used \cup expired)

\* Logins with one Google account at the same time all succeed, and find or
\* make one user.
GoogleLoginsAgree ==
    mode = "google" /\ faults = 0 =>
        /\ \A r \in Reqs : answer[r] # "failed"
        /\ Quiet /\ requests > 0 => Cardinality(Linked) = 1
==============================================================================
