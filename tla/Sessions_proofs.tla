--------------------------- MODULE Sessions_proofs ---------------------------
(***************************************************************************)
(* Accounts and sessions: types, revoked refresh tokens, one-time tokens,   *)
(* logins with one Google account and the session of a single tab, for any  *)
(* number of users, tokens, mails, requests, calls and faults.              *)
(***************************************************************************)
EXTENDS Sessions, FiniteSetTheorems, SequenceTheorems, TLAPS

------------------------------------------------------------------------------
(* Where a request is: every handler goes through its steps in one order.   *)

Ends == {"answer", "find", "merge"}
Signing == {"purge", "issue", "answer"}

\* The steps of each handler.
StepsOf(w) ==
    CASE w = "register" -> {"taken", "insert", "mail"} \cup Signing
      [] w = "login" -> {"save"} \cup Signing
      [] w = "google" -> {"find", "merge", "insert", "save"} \cup Signing
      [] w = "link" -> {"owners", "save"} \cup Signing
      [] w = "refresh" -> {"validate", "drop"} \cup Signing
      [] w = "logout" -> {"drop", "revoke", "answer"}
      [] w \in {"resend", "forgot"} -> {"mail", "answer"}
      [] w \in {"reset", "confirm"} -> {"read", "save", "burn", "answer"}
      [] w = "confirmChange" -> {"read", "save", "revoke", "burn", "answer"}
      [] w = "askChange" -> {"taken", "mail", "answer"}
      [] w = "change" -> {"taken", "save", "revoke", "answer"}
      [] w \in {"edit", "adminUpdate"} -> {"save", "answer"}
      [] w = "delete" -> {"delete", "answer"}
      [] w = "adminCreate" -> {"taken", "insert", "answer"}

\* The step that follows one.
Then(w, s) ==
    CASE s = "taken" -> (CASE w \in {"register", "adminCreate"} -> "insert"
                           [] w = "askChange" -> "mail"
                           [] w = "change" -> "save")
      [] s = "insert" -> (CASE w = "register" -> "mail" [] w = "google" -> "purge" [] w = "adminCreate" -> "answer")
      [] s = "mail" -> (IF w = "register" THEN "purge" ELSE "answer")
      [] s \in {"owners", "read"} -> "save"
      [] s = "save" -> (CASE w \in {"login", "google", "link"} -> "purge"
                          [] w \in {"change", "confirmChange"} -> "revoke"
                          [] w \in {"reset", "confirm"} -> "burn"
                          [] w \in {"edit", "adminUpdate"} -> "answer")
      [] s = "revoke" -> (IF w = "confirmChange" THEN "burn" ELSE "answer")
      [] s = "drop" -> (IF w = "refresh" THEN "purge" ELSE "answer")
      [] s = "validate" -> "drop"
      [] s = "purge" -> "issue"
      [] s \in {"issue", "burn", "delete"} -> "answer"

OnPath(q) ==
    /\ q.todo \in Seq(Steps) /\ q.todo # <<>>
    /\ Head(q.todo) \in StepsOf(q.what)
    /\ \A i \in 1..Len(q.todo) :
         IF q.todo[i] \in Ends THEN i = Len(q.todo)
         ELSE i < Len(q.todo) /\ q.todo[i + 1] = Then(q.what, q.todo[i])

\* What a request has with it, once it has come so far.
Has(q) ==
    LET step == Head(q.todo) IN
    /\ step \notin {"read", "validate", "find"} => q.row \in User
    /\ step \notin {"read", "validate", "find", "merge"} =>
         \/ q.id \in Id
         \/ step \in {"taken", "insert"} /\ q.what \in {"register", "adminCreate", "google"}
    /\ q.what \in {"reset", "confirm", "confirmChange"} => q.key \in Mail

\* Its tokens were all made before these.
Bounded(q, token, mail) ==
    /\ q.shown < token /\ q.new < token
    /\ q.key # NoUser => q.key.id < mail

RequestsOK ==
    /\ req \in [Reqs -> {Idle} \cup Busy]
    /\ \A r \in Reqs : req[r] # Idle => OnPath(req[r]) /\ Has(req[r]) /\ Bounded(req[r], nextToken, nextMail)
    /\ answer \in [Reqs -> {"none", "ok", "failed"}]
    /\ requests \in Nat

RowsOK ==
    /\ mode \in Modes /\ selfHosted \in BOOLEAN /\ devices \in BOOLEAN /\ redis \in BOOLEAN
    /\ users \in [Id -> User \cup {NoUser}]
    /\ tokens \subseteq Token /\ \A t \in tokens : users[t.user] # NoUser /\ t.id < nextToken
    /\ inRedis \subseteq Mail /\ inMemory \subseteq Mail
    /\ \A k \in inRedis \cup inMemory : k.id < nextMail
    /\ jar \in [Browsers -> Cookies] /\ \A b \in Browsers : jar[b].refresh < nextToken
    /\ nextUser \in 1..(MaxUsers + 1) /\ nextToken \in 1..(MaxTokens + 1)
    /\ nextMail \in 1..(MaxMails + 1) /\ faults \in 0..MaxFaults

\* The unique columns of the table users.
UniqueRows ==
    /\ \A u, v \in Ids : users[u].email = users[v].email => u = v
    /\ \A u, v \in Linked : u = v

WebOK ==
    /\ call \in [Calls -> {NoCall} \cup Call]
    /\ flight \in [Tabs -> {"none", "asked", "abort"}]
    /\ calls \in 0..MaxCalls /\ ages \in 0..MaxAges /\ away \in BOOLEAN

TypesHold == RowsOK /\ RequestsOK /\ UniqueRows /\ WebOK

------------------------------------------------------------------------------
(* One request at a time.                                                   *)

OneByOne ==
    /\ mode = "solo" => \A r \in Reqs : req[r] # Idle => r = CHOOSE s \in Reqs : TRUE
    /\ ~Web => \A c \in Calls : call[c] = NoCall

\* What a request that ends sessions has done when it comes to its answer.
Gone(q, left) ==
    LET step == Head(q.todo) IN
    /\ q.what = "refresh" /\ step \in Signing => \A t \in left : t.id # q.shown
    /\ q.what = "logout" =>
         /\ step = "drop" => devices
         /\ step = "revoke" => ~devices
         /\ step = "answer" => \A t \in left : IF devices THEN t.id # q.shown ELSE t.user # q.id
    /\ q.what \in {"change", "delete"} /\ step = "answer" => \A t \in left : t.user # q.id
    /\ q.what = "confirmChange" /\ step \in {"burn", "answer"} => \A t \in left : t.user # q.id

Revoking ==
    /\ revoked \subseteq 0..(nextToken - 1)
    /\ mode = "solo" => /\ \A t \in tokens : t.id \notin revoked
                        /\ \A r \in Reqs : req[r] # Idle => Gone(req[r], tokens)

Mails == IF redis THEN inRedis ELSE inMemory

\* As long as nothing fails one store has it all, and each token once.
OneTime ==
    /\ used \cup expired \subseteq 1..(nextMail - 1)
    /\ mode = "solo" /\ faults = 0 =>
         /\ inRedis = {} \/ inMemory = {}
         /\ inRedis \cup inMemory = Mails
         /\ \A k, l \in Mails : k.id = l.id => k = l
         /\ {k.id : k \in Mails} = 1..(nextMail - 1) \ (used \cup expired)
         /\ \A r \in Reqs : req[r] # Idle /\ req[r].what \in {"reset", "confirm", "confirmChange"}
                              /\ Head(req[r].todo) # "answer" => req[r].key \in Mails

SoloHolds == OneByOne /\ Revoking /\ OneTime

------------------------------------------------------------------------------
(* Logins with Google, and a tab.                                           *)

\* A login with the Google account, the ids of users and who is linked.
OfGoogle(q, ids, linked) ==
    LET step == Head(q.todo) IN
    /\ q.what = "google"
    /\ step = "merge" => ids # {}
    /\ step = "insert" => q.row = GoogleRow
    /\ step = "save" => q.id \in ids /\ q.row.email = GoogleEmail /\ q.row.linked /\ ~q.row.locked
    /\ step \in Signing => q.id \in ids /\ linked # {}

GoogleHolds ==
    mode = "google" =>
        /\ \A u, v \in Ids : u = v
        /\ \A u \in Ids : users[u].email = GoogleEmail /\ ~users[u].locked
        /\ \A r \in Reqs : answer[r] # "failed"
        /\ \A r \in Reqs : req[r] # Idle => OfGoogle(req[r], Ids, Linked)
        /\ requests > 0 => Linked # {} \/ ~Quiet

Tab == CHOOSE t \in Tabs : TRUE

\* The refresh of the tab, the tokens and users there are.
OfTab(q, left, rowsOfUsers) ==
    LET step == Head(q.todo) IN
    /\ q.what = "refresh" /\ q.by = Here /\ q.tab = Tab /\ Tab \in Tabs
    /\ step = "validate" => \E t \in left : t.id = q.shown
    /\ step # "validate" => q.id = 1 /\ q.row = rowsOfUsers[1]
    /\ step = "answer" => q.new # 0 /\ \E t \in left : t.id = q.new

TabHolds ==
    mode = "tab" /\ faults = 0 /\ ~away =>
        /\ Ids = {1} /\ users[1].email = GoogleEmail /\ users[1].enabled
        /\ \A t \in Tabs : flight[t] = "none" \/ (t = Tab /\ flight[t] = "asked")
        /\ \A c \in Calls : call[c] # NoCall =>
             /\ call[c].tab = Tab
             /\ call[c].again => call[c].pc \in {"sent", "served"} /\ call[c].with = GoogleEmail
        /\ \A r, s \in Reqs : req[r] # Idle /\ req[s] # Idle => r = s
        /\ (\A t \in Tabs : flight[t] = "none") => \E t \in tokens : t.id = jar[Here].refresh
        /\ \A r \in Reqs : req[r] # Idle => flight[Tab] = "asked" /\ OfTab(req[r], tokens, users)

------------------------------------------------------------------------------
(* Paths.                                                                   *)

LEMMA ThenStays ==
  ASSUME NEW w \in Whats, NEW s \in StepsOf(w), s \notin Ends
  PROVE  Then(w, s) \in StepsOf(w)
BY DEF Whats, StepsOf, Then, Ends, Signing

LEMMA StepsOfType ==
  ASSUME NEW w \in Whats
  PROVE  StepsOf(w) \subseteq Steps
BY DEF Whats, StepsOf, Steps, Signing

\* A request that goes on is at the step that follows.
LEMMA TailPath ==
  ASSUME NEW q, OnPath(q), q.what \in Whats, Head(q.todo) \notin Ends,
         NEW x, x.what = q.what, x.todo = Tail(q.todo)
  PROVE  OnPath(x) /\ Head(x.todo) = Then(q.what, Head(q.todo))
<1> DEFINE n == Len(q.todo)
<1>1. n \in Nat /\ n > 0 /\ q.todo[1] = Head(q.todo) /\ q.todo \in Seq(Steps)
  BY DEF OnPath
<1>2. n > 1 /\ q.todo[2] = Then(q.what, Head(q.todo))
  BY <1>1 DEF OnPath
<1>3. /\ x.todo \in Seq(Steps) /\ Len(x.todo) = n - 1
      /\ \A i \in 1..(n - 1) : x.todo[i] = q.todo[i + 1]
  BY <1>1
<1>4. x.todo # <<>> /\ Head(x.todo) = x.todo[1]
  <2>1. Len(<<>>) = 0
    OBVIOUS
  <2>2. Len(x.todo) # 0
    BY <1>2, <1>3, <1>1
  <2>3. x.todo # <<>>
    BY <2>1, <2>2, Zenon
  <2>4. QED
    BY <1>3, <2>3
<1>5. Head(x.todo) = Then(q.what, Head(q.todo))
  BY <1>2, <1>3, <1>4
<1>6. Head(x.todo) \in StepsOf(x.what)
  BY <1>5, ThenStays DEF OnPath
<1>7. ASSUME NEW i \in 1..Len(x.todo)
      PROVE  IF x.todo[i] \in Ends THEN i = Len(x.todo)
             ELSE i < Len(x.todo) /\ x.todo[i + 1] = Then(x.what, x.todo[i])
  <2>1. i \in 1..(n - 1) /\ i + 1 \in 1..n /\ x.todo[i] = q.todo[i + 1]
    BY <1>1, <1>3
  <2>2. IF q.todo[i + 1] \in Ends THEN i + 1 = n
        ELSE i + 1 < n /\ q.todo[i + 1 + 1] = Then(q.what, q.todo[i + 1])
    BY <2>1 DEF OnPath
  <2>3. i + 1 < n => x.todo[i + 1] = q.todo[i + 1 + 1]
    BY <1>3, <2>1
  <2>4. QED
    BY <1>1, <1>3, <2>1, <2>2, <2>3
<1>8. QED
  BY <1>3, <1>4, <1>5, <1>6, <1>7 DEF OnPath

\* A way to the session that is issued at the end.
LEMMA PathToSession ==
  ASSUME NEW q, NEW p \in Seq(Steps), p # <<>>, q.todo = p \o Session, p[1] \in StepsOf(q.what),
         \A i \in 1..Len(p) : p[i] \notin Ends,
         \A i \in 1..(Len(p) - 1) : p[i + 1] = Then(q.what, p[i]),
         Then(q.what, p[Len(p)]) = "purge"
  PROVE  OnPath(q)
<1> DEFINE k == Len(p)
           t == q.todo
<1>1. Session \in Seq(Steps) /\ Len(Session) = 3
      /\ Session[1] = "purge" /\ Session[2] = "issue" /\ Session[3] = "answer"
  BY DEF Session, Steps
<1>2. k \in Nat /\ k > 0
  OBVIOUS
<1>3. t \in Seq(Steps) /\ Len(t) = k + 3
      /\ \A i \in 1..(k + 3) : t[i] = IF i <= k THEN p[i] ELSE Session[i - k]
  <2>1. /\ p \o Session \in Seq(Steps)
        /\ Len(p \o Session) = Len(p) + Len(Session)
        /\ \A i \in 1..(Len(p) + Len(Session)) :
             (p \o Session)[i] = IF i <= Len(p) THEN p[i] ELSE Session[i - Len(p)]
    BY <1>1, ConcatProperties
  <2>2. QED
    BY <1>1, <2>1
<1>4. t # <<>> /\ Head(t) = p[1]
  BY <1>2, <1>3
<1>5. ASSUME NEW i \in 1..Len(t)
      PROVE  IF t[i] \in Ends THEN i = Len(t) ELSE i < Len(t) /\ t[i + 1] = Then(q.what, t[i])
  <2>1. CASE i < k
    <3>1. t[i] = p[i] /\ t[i + 1] = p[i + 1]
      BY <1>2, <1>3, <2>1
    <3>2. i \in 1..k /\ i \in 1..(k - 1)
      BY <1>2, <2>1
    <3>3. QED
      BY <1>2, <1>3, <2>1, <3>1, <3>2
  <2>2. CASE i = k
    <3>1. t[i] = p[k] /\ t[i + 1] = "purge"
      BY <1>1, <1>2, <1>3, <2>2
    <3>2. QED
      BY <1>2, <1>3, <2>2, <3>1
  <2>3. CASE i = k + 1
    <3>1. t[i] = "purge" /\ t[i + 1] = "issue"
      BY <1>1, <1>2, <1>3, <2>3
    <3>2. QED
      BY <1>2, <1>3, <2>3, <3>1 DEF Then, Ends
  <2>4. CASE i = k + 2
    <3>1. t[i] = "issue" /\ t[i + 1] = "answer"
      BY <1>1, <1>2, <1>3, <2>4
    <3>2. QED
      BY <1>2, <1>3, <2>4, <3>1 DEF Then, Ends
  <2>5. CASE i = k + 3
    <3>1. t[i] = "answer"
      BY <1>1, <1>2, <1>3, <2>5
    <3>2. QED
      BY <1>3, <2>5, <3>1 DEF Ends
  <2>6. QED
    BY <1>2, <1>3, <2>1, <2>2, <2>3, <2>4, <2>5
<1>6. QED
  BY <1>3, <1>4, <1>5 DEF OnPath

\* What the handlers begin with, and a Google login when it goes on.
Way(w, todo) ==
    \/ w = "register" /\ todo = <<"taken", "insert", "mail">> \o Session
    \/ w \in {"login", "google"} /\ todo = <<"save">> \o Session
    \/ w = "google" /\ todo \in {<<"find">>, <<"merge">>, <<"insert">> \o Session}
    \/ w = "link" /\ todo = <<"owners", "save">> \o Session
    \/ w = "refresh" /\ todo = <<"validate", "drop">> \o Session
    \/ w = "logout" /\ todo \in {<<"drop", "answer">>, <<"revoke", "answer">>}
    \/ w \in {"resend", "forgot"} /\ todo = <<"mail", "answer">>
    \/ w \in {"reset", "confirm"} /\ todo = <<"read", "save", "burn", "answer">>
    \/ w = "confirmChange" /\ todo = <<"read", "save", "revoke", "burn", "answer">>
    \/ w = "askChange" /\ todo = <<"taken", "mail", "answer">>
    \/ w = "change" /\ todo = <<"taken", "save", "revoke", "answer">>
    \/ w \in {"edit", "adminUpdate"} /\ todo = <<"save", "answer">>
    \/ w = "delete" /\ todo = <<"delete", "answer">>
    \/ w = "adminCreate" /\ todo = <<"taken", "insert", "answer">>

LEMMA PathsBegin ==
  ASSUME NEW q, NEW todo, Way(q.what, todo), q.todo = todo
  PROVE  OnPath(q)
<1>1. CASE q.what = "register" /\ todo = <<"taken", "insert", "mail">> \o Session
  <2> DEFINE p == <<"taken", "insert", "mail">>
  <2>1. p \in Seq(Steps) /\ p # <<>> /\ p[1] \in StepsOf(q.what)
    BY <1>1 DEF StepsOf, Steps
  <2>2. /\ \A i \in 1..Len(p) : p[i] \notin Ends
        /\ \A i \in 1..(Len(p) - 1) : p[i + 1] = Then(q.what, p[i])
        /\ Then(q.what, p[Len(p)]) = "purge"
    BY <1>1 DEF Then, Ends
  <2> HIDE DEF p
  <2>3. QED
    BY <1>1, <2>1, <2>2, PathToSession DEF p
<1>2. CASE q.what \in {"login", "google"} /\ todo = <<"save">> \o Session
  <2> DEFINE p == <<"save">>
  <2>1. p \in Seq(Steps) /\ p # <<>> /\ p[1] \in StepsOf(q.what)
    BY <1>2 DEF StepsOf, Steps
  <2>2. /\ \A i \in 1..Len(p) : p[i] \notin Ends
        /\ \A i \in 1..(Len(p) - 1) : p[i + 1] = Then(q.what, p[i])
        /\ Then(q.what, p[Len(p)]) = "purge"
    BY <1>2 DEF Then, Ends
  <2> HIDE DEF p
  <2>3. QED
    BY <1>2, <2>1, <2>2, PathToSession DEF p
<1>3. CASE q.what = "google" /\ todo \in {<<"find">>, <<"merge">>}
  <2>1. CASE todo = <<"find">>
    BY <1>3, <2>1 DEF OnPath, StepsOf, Ends, Steps
  <2>2. CASE todo = <<"merge">>
    BY <1>3, <2>2 DEF OnPath, StepsOf, Ends, Steps
  <2>3. QED
    BY <1>3, <2>1, <2>2
<1>4. CASE q.what = "link" /\ todo = <<"owners", "save">> \o Session
  <2> DEFINE p == <<"owners", "save">>
  <2>1. p \in Seq(Steps) /\ p # <<>> /\ p[1] \in StepsOf(q.what)
    BY <1>4 DEF StepsOf, Steps
  <2>2. /\ \A i \in 1..Len(p) : p[i] \notin Ends
        /\ \A i \in 1..(Len(p) - 1) : p[i + 1] = Then(q.what, p[i])
        /\ Then(q.what, p[Len(p)]) = "purge"
    BY <1>4 DEF Then, Ends
  <2> HIDE DEF p
  <2>3. QED
    BY <1>4, <2>1, <2>2, PathToSession DEF p
<1>5. CASE q.what = "refresh" /\ todo = <<"validate", "drop">> \o Session
  <2> DEFINE p == <<"validate", "drop">>
  <2>1. p \in Seq(Steps) /\ p # <<>> /\ p[1] \in StepsOf(q.what)
    BY <1>5 DEF StepsOf, Steps
  <2>2. /\ \A i \in 1..Len(p) : p[i] \notin Ends
        /\ \A i \in 1..(Len(p) - 1) : p[i + 1] = Then(q.what, p[i])
        /\ Then(q.what, p[Len(p)]) = "purge"
    BY <1>5 DEF Then, Ends
  <2> HIDE DEF p
  <2>3. QED
    BY <1>5, <2>1, <2>2, PathToSession DEF p
<1>6. CASE q.what = "logout" /\ todo \in {<<"drop", "answer">>, <<"revoke", "answer">>}
  <2>1. CASE todo = <<"drop", "answer">>
    BY <1>6, <2>1 DEF OnPath, StepsOf, Then, Ends, Signing, Steps
  <2>2. CASE todo = <<"revoke", "answer">>
    BY <1>6, <2>2 DEF OnPath, StepsOf, Then, Ends, Signing, Steps
  <2>3. QED
    BY <1>6, <2>1, <2>2
<1>7. CASE q.what \in {"resend", "forgot"} /\ todo = <<"mail", "answer">>
  BY <1>7 DEF OnPath, StepsOf, Then, Ends, Signing, Steps
<1>8. CASE q.what \in {"reset", "confirm"} /\ todo = <<"read", "save", "burn", "answer">>
  BY <1>8 DEF OnPath, StepsOf, Then, Ends, Signing, Steps
<1>9. CASE q.what = "confirmChange" /\ todo = <<"read", "save", "revoke", "burn", "answer">>
  BY <1>9 DEF OnPath, StepsOf, Then, Ends, Signing, Steps
<1>10. CASE q.what = "askChange" /\ todo = <<"taken", "mail", "answer">>
  BY <1>10 DEF OnPath, StepsOf, Then, Ends, Signing, Steps
<1>11. CASE q.what = "change" /\ todo = <<"taken", "save", "revoke", "answer">>
  BY <1>11 DEF OnPath, StepsOf, Then, Ends, Signing, Steps
<1>12. CASE q.what \in {"edit", "adminUpdate"} /\ todo = <<"save", "answer">>
  BY <1>12 DEF OnPath, StepsOf, Then, Ends, Signing, Steps
<1>13. CASE q.what = "delete" /\ todo = <<"delete", "answer">>
  BY <1>13 DEF OnPath, StepsOf, Then, Ends, Signing, Steps
<1>14. CASE q.what = "adminCreate" /\ todo = <<"taken", "insert", "answer">>
  BY <1>14 DEF OnPath, StepsOf, Then, Ends, Signing, Steps
<1>15. CASE q.what = "google" /\ todo = <<"insert">> \o Session
  <2> DEFINE p == <<"insert">>
  <2>1. p \in Seq(Steps) /\ p # <<>> /\ p[1] \in StepsOf(q.what)
    BY <1>15 DEF StepsOf, Steps
  <2>2. /\ \A i \in 1..Len(p) : p[i] \notin Ends
        /\ \A i \in 1..(Len(p) - 1) : p[i + 1] = Then(q.what, p[i])
        /\ Then(q.what, p[Len(p)]) = "purge"
    BY <1>15 DEF Then, Ends
  <2> HIDE DEF p
  <2>3. QED
    BY <1>15, <2>1, <2>2, PathToSession DEF p
<1>16. QED
  BY <1>1, <1>2, <1>3, <1>4, <1>5, <1>6, <1>7, <1>8, <1>9, <1>10, <1>11, <1>12, <1>13, <1>14, <1>15 DEF Way

------------------------------------------------------------------------------
(* Types: what happens to the request, then one lemma per kind of step.     *)

\* The request goes on with these columns.
Onward(q, i, row, n) == [q EXCEPT !.todo = Tail(@), !.id = i, !.row = row, !.new = n]

LEMMA BusyRequest ==
  ASSUME RequestsOK, NEW r \in Reqs, req[r] # Idle
  PROVE  /\ req[r] \in Busy /\ OnPath(req[r]) /\ Has(req[r]) /\ Bounded(req[r], nextToken, nextMail)
         /\ Head(req[r].todo) \in StepsOf(req[r].what)
BY DEF RequestsOK, OnPath

LEMMA OnPathBusy ==
  ASSUME NEW q, OnPath(q)
  PROVE  q # Idle
BY DEF OnPath, Idle

LEMMA OnwardFacts ==
  ASSUME NEW q \in Busy, OnPath(q), Head(q.todo) \notin Ends,
         NEW i \in Id \cup {0}, NEW row \in User \cup {NoUser}, NEW n \in 0..MaxTokens
  PROVE  LET x == Onward(q, i, row, n) IN
         /\ x \in Busy /\ OnPath(x) /\ x # Idle
         /\ Head(x.todo) = Then(q.what, Head(q.todo))
         /\ x.todo = Tail(q.todo) /\ x.what = q.what /\ x.by = q.by /\ x.tab = q.tab /\ x.id = i
         /\ x.row = row /\ x.email = q.email /\ x.shown = q.shown /\ x.new = n /\ x.key = q.key
<1> DEFINE x == Onward(q, i, row, n)
<1>1. /\ x.todo = Tail(q.todo) /\ x.what = q.what /\ x.by = q.by /\ x.tab = q.tab /\ x.id = i
      /\ x.row = row /\ x.email = q.email /\ x.shown = q.shown /\ x.new = n /\ x.key = q.key
  BY DEF Onward, Busy
<1>2. q.what \in Whats
  BY DEF Busy
<1>3. OnPath(x) /\ Head(x.todo) = Then(q.what, Head(q.todo))
  <2> HIDE DEF x
  <2>1. QED
    BY <1>1, <1>2, TailPath
<1>4. Tail(q.todo) \in Seq(Steps)
  BY <1>1, <1>3 DEF OnPath
<1>5. x \in Busy
  BY <1>4 DEF Onward, Busy
<1>6. x # Idle
  BY <1>3, OnPathBusy
<1>7. QED
  BY <1>1, <1>3, <1>5, <1>6

LEMMA GoIsOnward ==
  ASSUME RequestsOK, NEW r \in Reqs, req[r] # Idle, Go(r)
  PROVE  /\ req' = [req EXCEPT ![r] = Onward(req[r], req[r].id, req[r].row, req[r].new)]
         /\ answer' = answer
<1>1. req[r] \in Busy
  BY BusyRequest
<1>2. [req[r] EXCEPT !.todo = Tail(@)] = Onward(req[r], req[r].id, req[r].row, req[r].new)
  BY <1>1 DEF Onward, Busy
<1>3. req' = [req EXCEPT ![r] = [req[r] EXCEPT !.todo = Tail(@)]] /\ answer' = answer
  BY DEF Go, RequestsOK
<1>4. QED
  BY <1>2, <1>3

\* The counters of what was made only grow.
LEMMA LaterBounds ==
  ASSUME RowsOK, NEW q \in Busy, Bounded(q, nextToken, nextMail), nextToken' \in Nat, nextMail' \in Nat,
         nextToken' >= nextToken, nextMail' >= nextMail
  PROVE  Bounded(q, nextToken', nextMail')
<1>1. q.shown \in Nat /\ q.new \in Nat /\ (q.key # NoUser => q.key.id \in Nat)
  BY DEF Busy, Mail
<1>2. nextToken \in Nat /\ nextMail \in Nat
  BY DEF RowsOK
<1>3. QED
  BY <1>1, <1>2 DEF Bounded

LEMMA RequestExcept ==
  ASSUME RowsOK, RequestsOK, NEW r \in Reqs, NEW x \in {Idle} \cup Busy,
         x # Idle => OnPath(x) /\ Has(x) /\ Bounded(x, nextToken', nextMail'),
         req' = [req EXCEPT ![r] = x], answer' \in [Reqs -> {"none", "ok", "failed"}], requests' \in Nat,
         nextToken' \in Nat, nextMail' \in Nat, nextToken' >= nextToken, nextMail' >= nextMail
  PROVE  RequestsOK'
<1>1. req' \in [Reqs -> {Idle} \cup Busy]
  BY DEF RequestsOK
<1>2. ASSUME NEW s \in Reqs, req'[s] # Idle
      PROVE  OnPath(req'[s]) /\ Has(req'[s]) /\ Bounded(req'[s], nextToken', nextMail')
  <2>1. CASE s = r
    BY <1>2, <2>1 DEF RequestsOK
  <2>2. CASE s # r
    <3>1. req'[s] = req[s]
      BY <2>2 DEF RequestsOK
    <3>2. QED
      BY <1>2, <3>1, BusyRequest, LaterBounds
  <2>3. QED
    BY <2>1, <2>2
<1>3. QED
  BY <1>1, <1>2 DEF RequestsOK

LEMMA RequestEnds ==
  ASSUME RowsOK, RequestsOK, NEW r \in Reqs, NEW how \in {"ok", "failed"}, End(r, how),
         requests' = requests, nextToken' = nextToken, nextMail' = nextMail
  PROVE  RequestsOK'
<1>1. answer' \in [Reqs -> {"none", "ok", "failed"}] /\ requests' \in Nat
  BY DEF End, RequestsOK
<1>2. nextToken' \in Nat /\ nextMail' \in Nat /\ nextToken' >= nextToken /\ nextMail' >= nextMail
  BY DEF RowsOK
<1>3. QED
  BY <1>1, <1>2, RequestExcept DEF End

\* A request that goes on, with what it must have at the next step.
LEMMA RequestOnward ==
  ASSUME RowsOK, RequestsOK, NEW r \in Reqs, req[r] # Idle, Head(req[r].todo) \notin Ends,
         NEW i \in Id \cup {0}, NEW row \in User \cup {NoUser}, NEW n \in 0..MaxTokens,
         req' = [req EXCEPT ![r] = Onward(req[r], i, row, n)], answer' = answer, requests' = requests,
         nextToken' \in Nat, nextMail' \in Nat, nextToken' >= nextToken, nextMail' >= nextMail,
         n < nextToken',
         LET step == Then(req[r].what, Head(req[r].todo)) IN
            /\ step \notin {"read", "validate", "find"} => row \in User
            /\ step \notin {"read", "validate", "find", "merge"} =>
                 \/ i \in Id
                 \/ step \in {"taken", "insert"} /\ req[r].what \in {"register", "adminCreate", "google"}
  PROVE  RequestsOK'
<1> DEFINE q == req[r]
           x == Onward(q, i, row, n)
<1>1. q \in Busy /\ OnPath(q) /\ Has(q) /\ Bounded(q, nextToken, nextMail)
  BY BusyRequest
<1>2. /\ x \in Busy /\ OnPath(x) /\ x # Idle
      /\ Head(x.todo) = Then(q.what, Head(q.todo))
      /\ x.what = q.what /\ x.id = i /\ x.row = row /\ x.shown = q.shown /\ x.new = n /\ x.key = q.key
  BY <1>1, OnwardFacts
<1> HIDE DEF x
<1>3. Has(x)
  BY <1>1, <1>2 DEF Has
<1>4. Bounded(x, nextToken', nextMail')
  <2>1. Bounded(q, nextToken', nextMail')
    BY <1>1, LaterBounds
  <2>2. QED
    BY <1>2, <2>1 DEF Bounded
<1>5. req' = [req EXCEPT ![r] = x]
  BY DEF x
<1>6. answer' \in [Reqs -> {"none", "ok", "failed"}] /\ requests' \in Nat
  BY DEF RequestsOK
<1>7. QED
  BY <1>2, <1>3, <1>4, <1>5, <1>6, RequestExcept

\* The common case: only the place changes.
LEMMA RequestGoes ==
  ASSUME RowsOK, RequestsOK, NEW r \in Reqs, req[r] # Idle,
         Head(req[r].todo) \notin Ends \cup {"insert", "read", "validate"},
         Go(r), requests' = requests,
         nextToken' \in Nat, nextMail' \in Nat, nextToken' >= nextToken, nextMail' >= nextMail
  PROVE  RequestsOK'
<1> DEFINE q == req[r]
           step == Head(q.todo)
<1>1. q \in Busy /\ OnPath(q) /\ Has(q) /\ Bounded(q, nextToken, nextMail) /\ step \in StepsOf(q.what)
  BY BusyRequest
<1>2. q.id \in Id \cup {0} /\ q.row \in User \cup {NoUser} /\ q.new \in 0..MaxTokens /\ q.what \in Whats
  BY <1>1 DEF Busy
<1>3. q.new < nextToken'
  <2>1. q.new < nextToken /\ nextToken \in Nat /\ q.new \in Nat
    BY <1>1, <1>2 DEF Bounded, RowsOK
  <2>2. QED
    BY <2>1
<1>4. q.row \in User /\ (q.id \in Id \/ (step = "taken" /\ q.what \in {"register", "adminCreate", "google"}))
  BY <1>1 DEF Has, Ends
<1>5. Then(q.what, step) \notin {"read", "validate", "find", "merge"}
      /\ (step = "taken" /\ q.what \in {"register", "adminCreate", "google"} => Then(q.what, step) = "insert")
  BY <1>1, <1>2 DEF Then, StepsOf, Whats, Ends, Signing
<1>6. req' = [req EXCEPT ![r] = Onward(q, q.id, q.row, q.new)] /\ answer' = answer
  BY GoIsOnward
<1>7. QED
  BY <1>2, <1>3, <1>4, <1>5, <1>6, RequestOnward

------------------------------------------------------------------------------
(* Every request begins well.                                               *)

Begun(q) ==
    /\ OnPath(q) /\ Has(q) /\ Bounded(q, nextToken, nextMail) /\ Gone(q, tokens) /\ q.tab = NoTab
    /\ q.what \in {"reset", "confirm", "confirmChange"} => q.key \in Mails
    /\ mode = "google" => q.what = "google" /\ Head(q.todo) = "find"

Asked(what, b, u, row, todo, m, key) ==
    [what |-> what, todo |-> todo, by |-> b, tab |-> NoTab, id |-> u, row |-> row, email |-> m,
     shown |-> IF b = "nobody" THEN 0 ELSE jar[b].refresh, new |-> 0, key |-> key]

LEMMA HeadOfWay ==
  ASSUME NEW p \in Seq(Steps), p # <<>>
  PROVE  p \o Session \in Seq(Steps) /\ Head(p \o Session) = p[1]
<1>1. Session \in Seq(Steps) /\ Len(Session) = 3
  BY DEF Session, Steps
<1>2. Len(p) \in Nat /\ Len(p) > 0
  OBVIOUS
<1>3. /\ p \o Session \in Seq(Steps)
      /\ Len(p \o Session) = Len(p) + 3
      /\ (p \o Session)[1] = p[1]
  <2>1. /\ p \o Session \in Seq(Steps)
        /\ Len(p \o Session) = Len(p) + Len(Session)
        /\ \A i \in 1..(Len(p) + Len(Session)) :
             (p \o Session)[i] = IF i <= Len(p) THEN p[i] ELSE Session[i - Len(p)]
    BY <1>1, ConcatProperties
  <2>2. 1 \in 1..(Len(p) + Len(Session)) /\ 1 <= Len(p)
    BY <1>1, <1>2
  <2>3. QED
    BY <1>1, <2>1, <2>2
<1>4. QED
  BY <1>2, <1>3

LEMMA AskedFacts ==
  ASSUME RowsOK, NEW what \in Whats, NEW b \in Browsers \cup {"nobody"}, NEW u \in Id \cup {0},
         NEW row \in User \cup {NoUser}, NEW todo \in Seq(Steps), NEW m \in Emails, NEW key \in Mail \cup {NoUser}
  PROVE  LET q == Asked(what, b, u, row, todo, m, key) IN
         /\ q \in Busy /\ q.what = what /\ q.todo = todo /\ q.id = u /\ q.row = row /\ q.key = key
         /\ q.tab = NoTab /\ q.shown < nextToken /\ q.new = 0 /\ q.new < nextToken
<1> DEFINE q == Asked(what, b, u, row, todo, m, key)
<1>1. GoogleEmail \in Emails /\ MaxTokens \in Nat
  BY AccountsAssumption
<1>2. nextToken \in Nat /\ nextToken >= 1 /\ nextToken <= MaxTokens + 1
  BY <1>1 DEF RowsOK
<1>3. /\ (IF b = "nobody" THEN 0 ELSE jar[b].refresh) \in 0..MaxTokens
      /\ (IF b = "nobody" THEN 0 ELSE jar[b].refresh) < nextToken
  <2>1. CASE b = "nobody"
    BY <1>1, <1>2, <2>1
  <2>2. CASE b # "nobody"
    <3>1. jar[b] \in Cookies /\ jar[b].refresh < nextToken
      BY <2>2 DEF RowsOK
    <3>2. QED
      BY <2>2, <3>1 DEF Cookies
  <2>3. QED
    BY <2>1, <2>2
<1>4. /\ q.what = what /\ q.todo = todo /\ q.id = u /\ q.row = row /\ q.key = key
      /\ q.tab = NoTab /\ q.new = 0 /\ q.shown = IF b = "nobody" THEN 0 ELSE jar[b].refresh
  BY DEF Asked
<1>5. q \in Busy
  <2> DEFINE s == IF b = "nobody" THEN 0 ELSE jar[b].refresh
  <2>1. q = [what |-> what, todo |-> todo, by |-> b, tab |-> NoTab, id |-> u, row |-> row, email |-> m,
             shown |-> s, new |-> 0, key |-> key]
    BY DEF Asked
  <2>2. s \in 0..MaxTokens /\ 0 \in 0..MaxTokens
    BY <1>1, <1>3
  <2> HIDE DEF q, s
  <2>3. QED
    BY <2>1, <2>2 DEF Busy
<1>6. QED
  BY <1>2, <1>3, <1>4, <1>5

LEMMA AskedBegins ==
  ASSUME RowsOK, NEW what \in Whats, NEW b \in Browsers \cup {"nobody"}, NEW u \in Id \cup {0},
         NEW row \in User, NEW todo \in Seq(Steps), NEW m \in Emails,
         OnPath(Asked(what, b, u, row, todo, m, NoUser)),
         u \in Id \/ (Head(todo) \in {"taken", "insert"} /\ what \in {"register", "adminCreate"}),
         Head(todo) \notin {"answer", "purge", "issue"},
         what \notin {"reset", "confirm", "confirmChange", "google"}, mode # "google",
         what = "logout" => (IF devices THEN Head(todo) = "drop" ELSE Head(todo) = "revoke")
  PROVE  /\ Asked(what, b, u, row, todo, m, NoUser) \in Busy
         /\ Begun(Asked(what, b, u, row, todo, m, NoUser))
<1> DEFINE q == Asked(what, b, u, row, todo, m, NoUser)
<1>1. /\ q \in Busy /\ q.what = what /\ q.todo = todo /\ q.id = u /\ q.row = row /\ q.key = NoUser
      /\ q.tab = NoTab /\ q.shown < nextToken /\ q.new = 0 /\ q.new < nextToken
  BY AskedFacts
<1>2. OnPath(q)
  OBVIOUS
<1> HIDE DEF q
<1>3. Has(q)
  BY <1>1 DEF Has
<1>4. Bounded(q, nextToken, nextMail)
  BY <1>1 DEF Bounded
<1>5. Gone(q, tokens)
  <2>1. devices \in BOOLEAN
    BY DEF RowsOK
  <2>2. QED
    BY <1>1, <2>1 DEF Gone, Signing
<1>6. Begun(q)
  BY <1>1, <1>2, <1>3, <1>4, <1>5 DEF Begun
<1>7. QED
  BY <1>1, <1>6 DEF q

LEMMA AskedIs ==
  ASSUME NEW what, NEW b, NEW u, NEW row, NEW todo
  PROVE  /\ Request(what, b, u, row, todo) = Asked(what, b, u, row, todo, GoogleEmail, NoUser)
         /\ \A m : [Request(what, b, u, row, todo) EXCEPT !.email = m] = Asked(what, b, u, row, todo, m, NoUser)
         /\ \A key : [Request(what, b, u, row, todo) EXCEPT !.key = key]
                       = Asked(what, b, u, row, todo, GoogleEmail, key)
<1> DEFINE s == IF b = "nobody" THEN 0 ELSE jar[b].refresh
           p == Request(what, b, u, row, todo)
<1>1. p = [what |-> what, todo |-> todo, by |-> b, tab |-> NoTab, id |-> u, row |-> row,
           email |-> GoogleEmail, shown |-> s, new |-> 0, key |-> NoUser]
  BY DEF Request
<1>2. \A e, k : Asked(what, b, u, row, todo, e, k) =
        [what |-> what, todo |-> todo, by |-> b, tab |-> NoTab, id |-> u, row |-> row, email |-> e,
         shown |-> s, new |-> 0, key |-> k]
  BY DEF Asked
<1>3. p = Asked(what, b, u, row, todo, GoogleEmail, NoUser)
  BY <1>1, <1>2
<1> HIDE DEF p, s
<1>4. \A m : [p EXCEPT !.email = m] =
        [what |-> what, todo |-> todo, by |-> b, tab |-> NoTab, id |-> u, row |-> row, email |-> m,
         shown |-> s, new |-> 0, key |-> NoUser]
  BY <1>1
<1>5. \A key : [p EXCEPT !.key = key] =
        [what |-> what, todo |-> todo, by |-> b, tab |-> NoTab, id |-> u, row |-> row,
         email |-> GoogleEmail, shown |-> s, new |-> 0, key |-> key]
  BY <1>1
<1>6. QED
  BY <1>2, <1>3, <1>4, <1>5 DEF p

LEMMA RowsOfIds ==
  ASSUME RowsOK
  PROVE  /\ Ids \subseteq Id /\ \A u \in Ids : users[u] \in User
         /\ \A m : ByEmail(m) \subseteq Ids
         /\ \A b : Known(b) \subseteq Ids
         /\ Linked \subseteq Ids
BY DEF RowsOK, Ids, ByEmail, Known, Linked

\* A request without a mail's token, by its way and its first step.
LEMMA PlainBegins ==
  ASSUME RowsOK, NEW r \in Reqs, mode # "google",
         NEW what \in Whats, NEW b \in Browsers \cup {"nobody"}, NEW u \in Id \cup {0},
         NEW row \in User, NEW todo \in Seq(Steps), NEW m \in Emails, NEW step,
         Way(what, todo), step = Head(todo),
         u \in Id \/ (step \in {"taken", "insert"} /\ what \in {"register", "adminCreate"}),
         step \notin {"answer", "purge", "issue"},
         what \notin {"reset", "confirm", "confirmChange", "google"},
         what = "logout" => (IF devices THEN step = "drop" ELSE step = "revoke"),
         Accept(r, Asked(what, b, u, row, todo, m, NoUser))
  PROVE  \E q \in Busy : Begun(q) /\ Accept(r, q)
<1> DEFINE q == Asked(what, b, u, row, todo, m, NoUser)
<1>1. q.what = what /\ q.todo = todo
  BY AskedFacts
<1>2. OnPath(q)
  <2> HIDE DEF q
  <2>1. QED
    BY <1>1, PathsBegin
<1>3. q \in Busy /\ Begun(q)
  BY <1>2, AskedBegins
<1>4. QED
  BY <1>3

LEMMA RegisterBegins ==
  ASSUME RowsOK, NEW r \in Reqs, NEW b \in Browsers, NEW m \in Emails, mode # "google", Register(r, b, m)
  PROVE  \E q \in Busy : Begun(q) /\ Accept(r, q)
<1> DEFINE way == <<"taken", "insert", "mail">>
           todo == way \o Session
           row == [email |-> m, pass |-> TRUE, verified |-> selfHosted, locked |-> FALSE, enabled |-> TRUE,
                   linked |-> FALSE, made |-> "LOCAL", admin |-> selfHosted]
<1>1. Accept(r, Asked("register", b, 0, row, todo, m, NoUser))
  <2>1. Asked("register", b, 0, row, todo, m, NoUser)
          = [Request("register", b, 0, row, todo) EXCEPT !.email = m]
    <3> HIDE DEF row, todo
    <3>1. QED
      BY AskedIs
  <2>2. QED
    BY <2>1 DEF Register
<1>2. row \in User
  BY DEF User, RowsOK
<1>3. todo \in Seq(Steps) /\ Head(todo) = "taken"
  <2>1. way \in Seq(Steps) /\ way # <<>> /\ way[1] = "taken"
    BY DEF Steps
  <2> HIDE DEF way
  <2>2. QED
    BY <2>1, HeadOfWay
<1>4. Way("register", todo)
  BY DEF Way
<1> HIDE DEF todo, row
<1>5. QED
  BY <1>1, <1>2, <1>3, <1>4, PlainBegins DEF Whats

LEMMA LoginBegins ==
  ASSUME RowsOK, NEW r \in Reqs, NEW b \in Browsers, NEW u \in Id, mode # "google", Login(r, b, u)
  PROVE  \E q \in Busy : Begun(q) /\ Accept(r, q)
<1> DEFINE way == <<"save">>
           todo == way \o Session
<1>1. users[u] \in User /\ Accept(r, Request("login", b, u, users[u], todo))
  BY RowsOfIds DEF Login
<1>2. todo \in Seq(Steps) /\ Head(todo) = "save"
  <2>1. way \in Seq(Steps) /\ way # <<>> /\ way[1] = "save"
    BY DEF Steps
  <2> HIDE DEF way
  <2>2. QED
    BY <2>1, HeadOfWay
<1>3. Way("login", todo)
  BY DEF Way
<1> HIDE DEF todo
<1>4. Accept(r, Asked("login", b, u, users[u], todo, GoogleEmail, NoUser))
  BY <1>1, AskedIs
<1>5. QED
  BY <1>1, <1>2, <1>3, <1>4, PlainBegins, AccountsAssumption DEF Whats

LEMMA LinkBegins ==
  ASSUME RowsOK, NEW r \in Reqs, NEW b \in Browsers, mode # "google", Link(r, b)
  PROVE  \E q \in Busy : Begun(q) /\ Accept(r, q)
<1> DEFINE way == <<"owners", "save">>
           todo == way \o Session
           row(u) == [users[u] EXCEPT !.linked = TRUE, !.verified = @ \/ users[u].email = GoogleEmail]
<1>1. PICK u \in Known(b) : Accept(r, Request("link", b, u, row(u), todo))
  BY DEF Link
<1>2. u \in Id /\ users[u] \in User
  BY RowsOfIds
<1>3. row(u) \in User
  BY <1>2 DEF User
<1>4. todo \in Seq(Steps) /\ Head(todo) = "owners"
  <2>1. way \in Seq(Steps) /\ way # <<>> /\ way[1] = "owners"
    BY DEF Steps
  <2> HIDE DEF way
  <2>2. QED
    BY <2>1, HeadOfWay
<1>5. Way("link", todo)
  BY DEF Way
<1> HIDE DEF todo, row
<1>6. Accept(r, Asked("link", b, u, row(u), todo, GoogleEmail, NoUser))
  BY <1>1, AskedIs
<1>7. QED
  BY <1>2, <1>3, <1>4, <1>5, <1>6, PlainBegins, AccountsAssumption DEF Whats

LEMMA LogoutBegins ==
  ASSUME RowsOK, NEW r \in Reqs, NEW b \in Browsers, mode # "google", Logout(r, b)
  PROVE  \E q \in Busy : Begun(q) /\ Accept(r, q)
<1> DEFINE todo == IF devices THEN <<"drop", "answer">> ELSE <<"revoke", "answer">>
<1>1. PICK u \in Known(b) : Accept(r, Request("logout", b, u, users[u], todo))
  BY DEF Logout
<1>2. u \in Id /\ users[u] \in User
  BY RowsOfIds
<1>3. todo \in Seq(Steps) /\ IF devices THEN Head(todo) = "drop" ELSE Head(todo) = "revoke"
  <2>1. CASE devices
    BY <2>1 DEF Steps
  <2>2. CASE ~devices
    BY <2>2 DEF Steps
  <2>3. QED
    BY <2>1, <2>2
<1>4. Way("logout", todo)
  BY DEF Way
<1> HIDE DEF todo
<1>5. Accept(r, Asked("logout", b, u, users[u], todo, GoogleEmail, NoUser))
  BY <1>1, AskedIs
<1>6. Head(todo) \notin {"answer", "purge", "issue"}
  BY <1>3
<1>7. QED
  BY <1>2, <1>3, <1>4, <1>5, <1>6, PlainBegins, AccountsAssumption DEF Whats

\* resend, forgot, delete and adminUpdate: one step of their own.
LEMMA ShortBegins ==
  ASSUME RowsOK, NEW r \in Reqs, mode # "google", NEW b \in Browsers \cup {"nobody"}, NEW u \in Id,
         NEW row \in User, NEW what, NEW todo,
         \/ what \in {"resend", "forgot"} /\ todo = <<"mail", "answer">>
         \/ what = "delete" /\ todo = <<"delete", "answer">>
         \/ what \in {"edit", "adminUpdate"} /\ todo = <<"save", "answer">>,
         Accept(r, Request(what, b, u, row, todo))
  PROVE  \E q \in Busy : Begun(q) /\ Accept(r, q)
<1>1. /\ todo \in Seq(Steps) /\ Head(todo) \in {"mail", "delete", "save"}
      /\ what \in Whats /\ what \in {"resend", "forgot", "delete", "edit", "adminUpdate"}
  <2>1. CASE todo = <<"mail", "answer">> /\ what \in {"resend", "forgot"}
    BY <2>1 DEF Steps, Whats
  <2>2. CASE todo = <<"delete", "answer">> /\ what = "delete"
    BY <2>2 DEF Steps, Whats
  <2>3. CASE todo = <<"save", "answer">> /\ what \in {"edit", "adminUpdate"}
    BY <2>3 DEF Steps, Whats
  <2>4. QED
    BY <2>1, <2>2, <2>3
<1>2. Way(what, todo)
  BY DEF Way
<1>3. Accept(r, Asked(what, b, u, row, todo, GoogleEmail, NoUser))
  BY AskedIs
<1>4. Head(todo) \notin {"answer", "purge", "issue"}
  BY <1>1
<1>5. what \notin {"reset", "confirm", "confirmChange", "google", "logout"}
  BY <1>1
<1>6. QED
  BY <1>1, <1>2, <1>3, <1>4, <1>5, PlainBegins, AccountsAssumption

LEMMA ShortRequestsBegin ==
  ASSUME RowsOK, NEW r \in Reqs, mode # "google",
         \/ \E b \in Browsers : Resend(r, b) \/ EditAccount(r, b) \/ DeleteAccount(r, b)
         \/ \E u \in Id : Forgot(r, u) \/ AdminUpdate(r, u) \/ AdminDelete(r, u)
  PROVE  \E q \in Busy : Begun(q) /\ Accept(r, q)
<1>1. ASSUME NEW b \in Browsers, Resend(r, b) \/ DeleteAccount(r, b)
      PROVE  \E q \in Busy : Begun(q) /\ Accept(r, q)
  <2>1. CASE Resend(r, b)
    <3>1. PICK u \in Known(b) : Accept(r, Request("resend", b, u, users[u], <<"mail", "answer">>))
      BY <2>1 DEF Resend
    <3>2. u \in Id /\ users[u] \in User
      BY RowsOfIds
    <3>3. QED
      BY <3>1, <3>2, ShortBegins
  <2>2. CASE DeleteAccount(r, b)
    <3>1. PICK u \in Known(b) : Accept(r, Request("delete", b, u, users[u], <<"delete", "answer">>))
      BY <2>2 DEF DeleteAccount
    <3>2. u \in Id /\ users[u] \in User
      BY RowsOfIds
    <3>3. QED
      BY <3>1, <3>2, ShortBegins
  <2>3. QED
    BY <1>1, <2>1, <2>2
<1>2. ASSUME NEW b \in Browsers, EditAccount(r, b)
      PROVE  \E q \in Busy : Begun(q) /\ Accept(r, q)
  <2>1. PICK u \in Known(b) : \E row \in Edits(users[u]) :
          Accept(r, Request("edit", b, u, row, <<"save", "answer">>))
    BY <1>2 DEF EditAccount
  <2>2. PICK row \in Edits(users[u]) : Accept(r, Request("edit", b, u, row, <<"save", "answer">>))
    BY <2>1
  <2>3. u \in Id /\ users[u] \in User
    BY RowsOfIds
  <2>4. row \in User
    BY <2>3 DEF Edits, User
  <2>5. QED
    BY <2>2, <2>3, <2>4, ShortBegins
<1>3. ASSUME NEW u \in Id, Forgot(r, u)
      PROVE  \E q \in Busy : Begun(q) /\ Accept(r, q)
  <2>1. users[u] \in User /\ Accept(r, Request("forgot", "nobody", u, users[u], <<"mail", "answer">>))
    BY <1>3, RowsOfIds DEF Forgot
  <2>2. QED
    BY <2>1, ShortBegins
<1>4. ASSUME NEW u \in Id, AdminUpdate(r, u)
      PROVE  \E q \in Busy : Begun(q) /\ Accept(r, q)
  <2>1. PICK row \in {[users[u] EXCEPT !.locked = ~@], [users[u] EXCEPT !.enabled = ~@]} :
          Accept(r, Request("adminUpdate", "nobody", u, row, <<"save", "answer">>))
    BY <1>4 DEF AdminUpdate
  <2>2. users[u] \in User
    BY <1>4, RowsOfIds DEF AdminUpdate
  <2>3. row \in User
    BY <2>2 DEF User
  <2>4. QED
    BY <2>1, <2>3, ShortBegins
<1>5. ASSUME NEW u \in Id, AdminDelete(r, u)
      PROVE  \E q \in Busy : Begun(q) /\ Accept(r, q)
  <2>1. users[u] \in User /\ Accept(r, Request("delete", "nobody", u, users[u], <<"delete", "answer">>))
    BY <1>5, RowsOfIds DEF AdminDelete
  <2>2. QED
    BY <2>1, ShortBegins
<1>6. QED
  BY <1>1, <1>2, <1>3, <1>4, <1>5

LEMMA ChangeEmailBegins ==
  ASSUME RowsOK, NEW r \in Reqs, NEW b \in Browsers, NEW m \in Emails, mode # "google", ChangeEmail(r, b, m)
  PROVE  \E q \in Busy : Begun(q) /\ Accept(r, q)
<1> DEFINE ask == <<"taken", "mail", "answer">>
           now == <<"taken", "save", "revoke", "answer">>
           moved(u) == [users[u] EXCEPT !.email = m]
<1>1. PICK u \in Known(b) :
        Accept(r, [(IF selfHosted THEN Request("change", b, u, moved(u), now)
                    ELSE Request("askChange", b, u, users[u], ask)) EXCEPT !.email = m])
  BY DEF ChangeEmail
<1>2. u \in Id /\ users[u] \in User
  BY RowsOfIds
<1>3. moved(u) \in User
  BY <1>2 DEF User
<1>4. /\ ask \in Seq(Steps) /\ Head(ask) = "taken" /\ now \in Seq(Steps) /\ Head(now) = "taken"
      /\ Way("askChange", ask) /\ Way("change", now)
  BY DEF Steps, Way
<1> HIDE DEF ask, now, moved
<1>5. CASE selfHosted
  <2>1. Accept(r, Asked("change", b, u, moved(u), now, m, NoUser))
    BY <1>1, <1>5, AskedIs
  <2>2. QED
    BY <1>2, <1>3, <1>4, <2>1, PlainBegins DEF Whats
<1>6. CASE ~selfHosted
  <2>1. Accept(r, Asked("askChange", b, u, users[u], ask, m, NoUser))
    BY <1>1, <1>6, AskedIs
  <2>2. QED
    BY <1>2, <1>4, <2>1, PlainBegins DEF Whats
<1>7. QED
  BY <1>5, <1>6

LEMMA AdminCreateBegins ==
  ASSUME RowsOK, NEW r \in Reqs, NEW m \in Emails, mode # "google", AdminCreate(r, m)
  PROVE  \E q \in Busy : Begun(q) /\ Accept(r, q)
<1> DEFINE todo == <<"taken", "insert", "answer">>
           row == [email |-> m, pass |-> TRUE, verified |-> FALSE, locked |-> FALSE, enabled |-> TRUE,
                   linked |-> FALSE, made |-> "LOCAL", admin |-> FALSE]
<1>1. Accept(r, [Request("adminCreate", "nobody", 0, row, todo) EXCEPT !.email = m])
  BY DEF AdminCreate
<1>2. row \in User
  BY DEF User
<1>3. todo \in Seq(Steps) /\ Head(todo) = "taken" /\ Way("adminCreate", todo)
  BY DEF Steps, Way
<1> HIDE DEF todo, row
<1>4. Accept(r, Asked("adminCreate", "nobody", 0, row, todo, m, NoUser))
  BY <1>1, AskedIs
<1>5. QED
  BY <1>2, <1>3, <1>4, PlainBegins DEF Whats

LEMMA FollowBegins ==
  ASSUME RowsOK, NEW r \in Reqs, NEW k \in inRedis \cup inMemory, mode # "google", Follow(r, k)
  PROVE  \E q \in Busy : Begun(q) /\ Accept(r, q)
<1> DEFINE what == CASE k.kind = "reset" -> "reset" [] k.kind = "confirm" -> "confirm"
                     [] k.kind = "change" -> "confirmChange"
           todo == IF k.kind = "change" THEN <<"read", "save", "revoke", "burn", "answer">>
                   ELSE <<"read", "save", "burn", "answer">>
           q == Asked(what, "nobody", 0, NoUser, todo, GoogleEmail, k)
<1>1. /\ k \in Mail /\ k.kind \in {"confirm", "reset", "change"} /\ k.id < nextMail
      /\ k \in Mails
  <2>1. k \in Mail /\ k.id < nextMail
    BY DEF RowsOK
  <2>2. QED
    BY <2>1 DEF Mail, Mails, Follow
<1>2. /\ what \in {"reset", "confirm", "confirmChange"} /\ what \in Whats
      /\ todo \in Seq(Steps) /\ Head(todo) = "read" /\ Way(what, todo)
  <2>1. CASE k.kind = "reset"
    BY <2>1 DEF Steps, Whats, Way
  <2>2. CASE k.kind = "confirm"
    BY <2>2 DEF Steps, Whats, Way
  <2>3. CASE k.kind = "change"
    BY <2>3 DEF Steps, Whats, Way
  <2>4. QED
    BY <1>1, <2>1, <2>2, <2>3
<1>3. Accept(r, [Request(what, "nobody", 0, NoUser, todo) EXCEPT !.key = k])
  BY DEF Follow
<1> HIDE DEF what, todo
<1>4. Accept(r, q)
  BY <1>3, AskedIs
<1>5. /\ q \in Busy /\ q.what = what /\ q.todo = todo /\ q.key = k
      /\ q.tab = NoTab /\ q.shown < nextToken /\ q.new < nextToken
  <2>1. "nobody" \in Browsers \cup {"nobody"} /\ 0 \in Id \cup {0} /\ NoUser \in User \cup {NoUser}
        /\ GoogleEmail \in Emails /\ k \in Mail \cup {NoUser} /\ what \in Whats /\ todo \in Seq(Steps)
    BY <1>1, <1>2, AccountsAssumption
  <2>2. q.what = what /\ q.todo = todo /\ q.key = k /\ q.tab = NoTab
    BY DEF Asked
  <2> HIDE DEF q
  <2>3. q \in Busy /\ q.shown < nextToken /\ q.new < nextToken
    BY <2>1, AskedFacts DEF q
  <2>4. QED
    BY <2>2, <2>3
<1> HIDE DEF q
<1>6. OnPath(q)
  BY <1>2, <1>5, PathsBegin
<1>7. Has(q) /\ Bounded(q, nextToken, nextMail) /\ Gone(q, tokens)
  BY <1>1, <1>2, <1>5 DEF Has, Bounded, Gone
<1>8. Begun(q)
  BY <1>1, <1>5, <1>6, <1>7 DEF Begun
<1>9. QED
  BY <1>4, <1>5, <1>8

\* The request of a refresh, of a page or of a call of a tab.
LEMMA RefreshFacts ==
  ASSUME RowsOK, NEW r, NEW b \in Browsers, NEW t \in Tabs \cup {NoTab}
  PROVE  LET q == Refresh(r, b, t) IN
         /\ q \in Busy /\ q.what = "refresh" /\ q.tab = t /\ q.by = b /\ q.shown = jar[b].refresh
         /\ q.key = NoUser /\ q.new = 0 /\ Head(q.todo) = "validate"
         /\ OnPath(q) /\ Has(q) /\ Bounded(q, nextToken, nextMail) /\ Gone(q, tokens)
<1> DEFINE way == <<"validate", "drop">>
           todo == way \o Session
           p == Request("refresh", b, 0, NoUser, todo)
           q == Refresh(r, b, t)
<1>1. todo \in Seq(Steps) /\ Head(todo) = "validate"
  <2>1. way \in Seq(Steps) /\ way # <<>> /\ way[1] = "validate"
    BY DEF Steps
  <2> HIDE DEF way
  <2>2. QED
    BY <2>1, HeadOfWay
<1>2. Way("refresh", todo)
  BY DEF Way
<1>3. q = [p EXCEPT !.tab = t]
  BY DEF Refresh
<1> HIDE DEF todo, q
<1>4. p = Asked("refresh", b, 0, NoUser, todo, GoogleEmail, NoUser)
  BY AskedIs
<1>5. /\ p \in Busy /\ p.what = "refresh" /\ p.todo = todo /\ p.key = NoUser
      /\ p.shown < nextToken /\ p.new = 0 /\ p.new < nextToken
  <2> DEFINE a == Asked("refresh", b, 0, NoUser, todo, GoogleEmail, NoUser)
  <2>1. /\ "refresh" \in Whats /\ b \in Browsers \cup {"nobody"} /\ 0 \in Id \cup {0}
        /\ NoUser \in User \cup {NoUser} /\ GoogleEmail \in Emails /\ NoUser \in Mail \cup {NoUser}
    BY AccountsAssumption DEF Whats
  <2>2. a.what = "refresh" /\ a.todo = todo /\ a.key = NoUser /\ a.new = 0
    BY DEF Asked
  <2> HIDE DEF a
  <2>5. a \in Busy /\ a.shown < nextToken /\ a.new < nextToken
    BY <1>1, <2>1, AskedFacts DEF a
  <2>3. p = a
    BY <1>4 DEF a
  <2> HIDE DEF p
  <2>4. QED
    BY <2>2, <2>3, <2>5
<1>6. p.by = b /\ p.shown = jar[b].refresh
  BY AccountsAssumption DEF Request
<1> HIDE DEF p
<1>7. /\ q \in Busy /\ q.what = "refresh" /\ q.todo = todo /\ q.key = NoUser /\ q.tab = t /\ q.by = b
      /\ q.shown = p.shown /\ q.new = 0
  BY <1>3, <1>5, <1>6 DEF Busy
<1>8. OnPath(q)
  BY <1>2, <1>7, PathsBegin
<1>9. Has(q) /\ Bounded(q, nextToken, nextMail) /\ Gone(q, tokens)
  BY <1>1, <1>5, <1>7 DEF Has, Bounded, Gone, Signing
<1>10. QED
  BY <1>1, <1>6, <1>7, <1>8, <1>9 DEF q

LEMMA GoogleLoginBegins ==
  ASSUME RowsOK, NEW r \in Reqs, NEW b \in Browsers, GoogleLogin(r, b)
  PROVE  \E q \in Busy : Begun(q) /\ Accept(r, q)
<1> DEFINE todo == <<"find">>
           q == Asked("google", b, 0, NoUser, todo, GoogleEmail, NoUser)
<1>1. todo \in Seq(Steps) /\ Head(todo) = "find" /\ Way("google", todo)
  BY DEF Steps, Way
<1>2. Accept(r, Request("google", b, 0, NoUser, todo))
  BY DEF GoogleLogin
<1> HIDE DEF todo
<1>3. Accept(r, q)
  BY <1>2, AskedIs
<1>4. /\ q \in Busy /\ q.what = "google" /\ q.todo = todo /\ q.key = NoUser
      /\ q.tab = NoTab /\ q.shown < nextToken /\ q.new < nextToken
  BY <1>1, AskedFacts, AccountsAssumption DEF Whats
<1> HIDE DEF q
<1>5. OnPath(q)
  BY <1>1, <1>4, PathsBegin
<1>6. Has(q) /\ Bounded(q, nextToken, nextMail) /\ Gone(q, tokens)
  BY <1>1, <1>4 DEF Has, Bounded, Gone
<1>7. Begun(q)
  BY <1>1, <1>4, <1>5, <1>6 DEF Begun
<1>8. QED
  BY <1>3, <1>4, <1>7

LEMMA RefreshBegins ==
  ASSUME RowsOK, NEW r \in Reqs, NEW b \in Browsers, mode # "google", BeginRefresh(r, b)
  PROVE  \E q \in Busy : Begun(q) /\ Accept(r, q)
<1> DEFINE q == Refresh(r, b, NoTab)
<1>1. Accept(r, q)
  BY DEF BeginRefresh, Refresh
<1>2. /\ q \in Busy /\ q.what = "refresh" /\ q.tab = NoTab
      /\ OnPath(q) /\ Has(q) /\ Bounded(q, nextToken, nextMail) /\ Gone(q, tokens)
  BY RefreshFacts
<1> HIDE DEF q
<1>3. QED
  BY <1>1, <1>2 DEF Begun

LEMMA RequestsBegin ==
  ASSUME RowsOK, NEW r \in Reqs, Requests(r)
  PROVE  \E q \in Busy : Begun(q) /\ Accept(r, q)
<1>1. ASSUME mode # "google", Others(r)
      PROVE  \E q \in Busy : Begun(q) /\ Accept(r, q)
  <2>1. ASSUME NEW b \in Browsers, \E m \in Emails : Register(r, b, m) \/ ChangeEmail(r, b, m)
        PROVE  \E q \in Busy : Begun(q) /\ Accept(r, q)
    BY <1>1, <2>1, RegisterBegins, ChangeEmailBegins
  <2>2. ASSUME NEW b \in Browsers, \/ \E u \in Id : Login(r, b, u)
                                   \/ Link(r, b) \/ BeginRefresh(r, b) \/ Logout(r, b)
        PROVE  \E q \in Busy : Begun(q) /\ Accept(r, q)
    BY <1>1, <2>2, LoginBegins, LinkBegins, RefreshBegins, LogoutBegins
  <2>3. ASSUME \/ \E b \in Browsers : Resend(r, b) \/ EditAccount(r, b) \/ DeleteAccount(r, b)
               \/ \E u \in Id : Forgot(r, u) \/ AdminUpdate(r, u) \/ AdminDelete(r, u)
        PROVE  \E q \in Busy : Begun(q) /\ Accept(r, q)
    BY <1>1, <2>3, ShortRequestsBegin
  <2>4. ASSUME NEW k \in inRedis \cup inMemory, Follow(r, k)
        PROVE  \E q \in Busy : Begun(q) /\ Accept(r, q)
    BY <1>1, <2>4, FollowBegins
  <2>5. ASSUME NEW m \in Emails, AdminCreate(r, m)
        PROVE  \E q \in Busy : Begun(q) /\ Accept(r, q)
    BY <1>1, <2>5, AdminCreateBegins
  <2>6. QED
    BY <1>1, <2>1, <2>2, <2>3, <2>4, <2>5 DEF Others
<1>2. QED
  BY <1>1, GoogleLoginBegins DEF Requests

------------------------------------------------------------------------------
(* Types: one lemma per kind of step.                                       *)

RequestsHold == RowsOK /\ RequestsOK /\ UniqueRows

LEMMA RowsStay ==
  ASSUME RowsOK, UniqueRows,
         UNCHANGED <<mode, selfHosted, devices, redis, users, tokens, inRedis, inMemory, jar, nextUser,
                     nextToken, nextMail, faults>>
  PROVE  RowsOK' /\ UniqueRows'
<1>1. RowsOK'
  BY DEF RowsOK
<1>2. UniqueRows'
  BY DEF UniqueRows, Ids, Linked
<1>3. QED
  BY <1>1, <1>2

\* Counters are numbers, and those that stay are as large as before.
LEMMA CountersStay ==
  ASSUME RowsOK
  PROVE  /\ nextToken \in Nat /\ nextMail \in Nat /\ nextUser \in Nat
         /\ nextToken >= nextToken /\ nextMail >= nextMail
BY DEF RowsOK

LEMMA AcceptHolds ==
  ASSUME RequestsHold, NEW r \in Reqs, NEW q \in Busy, Begun(q), Accept(r, q)
  PROVE  RequestsHold'
<1>1. RowsOK' /\ UniqueRows'
  BY RowsStay DEF RequestsHold, Accept, config, rows, store
<1>2. /\ req' = [req EXCEPT ![r] = q] /\ answer' \in [Reqs -> {"none", "ok", "failed"}] /\ requests' \in Nat
      /\ nextToken' = nextToken /\ nextMail' = nextMail
  BY DEF Accept, Put, RequestsHold, RequestsOK, rows, store
<1>3. OnPath(q) /\ Has(q) /\ Bounded(q, nextToken', nextMail')
  BY <1>2 DEF Begun
<1>4. RequestsOK'
  BY <1>2, <1>3, CountersStay, RequestExcept DEF RequestsHold
<1>5. QED
  BY <1>1, <1>4 DEF RequestsHold

LEMMA TakenHolds ==
  ASSUME RequestsHold, NEW r \in Reqs, Taken(r) \/ Owners(r)
  PROVE  RequestsHold'
<1>1. RowsOK' /\ UniqueRows'
  BY RowsStay DEF RequestsHold, Taken, Owners, Same, config, rows, store
<1>2. /\ req[r] # Idle /\ Head(req[r].todo) \in {"taken", "owners"}
      /\ Go(r) \/ End(r, "failed")
      /\ requests' = requests /\ nextToken' = nextToken /\ nextMail' = nextMail
  BY DEF Taken, Owners, At, Same, rows, store
<1>3. RequestsOK'
  <2>1. CASE Go(r)
    <3>1. Head(req[r].todo) \notin Ends \cup {"insert", "read", "validate"}
      BY <1>2 DEF Ends
    <3>2. QED
      BY <1>2, <2>1, <3>1, CountersStay, RequestGoes DEF RequestsHold
  <2>2. CASE End(r, "failed")
    BY <1>2, <2>2, RequestEnds DEF RequestsHold
  <2>3. QED
    BY <1>2, <2>1, <2>2
<1>4. QED
  BY <1>1, <1>3 DEF RequestsHold

LEMMA ReadHolds ==
  ASSUME RequestsHold, NEW r \in Reqs, Read(r)
  PROVE  RequestsHold'
<1> DEFINE q == req[r]
           k == q.key
           found == IF k.kind = "change" THEN ByEmail(k.old) ELSE Ids \cap {k.user}
           changed(u) == CASE k.kind = "reset" -> [users[u] EXCEPT !.pass = TRUE]
                           [] k.kind = "confirm" -> [users[u] EXCEPT !.verified = TRUE]
                           [] k.kind = "change" -> [users[u] EXCEPT !.verified = TRUE, !.email = k.email]
<1>1. RowsOK' /\ UniqueRows'
  BY RowsStay DEF RequestsHold, Read, Same, config, rows, store
<1>2. /\ q # Idle /\ Head(q.todo) = "read"
      /\ requests' = requests /\ nextToken' = nextToken /\ nextMail' = nextMail
  BY DEF Read, At, Same, rows, store
<1>3. /\ q \in Busy /\ OnPath(q) /\ Has(q) /\ Bounded(q, nextToken, nextMail)
      /\ q.what \in {"reset", "confirm", "confirmChange"}
  <2>1. /\ q \in Busy /\ OnPath(q) /\ Has(q) /\ Bounded(q, nextToken, nextMail)
        /\ Head(q.todo) \in StepsOf(q.what) /\ q.what \in Whats
    BY <1>2, BusyRequest DEF RequestsHold, Busy
  <2>2. QED
    BY <1>2, <2>1 DEF StepsOf, Whats, Signing
<1>4. k \in Mail
  BY <1>3 DEF Has
<1>5. RequestsOK'
  <2>1. CASE End(r, "failed")
    BY <1>2, <2>1, RequestEnds DEF RequestsHold
  <2>2. ASSUME NEW u \in found,
               req' = [req EXCEPT ![r].todo = Tail(@), ![r].id = u, ![r].row = changed(u)],
               answer' = answer
        PROVE  RequestsOK'
    <3>1. u \in Id /\ users[u] \in User
      BY RowsOfIds DEF RequestsHold
    <3>2. changed(u) \in User
      <4>1. k.kind \in {"confirm", "reset", "change"} /\ k.email \in Emails
        BY <1>4 DEF Mail
      <4>2. CASE k.kind = "reset"
        BY <3>1, <4>2 DEF User
      <4>3. CASE k.kind = "confirm"
        BY <3>1, <4>3 DEF User
      <4>4. CASE k.kind = "change"
        BY <3>1, <4>1, <4>4 DEF User
      <4>5. QED
        BY <4>1, <4>2, <4>3, <4>4
    <3> HIDE DEF changed
    <3>3. req' = [req EXCEPT ![r] = Onward(q, u, changed(u), q.new)]
      <4>1. [q EXCEPT !.todo = Tail(@), !.id = u, !.row = changed(u)] = Onward(q, u, changed(u), q.new)
        BY <1>3 DEF Onward, Busy
      <4>2. req' = [req EXCEPT ![r] = [q EXCEPT !.todo = Tail(@), !.id = u, !.row = changed(u)]]
        <5>1. req \in [Reqs -> {Idle} \cup Busy]
          BY DEF RequestsHold, RequestsOK
        <5> HIDE DEF q
        <5>2. QED
          BY <1>3, <2>2, <5>1 DEF q
      <4>3. QED
        BY <4>1, <4>2
    <3>4. q.new \in 0..MaxTokens /\ q.new < nextToken' /\ Head(q.todo) \notin Ends
      BY <1>2, <1>3 DEF Bounded, Busy, Ends
    <3>5. Then(q.what, Head(q.todo)) = "save"
      BY <1>2 DEF Then
    <3>6. changed(u) \in User \cup {NoUser} /\ u \in Id \cup {0} /\ answer' = answer
      BY <2>2, <3>1, <3>2
    <3>7. nextToken' \in Nat /\ nextMail' \in Nat /\ nextToken' >= nextToken /\ nextMail' >= nextMail
      BY <1>2, CountersStay DEF RequestsHold
    <3>8. RowsOK /\ RequestsOK
      BY DEF RequestsHold
    <3> HIDE DEF q
    <3>9. QED
      BY <1>2, <3>1, <3>2, <3>3, <3>4, <3>5, <3>6, <3>7, <3>8, RequestOnward DEF q
  <2>3. QED
    BY <2>1, <2>2 DEF Read
<1>6. QED
  BY <1>1, <1>5 DEF RequestsHold

\* A row that the unique columns let in.
LEMMA UserStored ==
  ASSUME RowsOK, UniqueRows, NEW u \in Id, NEW row \in User, NEW v \in Id \cup {0},
         v = u \/ v = 0, Unique(row, v), users' = [users EXCEPT ![u] = row]
  PROVE  /\ UniqueRows' /\ users' \in [Id -> User \cup {NoUser}]
         /\ \A w \in Id : users[w] # NoUser => users'[w] # NoUser
<1>1. users' \in [Id -> User \cup {NoUser}] /\ users'[u] = row
  BY DEF RowsOK
<1>2. row # NoUser
  BY DEF User, NoUser
<1>3. \A w \in Id : w # u => users'[w] = users[w]
  BY DEF RowsOK
<1>4. \A w \in Ids' : w = u \/ w \in Ids
  BY <1>3 DEF Ids
<1>5. \A w \in Ids : w # u => users[w].email # row.email /\ (row.linked => ~users[w].linked)
  <2>1. \A w \in Ids : w # 0 /\ w \in Id
    BY DEF Ids, Id
  <2>2. QED
    BY <2>1 DEF Unique, Free, ByEmail, Linked
<1>6. \A w, x \in Ids' : users'[w].email = users'[x].email => w = x
  BY <1>1, <1>3, <1>4, <1>5 DEF UniqueRows, Ids
<1>7. \A w, x \in Linked' : w = x
  <2>1. \A w \in Linked' : w \in Ids' /\ users'[w].linked
    BY DEF Linked
  <2>2. \A w \in Linked' : w # u => w \in Linked
    BY <1>3, <1>4, <2>1 DEF Linked
  <2>3. QED
    BY <1>1, <1>5, <2>1, <2>2 DEF UniqueRows, Linked
<1>8. QED
  BY <1>1, <1>2, <1>3, <1>6, <1>7 DEF UniqueRows

LEMMA InsertHolds ==
  ASSUME RequestsHold, NEW r \in Reqs, Insert(r)
  PROVE  RequestsHold'
<1> DEFINE q == req[r]
<1>1. /\ q # Idle /\ Head(q.todo) = "insert"
      /\ requests' = requests /\ nextToken' = nextToken /\ nextMail' = nextMail
      /\ UNCHANGED <<mode, selfHosted, devices, redis, tokens, inRedis, inMemory, jar, faults>>
  BY DEF Insert, At, config, rows, store
<1>2. /\ q \in Busy /\ OnPath(q) /\ Has(q) /\ Bounded(q, nextToken, nextMail)
      /\ q.what \in {"register", "adminCreate", "google"} /\ q.row \in User
  <2>1. /\ q \in Busy /\ OnPath(q) /\ Has(q) /\ Bounded(q, nextToken, nextMail)
        /\ Head(q.todo) \in StepsOf(q.what) /\ q.what \in Whats
    BY <1>1, BusyRequest DEF RequestsHold, Busy
  <2>2. q.what \in {"register", "adminCreate", "google"}
    BY <1>1, <2>1 DEF StepsOf, Whats, Signing
  <2>3. q.row \in User
    BY <1>1, <2>1 DEF Has
  <2>4. QED
    BY <2>1, <2>2, <2>3
<1>3. nextToken' \in Nat /\ nextMail' \in Nat /\ nextToken' >= nextToken /\ nextMail' >= nextMail
  BY <1>1, CountersStay DEF RequestsHold
<1>4. ASSUME Unique(q.row, 0) PROVE RequestsHold'
  <2>1. /\ nextUser <= MaxUsers /\ users' = [users EXCEPT ![nextUser] = q.row]
        /\ req' = [req EXCEPT ![r].todo = Tail(@), ![r].id = nextUser]
        /\ nextUser' = nextUser + 1 /\ answer' = answer
    BY <1>4 DEF Insert
  <2>2. nextUser \in Id /\ nextUser' \in 1..(MaxUsers + 1)
    BY <2>1, AccountsAssumption DEF RequestsHold, RowsOK, Id
  <2>3. /\ UniqueRows' /\ users' \in [Id -> User \cup {NoUser}]
        /\ \A w \in Id : users[w] # NoUser => users'[w] # NoUser
    BY <1>2, <1>4, <2>1, <2>2, UserStored DEF RequestsHold
  <2>4. RowsOK'
    BY <1>1, <2>2, <2>3 DEF RequestsHold, RowsOK, Token
  <2>5. req' = [req EXCEPT ![r] = Onward(q, nextUser, q.row, q.new)]
    <3>1. [q EXCEPT !.todo = Tail(@), !.id = nextUser] = Onward(q, nextUser, q.row, q.new)
      BY <1>2 DEF Onward, Busy
    <3>2. req' = [req EXCEPT ![r] = [q EXCEPT !.todo = Tail(@), !.id = nextUser]]
      <4>1. req \in [Reqs -> {Idle} \cup Busy]
        BY DEF RequestsHold, RequestsOK
      <4> HIDE DEF q
      <4>2. QED
        BY <1>2, <2>1, <4>1 DEF q
    <3>3. QED
      BY <3>1, <3>2
  <2>6. q.new \in 0..MaxTokens /\ q.new < nextToken' /\ Head(q.todo) \notin Ends
    BY <1>1, <1>2 DEF Bounded, Busy, Ends
  <2>7. RowsOK /\ RequestsOK /\ nextUser \in Id \cup {0} /\ q.row \in User \cup {NoUser}
    BY <1>2, <2>2 DEF RequestsHold
  <2>8. RequestsOK'
    <3>1. Then(q.what, Head(q.todo)) \in {"mail", "purge", "answer"}
      BY <1>1, <1>2 DEF Then
    <3>2. /\ req[r] # Idle /\ Head(req[r].todo) \notin Ends
          /\ req' = [req EXCEPT ![r] = Onward(req[r], nextUser, req[r].row, req[r].new)]
          /\ answer' = answer /\ requests' = requests
      BY <1>1, <2>1, <2>5, <2>6
    <3>3. LET step == Then(req[r].what, Head(req[r].todo)) IN
          /\ step \notin {"read", "validate", "find"} => req[r].row \in User
          /\ step \notin {"read", "validate", "find", "merge"} =>
               \/ nextUser \in Id
               \/ step \in {"taken", "insert"} /\ req[r].what \in {"register", "adminCreate", "google"}
      BY <1>2, <2>2
    <3> HIDE DEF q
    <3>4. QED
      BY <1>3, <2>6, <2>7, <3>2, <3>3, RequestOnward DEF q
  <2>9. QED
    BY <2>3, <2>4, <2>8 DEF RequestsHold
<1>5. ASSUME ~Unique(q.row, 0) PROVE RequestsHold'
  <2>1. users' = users /\ nextUser' = nextUser
    BY <1>5 DEF Insert
  <2>2. RowsOK' /\ UniqueRows'
    BY <1>1, <2>1, RowsStay DEF RequestsHold
  <2>3. CASE q.what = "google"
    <3> DEFINE x == [q EXCEPT !.todo = <<"merge">>]
    <3>1. req' = [req EXCEPT ![r].todo = <<"merge">>] /\ answer' = answer
      BY <1>5, <2>3 DEF Insert
    <3>2. req' = [req EXCEPT ![r] = x]
      BY <3>1
    <3>3. /\ x \in Busy /\ x.what = "google" /\ x.todo = <<"merge">> /\ x.row = q.row /\ x.key = q.key
          /\ x.shown = q.shown /\ x.new = q.new
      <4>1. <<"merge">> \in Seq(Steps)
        BY DEF Steps
      <4>2. x \in Busy
        BY <1>2, <4>1 DEF Busy
      <4>3. QED
        BY <1>2, <2>3, <4>2 DEF Busy
    <3> HIDE DEF x
    <3>4. OnPath(x)
      BY <3>3, PathsBegin DEF Way
    <3>5. Has(x) /\ Bounded(x, nextToken', nextMail')
      BY <1>1, <1>2, <3>3 DEF Has, Bounded
    <3>6. answer' \in [Reqs -> {"none", "ok", "failed"}] /\ requests' \in Nat /\ RowsOK /\ RequestsOK
      BY <1>1, <3>1 DEF RequestsHold, RequestsOK
    <3>7. RequestsOK'
      BY <1>3, <3>2, <3>3, <3>4, <3>5, <3>6, RequestExcept
    <3>8. QED
      BY <2>2, <3>7 DEF RequestsHold
  <2>4. CASE q.what # "google"
    <3>1. End(r, "failed")
      BY <1>5, <2>4 DEF Insert
    <3>2. RequestsOK'
      BY <1>1, <3>1, RequestEnds DEF RequestsHold
    <3>3. QED
      BY <2>2, <3>2 DEF RequestsHold
  <2>5. QED
    BY <2>3, <2>4
<1>6. QED
  BY <1>4, <1>5

LEMMA SaveHolds ==
  ASSUME RequestsHold, NEW r \in Reqs, Save(r)
  PROVE  RequestsHold'
<1> DEFINE q == req[r]
<1>1. /\ q # Idle /\ Head(q.todo) = "save"
      /\ requests' = requests /\ nextToken' = nextToken /\ nextMail' = nextMail
      /\ UNCHANGED <<mode, selfHosted, devices, redis, tokens, inRedis, inMemory, jar, nextUser, faults>>
  BY DEF Save, Same, At, config, rows, store
<1>2. q \in Busy /\ Has(q)
  BY <1>1, BusyRequest DEF RequestsHold
<1>3. q.row \in User /\ q.id \in Id
  BY <1>1, <1>2 DEF Has
<1>4. ASSUME Unique(q.row, q.id) PROVE RequestsHold'
  <2>1. users' = [users EXCEPT ![q.id] = q.row] /\ Go(r)
    BY <1>4 DEF Save
  <2>2. /\ UniqueRows' /\ users' \in [Id -> User \cup {NoUser}]
        /\ \A w \in Id : users[w] # NoUser => users'[w] # NoUser
    BY <1>3, <1>4, <2>1, UserStored DEF RequestsHold
  <2>3. RowsOK'
    BY <1>1, <2>2 DEF RequestsHold, RowsOK, Token
  <2>4. Head(q.todo) \notin Ends \cup {"insert", "read", "validate"}
    BY <1>1 DEF Ends
  <2>5. RequestsOK'
    BY <1>1, <2>1, <2>4, CountersStay, RequestGoes DEF RequestsHold
  <2>6. QED
    BY <2>2, <2>3, <2>5 DEF RequestsHold
<1>5. ASSUME ~Unique(q.row, q.id) PROVE RequestsHold'
  <2>1. users' = users /\ End(r, "failed")
    BY <1>5 DEF Save
  <2>2. RowsOK' /\ UniqueRows'
    BY <1>1, <2>1, RowsStay DEF RequestsHold
  <2>3. RequestsOK'
    BY <1>1, <2>1, RequestEnds DEF RequestsHold
  <2>4. QED
    BY <2>2, <2>3 DEF RequestsHold
<1>6. QED
  BY <1>4, <1>5

\* What a Google login looks for exists.
LEMMA OfIds == RowsOK => Of \subseteq Ids
BY RowsOfIds DEF Of

\* The two ways of a Google login from "find" and "merge".
LEMMA GoogleGoes ==
  ASSUME RequestsHold, NEW r \in Reqs, NEW q \in Busy, q = req[r], q.what = "google",
         Bounded(q, nextToken, nextMail),
         NEW todo \in Seq(Steps), NEW i \in Id \cup {0}, NEW row \in User,
         \/ todo = <<"save">> \o Session /\ i \in Id
         \/ todo = <<"insert">> \o Session,
         req' = [req EXCEPT ![r] = [q EXCEPT !.todo = todo, !.id = i, !.row = row]],
         answer' = answer, requests' = requests, nextToken' = nextToken, nextMail' = nextMail
  PROVE  RequestsOK' /\ req'[r] # Idle /\ OnPath(req'[r]) /\ req'[r].todo = todo
         /\ (todo = <<"save">> \o Session => Head(todo) = "save")
         /\ (todo = <<"insert">> \o Session => Head(todo) = "insert")
<1> DEFINE x == [q EXCEPT !.todo = todo, !.id = i, !.row = row]
<1>1. /\ x \in Busy /\ x.what = "google" /\ x.todo = todo /\ x.row = row /\ x.id = i /\ x.key = q.key
      /\ x.shown = q.shown /\ x.new = q.new
  BY DEF Busy
<1> HIDE DEF x
<1>2. Way("google", todo)
  BY DEF Way
<1>3. OnPath(x) /\ x # Idle
  BY <1>1, <1>2, PathsBegin, OnPathBusy
<1>4. /\ todo = <<"save">> \o Session => Head(todo) = "save"
      /\ todo = <<"insert">> \o Session => Head(todo) = "insert"
  <2>1. /\ <<"save">> \in Seq(Steps) /\ <<"save">> # <<>> /\ <<"save">>[1] = "save"
        /\ <<"insert">> \in Seq(Steps) /\ <<"insert">> # <<>> /\ <<"insert">>[1] = "insert"
    BY DEF Steps
  <2>2. Head(<<"save">> \o Session) = "save" /\ Head(<<"insert">> \o Session) = "insert"
    BY <2>1, HeadOfWay
  <2>3. QED
    BY <2>2
<1>5. Has(x)
  BY <1>1, <1>4 DEF Has
<1>6. Bounded(x, nextToken', nextMail')
  BY <1>1 DEF Bounded
<1>7. RequestsOK'
  <2>1. RowsOK /\ RequestsOK /\ answer' \in [Reqs -> {"none", "ok", "failed"}] /\ requests' \in Nat
        /\ req' = [req EXCEPT ![r] = x]
    BY DEF RequestsHold, RequestsOK, x
  <2>2. QED
    BY <1>1, <1>3, <1>5, <1>6, <2>1, CountersStay, RequestExcept
<1>8. req'[r] = x
  BY DEF RequestsHold, RequestsOK, x
<1>9. QED
  BY <1>1, <1>3, <1>4, <1>7, <1>8

LEMMA SaveWay == <<"save">> \o Session \in Seq(Steps) /\ <<"insert">> \o Session \in Seq(Steps)
<1>1. <<"save">> \in Seq(Steps) /\ <<"save">> # <<>> /\ <<"insert">> \in Seq(Steps) /\ <<"insert">> # <<>>
  BY DEF Steps
<1>2. QED
  BY <1>1, HeadOfWay

\* Merging into a user that is found.
LEMMA MergeHolds ==
  ASSUME RequestsHold, NEW r \in Reqs, req[r] # Idle, req[r].what = "google", NEW u \in Ids, Merge(r, u),
         requests' = requests, nextToken' = nextToken, nextMail' = nextMail
  PROVE  RequestsOK'
<1> DEFINE q == req[r]
<1>1. q \in Busy /\ Bounded(q, nextToken, nextMail)
  BY BusyRequest DEF RequestsHold
<1>2. CASE users[u].locked
  BY <1>2, RequestEnds DEF Merge, RequestsHold
<1>3. CASE ~users[u].locked
  <2>1. u \in Id /\ users[u] \in User
    BY RowsOfIds DEF RequestsHold
  <2>2. Merged(users[u]) \in User
    BY <2>1 DEF Merged, User
  <2>3. /\ req' = [req EXCEPT ![r] = [q EXCEPT !.todo = <<"save">> \o Session, !.id = u,
                                               !.row = Merged(users[u])]]
        /\ answer' = answer
    BY <1>3 DEF Merge
  <2> HIDE DEF q
  <2>4. QED
    BY <1>1, <2>1, <2>2, <2>3, SaveWay, GoogleGoes DEF q
<1>4. QED
  BY <1>2, <1>3

LEMMA FindHolds ==
  ASSUME RequestsHold, NEW r \in Reqs, Find(r) \/ FindAgain(r)
  PROVE  RequestsHold'
<1> DEFINE q == req[r]
<1>1. RowsOK' /\ UniqueRows'
  BY RowsStay DEF RequestsHold, Find, FindAgain, Same, config, rows, store
<1>2. /\ q # Idle /\ Head(q.todo) \in {"find", "merge"}
      /\ requests' = requests /\ nextToken' = nextToken /\ nextMail' = nextMail
  BY DEF Find, FindAgain, At, Same, rows, store
<1>3. q \in Busy /\ q.what = "google" /\ Bounded(q, nextToken, nextMail)
  <2>1. q \in Busy /\ Bounded(q, nextToken, nextMail) /\ Head(q.todo) \in StepsOf(q.what) /\ q.what \in Whats
    BY <1>2, BusyRequest DEF RequestsHold, Busy
  <2>2. q.what = "google"
    BY <1>2, <2>1 DEF StepsOf, Whats, Signing
  <2>3. QED
    BY <2>1, <2>2
<1>4. RequestsOK'
  <2>1. ASSUME NEW u \in Of, Merge(r, u) PROVE RequestsOK'
    BY <1>2, <1>3, <2>1, OfIds, MergeHolds DEF RequestsHold
  <2>2. ASSUME req' = [req EXCEPT ![r] = [@ EXCEPT !.todo = <<"insert">> \o Session, !.row = GoogleRow]],
               answer' = answer
        PROVE  RequestsOK'
    <3>1. GoogleRow \in User
      BY AccountsAssumption DEF GoogleRow, User
    <3>2. req' = [req EXCEPT ![r] = [q EXCEPT !.todo = <<"insert">> \o Session, !.id = q.id, !.row = GoogleRow]]
      <4> DEFINE todo == <<"insert">> \o Session
      <4>1. req' = [req EXCEPT ![r] = [q EXCEPT !.todo = todo, !.row = GoogleRow]]
        BY <2>2
      <4> HIDE DEF q, todo
      <4>2. [q EXCEPT !.todo = todo, !.row = GoogleRow] = [q EXCEPT !.todo = todo, !.id = q.id, !.row = GoogleRow]
        BY <1>3 DEF Busy
      <4>3. QED
        BY <4>1, <4>2 DEF todo
    <3>3. q.id \in Id \cup {0}
      BY <1>3 DEF Busy
    <3>4. answer' = answer /\ requests' = requests /\ nextToken' = nextToken /\ nextMail' = nextMail
      BY <1>2, <2>2
    <3> DEFINE todo == <<"insert">> \o Session
    <3>5. todo \in Seq(Steps)
      BY SaveWay
    <3>6. req' = [req EXCEPT ![r] = [q EXCEPT !.todo = todo, !.id = q.id, !.row = GoogleRow]]
      BY <3>2
    <3>7. todo = <<"insert">> \o Session
      OBVIOUS
    <3>8. RequestsHold
      OBVIOUS
    <3> HIDE DEF q, todo
    <3>9. q = req[r]
      BY DEF q
    <3>10. QED
      BY <1>3, <3>1, <3>3, <3>4, <3>5, <3>6, <3>7, <3>8, <3>9, GoogleGoes
  <2>3. CASE End(r, "failed")
    BY <1>2, <2>3, RequestEnds DEF RequestsHold
  <2>4. QED
    BY <2>1, <2>2, <2>3 DEF Find, FindAgain
<1>5. QED
  BY <1>1, <1>4 DEF RequestsHold

LEMMA SendMailHolds ==
  ASSUME RequestsHold, NEW r \in Reqs, SendMail(r)
  PROVE  RequestsHold'
<1> DEFINE q == req[r]
           k == MailKey(q)
<1>1. /\ q # Idle /\ Head(q.todo) = "mail" /\ Go(r) /\ nextMail' = nextMail + 1 /\ nextMail <= MaxMails
      /\ requests' = requests /\ nextToken' = nextToken
      /\ UNCHANGED <<mode, selfHosted, devices, redis, users, tokens, jar, nextUser, faults>>
      /\ inRedis' \subseteq inRedis \cup {k} /\ inMemory' \subseteq inMemory \cup {k}
  BY DEF SendMail, Same, At, config, rows
<1>2. q \in Busy /\ Has(q)
  BY <1>1, BusyRequest DEF RequestsHold
<1>3. q.row \in User /\ q.id \in Id /\ q.email \in Emails
  BY <1>1, <1>2 DEF Has, Busy
<1>4. nextMail \in 1..MaxMails /\ nextMail' \in 1..(MaxMails + 1) /\ nextMail \in Nat
  BY <1>1, AccountsAssumption DEF RequestsHold, RowsOK
<1>5. k \in Mail /\ k.id = nextMail
  <2>1. q.row.email \in Emails
    BY <1>3 DEF User
  <2>2. QED
    BY <1>3, <1>4, <2>1 DEF MailKey, Mail
<1>6. RowsOK'
  <2>1. inRedis' \subseteq Mail /\ inMemory' \subseteq Mail
    BY <1>1, <1>5 DEF RequestsHold, RowsOK
  <2>2. \A l \in inRedis' \cup inMemory' : l.id < nextMail'
    <3>1. ASSUME NEW l \in inRedis' \cup inMemory' PROVE l.id < nextMail'
      <4>1. l = k \/ l \in inRedis \cup inMemory
        BY <1>1
      <4>2. l \in Mail /\ l.id \in Nat
        BY <2>1 DEF Mail
      <4>3. l \in inRedis \cup inMemory => l.id < nextMail
        BY DEF RequestsHold, RowsOK
      <4> HIDE DEF k
      <4>4. QED
        BY <1>1, <1>4, <1>5, <4>1, <4>2, <4>3
    <3>2. QED
      BY <3>1
  <2> HIDE DEF k, q
  <2>3. QED
    BY <1>1, <1>4, <2>1, <2>2 DEF RequestsHold, RowsOK
<1>7. UniqueRows'
  BY <1>1 DEF RequestsHold, UniqueRows, Ids, Linked
<1>8. RequestsOK'
  <2>1. Head(q.todo) \notin Ends \cup {"insert", "read", "validate"}
    BY <1>1 DEF Ends
  <2>2. nextToken' \in Nat /\ nextMail' \in Nat /\ nextToken' >= nextToken /\ nextMail' >= nextMail
    BY <1>1, <1>4, CountersStay DEF RequestsHold
  <2>3. QED
    BY <1>1, <2>1, <2>2, RequestGoes DEF RequestsHold
<1>9. QED
  BY <1>6, <1>7, <1>8 DEF RequestsHold

LEMMA FewerTokensHold ==
  ASSUME RequestsHold, NEW r \in Reqs, Purge(r) \/ Drop(r) \/ Revoke(r)
  PROVE  RequestsHold'
<1>1. /\ req[r] # Idle /\ Head(req[r].todo) \in {"purge", "drop", "revoke"} /\ Go(r)
      /\ tokens' \subseteq tokens
      /\ UNCHANGED <<mode, selfHosted, devices, redis, users, inRedis, inMemory, jar, nextUser,
                     nextToken, nextMail, faults, requests>>
  BY DEF Purge, Drop, Revoke, Same, At, config, store
<1>2. RowsOK'
  BY <1>1 DEF RequestsHold, RowsOK
<1>3. UniqueRows'
  BY <1>1 DEF RequestsHold, UniqueRows, Ids, Linked
<1>4. RequestsOK'
  <2>1. Head(req[r].todo) \notin Ends \cup {"insert", "read", "validate"}
    BY <1>1 DEF Ends
  <2>2. QED
    BY <1>1, <2>1, CountersStay, RequestGoes DEF RequestsHold
<1>5. QED
  BY <1>2, <1>3, <1>4 DEF RequestsHold

LEMMA IssueHolds ==
  ASSUME RequestsHold, NEW r \in Reqs, Issue(r)
  PROVE  RequestsHold'
<1> DEFINE q == req[r]
<1>1. /\ q # Idle /\ Head(q.todo) = "issue" /\ nextToken <= MaxTokens
      /\ UNCHANGED <<mode, selfHosted, devices, redis, users, inRedis, inMemory, jar, nextUser, nextMail,
                     faults, requests>>
  BY DEF Issue, Same, At, config, store
<1>2. q \in Busy /\ OnPath(q) /\ Has(q)
  BY <1>1, BusyRequest DEF RequestsHold
<1>3. q.row \in User /\ q.id \in Id
  BY <1>1, <1>2 DEF Has
<1>4. nextToken \in 1..MaxTokens /\ nextToken \in Nat
  BY <1>1, AccountsAssumption DEF RequestsHold, RowsOK
<1>5. UniqueRows'
  BY <1>1 DEF RequestsHold, UniqueRows, Ids, Linked
<1>6. ASSUME users[q.id] # NoUser PROVE RequestsHold'
  <2> DEFINE token == [id |-> nextToken, user |-> q.id]
  <2>1. /\ tokens' = tokens \cup {token} /\ nextToken' = nextToken + 1
        /\ req' = [req EXCEPT ![r].todo = Tail(@), ![r].new = nextToken] /\ answer' = answer
    BY <1>6 DEF Issue
  <2>2. token \in Token /\ token.id = nextToken /\ token.user = q.id
    BY <1>3, <1>4 DEF Token
  <2>3. nextToken' \in 1..(MaxTokens + 1) /\ nextToken' \in Nat /\ nextToken' >= nextToken
        /\ nextToken < nextToken'
    BY <1>4, <2>1, AccountsAssumption
  <2> HIDE DEF token
  <2>4. \A t \in tokens' : t \in Token /\ users'[t.user] # NoUser /\ t.id < nextToken'
    <3>1. ASSUME NEW t \in tokens'
          PROVE  t \in Token /\ users'[t.user] # NoUser /\ t.id < nextToken'
      <4>1. CASE t = token
        BY <1>1, <1>6, <2>2, <2>3, <4>1
      <4>2. CASE t \in tokens
        <5>1. t \in Token /\ users[t.user] # NoUser /\ t.id < nextToken
          BY <4>2 DEF RequestsHold, RowsOK
        <5>2. t.id \in Nat
          BY <5>1 DEF Token
        <5>3. QED
          BY <1>1, <1>4, <2>1, <5>1, <5>2
      <4>3. QED
        BY <2>1, <4>1, <4>2
    <3>2. QED
      BY <3>1
  <2>5. \A b \in Browsers : jar'[b].refresh < nextToken'
    <3>1. \A b \in Browsers : jar[b].refresh \in Nat /\ jar[b].refresh < nextToken
      BY DEF RequestsHold, RowsOK, Cookies
    <3>2. QED
      BY <1>1, <1>4, <2>1, <3>1
  <2>6. RowsOK'
    BY <1>1, <2>3, <2>4, <2>5 DEF RequestsHold, RowsOK
  <2>7. /\ req[r] # Idle /\ Head(req[r].todo) \notin Ends
        /\ req' = [req EXCEPT ![r] = Onward(req[r], req[r].id, req[r].row, nextToken)]
        /\ answer' = answer /\ requests' = requests
    <3>1. [q EXCEPT !.todo = Tail(@), !.new = nextToken] = Onward(q, q.id, q.row, nextToken)
      BY <1>2 DEF Onward, Busy
    <3>2. req' = [req EXCEPT ![r] = [q EXCEPT !.todo = Tail(@), !.new = nextToken]]
      <4>1. req \in [Reqs -> {Idle} \cup Busy]
        BY DEF RequestsHold, RequestsOK
      <4> HIDE DEF q
      <4>2. QED
        BY <1>2, <2>1, <4>1 DEF q
    <3>3. QED
      BY <1>1, <2>1, <3>1, <3>2 DEF Ends
  <2>8. LET step == Then(req[r].what, Head(req[r].todo)) IN
        /\ step \notin {"read", "validate", "find"} => req[r].row \in User
        /\ step \notin {"read", "validate", "find", "merge"} =>
             \/ req[r].id \in Id
             \/ step \in {"taken", "insert"} /\ req[r].what \in {"register", "adminCreate", "google"}
    BY <1>3
  <2>9. RowsOK /\ RequestsOK /\ nextMail' \in Nat /\ nextMail' >= nextMail
        /\ req[r].id \in Id \cup {0} /\ req[r].row \in User \cup {NoUser} /\ nextToken \in 0..MaxTokens
    BY <1>1, <1>3, <1>4, CountersStay DEF RequestsHold
  <2> HIDE DEF q
  <2>10. RequestsOK'
    BY <2>3, <2>7, <2>8, <2>9, RequestOnward
  <2>11. QED
    BY <1>5, <2>6, <2>10 DEF RequestsHold
<1>7. ASSUME users[q.id] = NoUser PROVE RequestsHold'
  <2>1. End(r, "failed") /\ tokens' = tokens /\ nextToken' = nextToken
    BY <1>7 DEF Issue
  <2>2. RowsOK'
    BY <1>1, <2>1, RowsStay DEF RequestsHold
  <2>3. RequestsOK'
    BY <1>1, <2>1, RequestEnds DEF RequestsHold
  <2>4. QED
    BY <1>5, <2>2, <2>3 DEF RequestsHold
<1>8. QED
  BY <1>6, <1>7

LEMMA ValidateHolds ==
  ASSUME RequestsHold, NEW r \in Reqs, Validate(r)
  PROVE  RequestsHold'
<1> DEFINE q == req[r]
<1>1. RowsOK' /\ UniqueRows'
  BY RowsStay DEF RequestsHold, Validate, Same, config, rows, store
<1>2. /\ q # Idle /\ Head(q.todo) = "validate"
      /\ requests' = requests /\ nextToken' = nextToken /\ nextMail' = nextMail
  BY DEF Validate, At, Same, rows, store
<1>3. q \in Busy /\ Bounded(q, nextToken, nextMail)
  BY <1>2, BusyRequest DEF RequestsHold
<1>4. ASSUME NEW t \in tokens,
             req' = [req EXCEPT ![r].todo = Tail(@), ![r].id = t.user, ![r].row = users[t.user]],
             answer' = answer
      PROVE  RequestsOK'
  <2>1. t.user \in Id /\ users[t.user] \in User
    BY DEF RequestsHold, RowsOK, Token
  <2>2. /\ req[r] # Idle /\ Head(req[r].todo) \notin Ends
        /\ req' = [req EXCEPT ![r] = Onward(req[r], t.user, users[t.user], req[r].new)]
        /\ answer' = answer /\ requests' = requests
    <3>1. [q EXCEPT !.todo = Tail(@), !.id = t.user, !.row = users[t.user]]
            = Onward(q, t.user, users[t.user], q.new)
      BY <1>3 DEF Onward, Busy
    <3>2. req' = [req EXCEPT ![r] = [q EXCEPT !.todo = Tail(@), !.id = t.user, !.row = users[t.user]]]
      <4>1. req \in [Reqs -> {Idle} \cup Busy]
        BY DEF RequestsHold, RequestsOK
      <4> HIDE DEF q
      <4>2. QED
        BY <1>3, <1>4, <4>1 DEF q
    <3>3. QED
      BY <1>2, <1>4, <3>1, <3>2 DEF Ends
  <2>3. LET step == Then(req[r].what, Head(req[r].todo)) IN
        /\ step \notin {"read", "validate", "find"} => users[t.user] \in User
        /\ step \notin {"read", "validate", "find", "merge"} =>
             \/ t.user \in Id
             \/ step \in {"taken", "insert"} /\ req[r].what \in {"register", "adminCreate", "google"}
    BY <2>1
  <2>4. /\ RowsOK /\ RequestsOK /\ nextToken' \in Nat /\ nextMail' \in Nat
        /\ nextToken' >= nextToken /\ nextMail' >= nextMail
        /\ t.user \in Id \cup {0} /\ users[t.user] \in User \cup {NoUser}
        /\ req[r].new \in 0..MaxTokens /\ req[r].new < nextToken'
    BY <1>2, <1>3, <2>1, CountersStay DEF RequestsHold, Busy, Bounded
  <2> HIDE DEF q
  <2>5. QED
    BY <2>2, <2>3, <2>4, RequestOnward
<1>5. RequestsOK'
  <2>1. CASE End(r, "failed")
    BY <1>2, <2>1, RequestEnds DEF RequestsHold
  <2>2. QED
    BY <1>4, <2>1 DEF Validate
<1>6. QED
  BY <1>1, <1>5 DEF RequestsHold

LEMMA DeleteHolds ==
  ASSUME RequestsHold, NEW r \in Reqs, Delete(r)
  PROVE  RequestsHold'
<1> DEFINE q == req[r]
<1>1. /\ q # Idle /\ Head(q.todo) = "delete" /\ Go(r)
      /\ users' = [users EXCEPT ![q.id] = NoUser] /\ tokens' = {t \in tokens : t.user # q.id}
      /\ UNCHANGED <<mode, selfHosted, devices, redis, inRedis, inMemory, jar, nextUser, nextToken,
                     nextMail, faults, requests>>
  BY DEF Delete, Same, At, config, store
<1>2. users' \in [Id -> User \cup {NoUser}] /\ \A u \in Id : users'[u] = users[u] \/ users'[u] = NoUser
  BY <1>1 DEF RequestsHold, RowsOK
<1>3. \A u \in Id : u # q.id => users'[u] = users[u]
  BY <1>1 DEF RequestsHold, RowsOK
<1>4. RowsOK'
  <2>1. \A t \in tokens' : t \in Token /\ users'[t.user] # NoUser /\ t.id < nextToken'
    BY <1>1, <1>3 DEF RequestsHold, RowsOK, Token
  <2>2. QED
    BY <1>1, <1>2, <2>1 DEF RequestsHold, RowsOK
<1>5. UniqueRows'
  <2>1. \A u \in Ids' : u \in Ids /\ users'[u] = users[u]
    BY <1>2 DEF Ids
  <2>2. QED
    BY <2>1 DEF RequestsHold, UniqueRows, Linked
<1>6. RequestsOK'
  <2>1. Head(q.todo) \notin Ends \cup {"insert", "read", "validate"}
    BY <1>1 DEF Ends
  <2>2. QED
    BY <1>1, <2>1, CountersStay, RequestGoes DEF RequestsHold
<1>7. QED
  BY <1>4, <1>5, <1>6 DEF RequestsHold

LEMMA BurnHolds ==
  ASSUME RequestsHold, NEW r \in Reqs, Burn(r)
  PROVE  RequestsHold'
<1>1. /\ req[r] # Idle /\ Head(req[r].todo) = "burn" /\ Go(r)
      /\ inRedis' \subseteq inRedis /\ inMemory' \subseteq inMemory
      /\ UNCHANGED <<mode, selfHosted, devices, redis, users, tokens, jar, nextUser,
                     nextToken, nextMail, faults, requests>>
  BY DEF Burn, Same, At, config, rows
<1>2. RowsOK'
  BY <1>1 DEF RequestsHold, RowsOK
<1>3. UniqueRows'
  BY <1>1 DEF RequestsHold, UniqueRows, Ids, Linked
<1>4. RequestsOK'
  <2>1. Head(req[r].todo) \notin Ends \cup {"insert", "read", "validate"}
    BY <1>1 DEF Ends
  <2>2. QED
    BY <1>1, <2>1, CountersStay, RequestGoes DEF RequestsHold
<1>5. QED
  BY <1>2, <1>3, <1>4 DEF RequestsHold

LEMMA AdvanceHolds ==
  ASSUME RequestsHold, NEW r \in Reqs, Advance(r)
  PROVE  RequestsHold'
BY TakenHolds, ReadHolds, InsertHolds, SaveHolds, FindHolds, SendMailHolds, FewerTokensHold, IssueHolds,
   ValidateHolds, DeleteHolds, BurnHolds DEF Advance

\* The cookies that an answer leaves.
LEMMA AttachedFacts ==
  ASSUME RequestsHold, NEW r \in Reqs, req[r] # Idle, req[r].by \in Browsers, Head(req[r].todo) = "answer"
  PROVE  Attached(req[r]) \in Cookies /\ Attached(req[r]).refresh < nextToken
<1> DEFINE q == req[r]
<1>1. q \in Busy /\ Has(q) /\ Bounded(q, nextToken, nextMail)
  BY BusyRequest DEF RequestsHold
<1>2. q.row \in User
  BY <1>1 DEF Has
<1> DEFINE a == [access |-> q.row.email, refresh |-> q.new]
<1>3. a \in Cookies /\ a.refresh < nextToken
  <2>1. q.row.email \in Emails /\ q.new \in 0..MaxTokens
    BY <1>1, <1>2 DEF Busy, User
  <2>2. a \in Cookies /\ a.refresh = q.new
    BY <2>1 DEF Cookies
  <2>3. QED
    BY <1>1, <2>2 DEF Bounded
<1>4. NoCookie \in Cookies /\ NoCookie.refresh < nextToken
  BY AccountsAssumption DEF NoCookie, Cookies, RequestsHold, RowsOK
<1>5. jar[q.by] \in Cookies /\ jar[q.by].refresh < nextToken
  BY DEF RequestsHold, RowsOK
<1>6. Attached(q) = a \/ Attached(q) = NoCookie \/ Attached(q) = jar[q.by]
  BY DEF Attached
<1>7. QED
  BY <1>3, <1>4, <1>5, <1>6

LEMMA AnswerHolds ==
  ASSUME RequestsHold, NEW r \in Reqs, Answer(r)
  PROVE  RequestsHold'
<1> DEFINE q == req[r]
<1>1. /\ q # Idle /\ Head(q.todo) = "answer" /\ End(r, "ok")
      /\ jar' = IF q.by = "nobody" THEN jar ELSE [jar EXCEPT ![q.by] = Attached(q)]
      /\ UNCHANGED <<mode, selfHosted, devices, redis, users, tokens, inRedis, inMemory, nextUser,
                     nextToken, nextMail, faults, requests>>
  BY DEF Answer, Same, At, config, store
<1>2. jar' \in [Browsers -> Cookies] /\ \A b \in Browsers : jar'[b].refresh < nextToken
  <2>1. jar \in [Browsers -> Cookies] /\ \A b \in Browsers : jar[b].refresh < nextToken
    BY DEF RequestsHold, RowsOK
  <2>2. CASE q.by = "nobody"
    BY <1>1, <2>1, <2>2
  <2>3. CASE q.by # "nobody"
    <3>1. q.by \in Browsers
      BY <1>1, <2>3, BusyRequest DEF RequestsHold, Busy
    <3>2. Attached(q) \in Cookies /\ Attached(q).refresh < nextToken
      BY <1>1, <3>1, AttachedFacts
    <3>3. jar' = [jar EXCEPT ![q.by] = Attached(q)]
      BY <1>1, <2>3
    <3> HIDE DEF q
    <3>4. QED
      BY <2>1, <3>1, <3>2, <3>3
  <2>4. QED
    BY <2>2, <2>3
<1>3. RowsOK'
  BY <1>1, <1>2 DEF RequestsHold, RowsOK
<1>4. UniqueRows'
  BY <1>1 DEF RequestsHold, UniqueRows, Ids, Linked
<1>5. RequestsOK'
  BY <1>1, RequestEnds DEF RequestsHold
<1>6. QED
  BY <1>3, <1>4, <1>5 DEF RequestsHold

LEMMA FailsHolds ==
  ASSUME RequestsHold, NEW r \in Reqs, Fails(r)
  PROVE  RequestsHold'
<1>1. /\ req[r] # Idle /\ faults < MaxFaults /\ faults' = faults + 1
      /\ UNCHANGED <<mode, selfHosted, devices, redis, users, tokens, inRedis, inMemory, jar, nextUser,
                     nextToken, nextMail, requests>>
      /\ \/ Head(req[r].todo) = "mail" /\ Go(r)
         \/ End(r, "failed")
  BY DEF Fails, Faulty, At, config, rows, store
<1>2. faults' \in 0..MaxFaults
  BY <1>1, AccountsAssumption DEF RequestsHold, RowsOK
<1>3. RowsOK'
  BY <1>1, <1>2 DEF RequestsHold, RowsOK
<1>4. UniqueRows'
  BY <1>1 DEF RequestsHold, UniqueRows, Ids, Linked
<1>5. RequestsOK'
  <2>1. CASE Head(req[r].todo) = "mail" /\ Go(r)
    <3>1. Head(req[r].todo) \notin Ends \cup {"insert", "read", "validate"}
      BY <2>1 DEF Ends
    <3>2. QED
      BY <1>1, <2>1, <3>1, CountersStay, RequestGoes DEF RequestsHold
  <2>2. CASE End(r, "failed")
    BY <1>1, <2>2, RequestEnds DEF RequestsHold
  <2>3. QED
    BY <1>1, <2>1, <2>2
<1>6. QED
  BY <1>3, <1>4, <1>5 DEF RequestsHold

LEMMA AroundHolds ==
  ASSUME RequestsHold, Around
  PROVE  RequestsHold'
<1>1. CASE \E r \in Reqs : Fails(r)
  BY <1>1, FailsHolds
<1>2. CASE Restart
  <2>1. /\ faults < MaxFaults /\ faults' = faults + 1
        /\ req' = [r \in Reqs |-> Idle]
        /\ answer' = [r \in Reqs |-> IF req[r] # Idle THEN "failed" ELSE answer[r]]
        /\ inMemory' = {}
        /\ UNCHANGED <<mode, selfHosted, devices, redis, users, tokens, inRedis, jar, nextUser,
                       nextToken, nextMail, requests>>
    BY <1>2 DEF Restart, Faulty, config, rows
  <2>2. faults' \in 0..MaxFaults
    BY <2>1, AccountsAssumption DEF RequestsHold, RowsOK
  <2>3. RowsOK'
    BY <2>1, <2>2 DEF RequestsHold, RowsOK
  <2>4. UniqueRows'
    BY <2>1 DEF RequestsHold, UniqueRows, Ids, Linked
  <2>5. RequestsOK'
    BY <2>1 DEF RequestsHold, RequestsOK
  <2>6. QED
    BY <2>3, <2>4, <2>5 DEF RequestsHold
<1>3. CASE RedisSwitches
  <2>1. /\ faults < MaxFaults /\ faults' = faults + 1 /\ redis' = ~redis
        /\ UNCHANGED <<mode, selfHosted, devices, users, tokens, inRedis, inMemory, jar, nextUser,
                       nextToken, nextMail, requests, req, answer>>
    BY <1>3 DEF RedisSwitches, Faulty, config, rows
  <2>2. faults' \in 0..MaxFaults /\ redis' \in BOOLEAN
    BY <2>1, AccountsAssumption DEF RequestsHold, RowsOK
  <2>3. RowsOK'
    BY <2>1, <2>2 DEF RequestsHold, RowsOK
  <2>4. UniqueRows'
    BY <2>1 DEF RequestsHold, UniqueRows, Ids, Linked
  <2>5. RequestsOK'
    BY <2>1 DEF RequestsHold, RequestsOK
  <2>6. QED
    BY <2>3, <2>4, <2>5 DEF RequestsHold
<1>4. ASSUME NEW t \in tokens, TokenExpires(t) PROVE RequestsHold'
  <2>1. /\ tokens' = tokens \ {t} /\ requests' = requests + 1
        /\ UNCHANGED <<mode, selfHosted, devices, users, redis, inRedis, inMemory, jar, nextUser,
                       nextToken, nextMail, faults, req, answer>>
    BY <1>4 DEF TokenExpires, config, store
  <2>2. RowsOK'
    BY <2>1 DEF RequestsHold, RowsOK
  <2>3. UniqueRows'
    BY <2>1 DEF RequestsHold, UniqueRows, Ids, Linked
  <2>4. RequestsOK'
    BY <2>1 DEF RequestsHold, RequestsOK
  <2>5. QED
    BY <2>2, <2>3, <2>4 DEF RequestsHold
<1>5. ASSUME NEW k \in inRedis \cup inMemory, MailExpires(k) PROVE RequestsHold'
  <2>1. /\ inRedis' \subseteq inRedis /\ inMemory' \subseteq inMemory /\ requests' = requests + 1
        /\ UNCHANGED <<mode, selfHosted, devices, users, tokens, redis, jar, nextUser,
                       nextToken, nextMail, faults, req, answer>>
    BY <1>5 DEF MailExpires, config, rows
  <2>2. RowsOK'
    BY <2>1 DEF RequestsHold, RowsOK
  <2>3. UniqueRows'
    BY <2>1 DEF RequestsHold, UniqueRows, Ids, Linked
  <2>4. RequestsOK'
    BY <2>1 DEF RequestsHold, RequestsOK
  <2>5. QED
    BY <2>2, <2>3, <2>4 DEF RequestsHold
<1>6. QED
  BY <1>1, <1>2, <1>3, <1>4, <1>5 DEF Around

\* Steps of the web application that leave the server alone.
LEMMA WebAlone ==
  ASSUME RequestsHold, Rest, UNCHANGED <<req, answer>>, faults' = faults \/ faults' \in 0..MaxFaults,
         jar' \in [Browsers -> Cookies], \A b \in Browsers : jar'[b].refresh < nextToken
  PROVE  RequestsHold'
<1>1. UNCHANGED <<mode, selfHosted, devices, users, tokens, redis, inRedis, inMemory, nextUser,
                  nextToken, nextMail, requests>>
  BY DEF Rest, config, rows, store
<1>2. RowsOK'
  BY <1>1 DEF RequestsHold, RowsOK
<1>3. UniqueRows'
  BY <1>1 DEF RequestsHold, UniqueRows, Ids, Linked
<1>4. RequestsOK'
  BY <1>1 DEF RequestsHold, RequestsOK
<1>5. QED
  BY <1>2, <1>3, <1>4 DEF RequestsHold

LEMMA JarStays ==
  ASSUME RequestsHold, jar' = jar
  PROVE  jar' \in [Browsers -> Cookies] /\ \A b \in Browsers : jar'[b].refresh < nextToken
BY DEF RequestsHold, RowsOK

LEMMA SendHolds ==
  ASSUME TypesHold, NEW c \in Calls, NEW t \in Tabs, Send(c, t)
  PROVE  TypesHold'
<1>1. RequestsHold'
  BY JarStays, WebAlone DEF TypesHold, RequestsHold, Send
<1>2. jar[Here].access \in Emails \cup {"none", "old"}
  BY SessionsAssumption DEF TypesHold, RowsOK, Cookies
<1>3. WebOK'
  <2>1. [pc |-> "sent", tab |-> t, with |-> jar[Here].access, again |-> FALSE] \in Call
    BY <1>2 DEF Call, Places
  <2>2. calls' \in 0..MaxCalls
    BY SessionsAssumption DEF TypesHold, WebOK, Send
  <2>3. QED
    BY <2>1, <2>2 DEF TypesHold, WebOK, Send
<1>4. QED
  BY <1>1, <1>3 DEF TypesHold, RequestsHold

\* A call that is somewhere is a call.
LEMMA CallFacts ==
  ASSUME WebOK, NEW c \in Calls, call[c].pc # "idle"
  PROVE  call[c] \in Call /\ call[c].tab \in Tabs
BY DEF WebOK, NoCall, Call

LEMMA ServeHolds ==
  ASSUME TypesHold, NEW c \in Calls, Serve(c) \/ Return(c)
  PROVE  TypesHold'
<1>1. RequestsHold'
  BY JarStays, WebAlone DEF TypesHold, RequestsHold, Serve, Return
<1>2. call[c] \in Call
  BY CallFacts DEF TypesHold, Serve, Return
<1>3. call' \in [Calls -> {NoCall} \cup Call]
  <2>1. CASE Serve(c)
    <3>1. PICK pc \in {"served", "refused"} : call' = [call EXCEPT ![c].pc = pc]
      BY <2>1 DEF Serve
    <3>2. [call[c] EXCEPT !.pc = pc] \in Call
      BY <1>2 DEF Call, Places
    <3>3. QED
      BY <3>1, <3>2 DEF TypesHold, WebOK
  <2>2. CASE Return(c)
    BY <2>2 DEF TypesHold, WebOK, Return
  <2>3. QED
    BY <2>1, <2>2
<1>4. QED
  BY <1>1, <1>3 DEF TypesHold, RequestsHold, WebOK, Serve, Return

LEMMA RefreshOnceHolds ==
  ASSUME TypesHold, NEW c \in Calls, RefreshOnce(c)
  PROVE  TypesHold'
<1> DEFINE t == call[c].tab
<1>1. call[c] \in Call /\ t \in Tabs /\ [call[c] EXCEPT !.pc = "waiting"] \in Call
  <2>1. call[c] \in Call /\ t \in Tabs
    BY CallFacts DEF TypesHold, RefreshOnce
  <2>2. QED
    BY <2>1 DEF Call, Places
<1>2. call' = [call EXCEPT ![c].pc = "waiting"]
  BY DEF RefreshOnce
<1>3. RowsOK' /\ UniqueRows'
  BY RowsStay DEF TypesHold, RefreshOnce, Rest, config, rows, store
<1>4. flight' \in [Tabs -> {"none", "asked", "abort"}]
  BY <1>1 DEF TypesHold, WebOK, RefreshOnce
<1>5. RequestsOK'
  <2>1. CASE UNCHANGED <<req, answer>>
    BY <2>1 DEF RefreshOnce, Rest, rows, store, TypesHold, RequestsOK
  <2>2. ASSUME NEW r \in Reqs, Put(r, Refresh(r, Here, t)) PROVE RequestsOK'
    <3> DEFINE x == Refresh(r, Here, t)
    <3>1. x \in Busy /\ OnPath(x) /\ Has(x) /\ Bounded(x, nextToken, nextMail)
      BY <1>1, RefreshFacts, SessionsAssumption DEF TypesHold
    <3>2. req' = [req EXCEPT ![r] = x] /\ answer' = [answer EXCEPT ![r] = "none"]
      BY <2>2 DEF Put
    <3> HIDE DEF x
    <3>3. nextToken' = nextToken /\ nextMail' = nextMail /\ requests' = requests
      BY DEF RefreshOnce, Rest, rows, store
    <3>4. answer' \in [Reqs -> {"none", "ok", "failed"}] /\ requests' \in Nat
      BY <3>2, <3>3 DEF TypesHold, RequestsOK
    <3>5. RowsOK /\ RequestsOK /\ nextToken' \in Nat /\ nextMail' \in Nat
          /\ nextToken' >= nextToken /\ nextMail' >= nextMail
      BY <3>3, CountersStay DEF TypesHold
    <3>6. Bounded(x, nextToken', nextMail') /\ x \in {Idle} \cup Busy
      BY <3>1, <3>3
    <3>7. QED
      BY <3>1, <3>2, <3>4, <3>5, <3>6, RequestExcept
  <2>3. QED
    BY <2>1, <2>2 DEF RefreshOnce
<1>6. WebOK'
  <2>1. call' \in [Calls -> {NoCall} \cup Call]
    BY <1>1, <1>2 DEF TypesHold, WebOK
  <2>2. QED
    BY <1>4, <2>1 DEF TypesHold, WebOK, RefreshOnce
<1>7. QED
  BY <1>3, <1>5, <1>6 DEF TypesHold

LEMMA RefreshedHolds ==
  ASSUME TypesHold, NEW r \in Reqs, Refreshed(r)
  PROVE  TypesHold'
<1> DEFINE t == req[r].tab
           access == req[r].row.email
<1>1. RequestsHold'
  BY AnswerHolds DEF Refreshed, TypesHold, RequestsHold
<1>2. req[r] # Idle /\ Head(req[r].todo) = "answer" /\ t # NoTab
  BY DEF Refreshed, At
<1>3. access \in Emails
  <2>1. Has(req[r])
    BY <1>2, BusyRequest DEF TypesHold
  <2>2. QED
    BY <1>2, <2>1 DEF Has, User
<1>4. call' = Resent(t, access) /\ flight' = [flight EXCEPT ![t] = "none"]
  BY DEF Refreshed
<1> HIDE DEF access
<1>5. call' \in [Calls -> {NoCall} \cup Call]
  <2>1. ASSUME NEW c \in Calls
        PROVE  (IF c \in Waiting(t) THEN [call[c] EXCEPT !.pc = "sent", !.with = access, !.again = TRUE]
                ELSE call[c]) \in {NoCall} \cup Call
    <3>1. CASE c \in Waiting(t)
      <4>1. call[c] \in Call
        BY <3>1, CallFacts DEF Waiting, TypesHold
      <4>2. [call[c] EXCEPT !.pc = "sent", !.with = access, !.again = TRUE] \in Call
        BY <1>3, <4>1 DEF Call, Places
      <4>3. QED
        BY <3>1, <4>2
    <3>2. CASE c \notin Waiting(t)
      BY <3>2 DEF TypesHold, WebOK
    <3>3. QED
      BY <3>1, <3>2
  <2>2. QED
    BY <1>4, <2>1 DEF Resent
<1>6. flight' \in [Tabs -> {"none", "asked", "abort"}]
  BY <1>4 DEF TypesHold, WebOK
<1>7. WebOK'
  BY <1>5, <1>6 DEF Refreshed, TypesHold, WebOK
<1>8. QED
  BY <1>1, <1>7 DEF TypesHold, RequestsHold

LEMMA TrackHolds ==
  ASSUME WebOK, Track, UNCHANGED <<call, calls, ages, away>>
  PROVE  WebOK'
BY DEF WebOK, Track

LEMMA AnswerLostHolds ==
  ASSUME TypesHold, NEW r \in Reqs, AnswerLost(r)
  PROVE  TypesHold'
<1>1. /\ faults < MaxFaults /\ faults' = faults + 1 /\ End(r, "ok")
      /\ UNCHANGED <<mode, selfHosted, devices, users, tokens, redis, inRedis, inMemory, nextUser,
                     nextToken, nextMail, requests, jar, call, calls, ages, away>>
  BY DEF AnswerLost, Faulty, Rest, config, rows, store
<1>2. faults' \in 0..MaxFaults
  BY <1>1, AccountsAssumption DEF TypesHold, RowsOK
<1>3. RowsOK'
  BY <1>1, <1>2 DEF TypesHold, RowsOK
<1>4. UniqueRows'
  BY <1>1 DEF TypesHold, UniqueRows, Ids, Linked
<1>5. RequestsOK'
  BY <1>1, RequestEnds DEF TypesHold
<1>6. WebOK'
  BY <1>1 DEF AnswerLost, TypesHold, WebOK
<1>7. QED
  BY <1>3, <1>4, <1>5, <1>6 DEF TypesHold

LEMMA AbortHolds ==
  ASSUME TypesHold, NEW t \in Tabs, Abort(t)
  PROVE  TypesHold'
<1>1. NoCookie \in Cookies /\ NoCookie.refresh = 0 /\ 0 < nextToken
  BY AccountsAssumption DEF NoCookie, Cookies, TypesHold, RowsOK
<1>2. jar' = [jar EXCEPT ![Here] = NoCookie] \/ jar' = jar
  BY DEF Abort
<1>3. jar' \in [Browsers -> Cookies] /\ \A b \in Browsers : jar'[b].refresh < nextToken
  BY <1>1, <1>2 DEF TypesHold, RowsOK
<1>6. faults' \in 0..MaxFaults
  BY AccountsAssumption DEF Abort, Faulty, TypesHold, RowsOK
<1>4. RequestsHold'
  BY <1>3, <1>6, WebAlone DEF TypesHold, RequestsHold, Abort
<1>5. WebOK'
  BY DEF Abort, TypesHold, WebOK
<1>7. QED
  BY <1>4, <1>5 DEF TypesHold, RequestsHold

LEMMA AccessExpiresHolds ==
  ASSUME TypesHold, AccessExpires
  PROVE  TypesHold'
<1>1. jar' = [jar EXCEPT ![Here].access = "old"]
  BY DEF AccessExpires
<1>2. jar' \in [Browsers -> Cookies] /\ \A b \in Browsers : jar'[b].refresh < nextToken
  <2>1. \A b \in Browsers : jar[b] \in Cookies /\ jar[b].refresh < nextToken
    BY DEF TypesHold, RowsOK
  <2>2. [jar[Here] EXCEPT !.access = "old"] \in Cookies
        /\ [jar[Here] EXCEPT !.access = "old"].refresh = jar[Here].refresh
    BY <2>1, SessionsAssumption DEF Cookies
  <2>3. jar \in [Browsers -> Cookies]
    BY DEF TypesHold, RowsOK
  <2>4. QED
    BY <1>1, <2>1, <2>2, <2>3
<1>3. RequestsHold'
  BY <1>2, WebAlone DEF TypesHold, RequestsHold, AccessExpires
<1>4. WebOK'
  BY SessionsAssumption DEF AccessExpires, TypesHold, WebOK
<1>5. QED
  BY <1>3, <1>4 DEF TypesHold, RequestsHold

LEMMA SessionEndsHolds ==
  ASSUME TypesHold, SessionEnds
  PROVE  TypesHold'
<1>1. UNCHANGED <<mode, selfHosted, devices, redis, inRedis, inMemory, nextUser, nextToken, nextMail,
                  requests, jar, req, answer, faults, call, flight, calls, ages>> /\ away' = TRUE
  BY DEF SessionEnds, config, store
<1>2. CASE tokens' = {} /\ users' = users
  <2>1. RowsOK'
    BY <1>1, <1>2 DEF TypesHold, RowsOK
  <2>2. UniqueRows'
    BY <1>1, <1>2 DEF TypesHold, UniqueRows, Ids, Linked
  <2>3. RequestsOK' /\ WebOK'
    BY <1>1 DEF TypesHold, RequestsOK, WebOK
  <2>4. QED
    BY <2>1, <2>2, <2>3 DEF TypesHold
<1>3. CASE /\ users' = [u \in Id |-> IF u \in Ids THEN [users[u] EXCEPT !.enabled = FALSE] ELSE NoUser]
           /\ tokens' = tokens
  <2>1. \A u \in Ids : /\ [users[u] EXCEPT !.enabled = FALSE] \in User
                       /\ [users[u] EXCEPT !.enabled = FALSE].email = users[u].email
                       /\ [users[u] EXCEPT !.enabled = FALSE].linked = users[u].linked
    BY RowsOfIds DEF TypesHold, User
  <2>2. User \cap {NoUser} = {}
    BY DEF User, NoUser
  <2>3. /\ users' \in [Id -> User \cup {NoUser}]
        /\ \A u \in Id : users'[u] # NoUser <=> users[u] # NoUser
        /\ \A u \in Ids : users'[u].email = users[u].email /\ users'[u].linked = users[u].linked
    BY <1>3, <2>1, <2>2 DEF Ids
  <2>4. RowsOK'
    BY <1>1, <1>3, <2>3 DEF TypesHold, RowsOK, Token
  <2>5. Ids' = Ids /\ Linked' = Linked
    BY <2>3 DEF Ids, Linked
  <2>6. UniqueRows'
    BY <2>3, <2>5 DEF TypesHold, UniqueRows
  <2>7. RequestsOK' /\ WebOK'
    BY <1>1 DEF TypesHold, RequestsOK, WebOK
  <2>8. QED
    BY <2>4, <2>6, <2>7 DEF TypesHold
<1>4. QED
  BY <1>2, <1>3 DEF SessionEnds

LEMMA TypesBegin == Init => TypesHold
<1> SUFFICES ASSUME Init PROVE TypesHold
  OBVIOUS
<1>1. PICK first \in BOOLEAN, l \in BOOLEAN, m \in Emails :
         /\ mode \in {"tab", "tabs"} => first /\ ~l /\ m = GoogleEmail
         /\ mode = "google" => m = GoogleEmail
         /\ ~first => m = GoogleEmail /\ ~l /\ redis
         /\ l => ~selfHosted /\ ~devices /\ redis
         /\ selfHosted \/ ~redis => m = GoogleEmail
         /\ users = [u \in Id |-> IF first /\ u = 1
              THEN [email |-> m, pass |-> TRUE, verified |-> TRUE, locked |-> FALSE, enabled |-> TRUE,
                    linked |-> l, made |-> "LOCAL", admin |-> selfHosted] ELSE NoUser]
         /\ tokens = IF first THEN {[id |-> 1, user |-> 1]} ELSE {}
         /\ jar = [b \in Browsers |-> IF first /\ b = Here THEN [access |-> m, refresh |-> 1] ELSE NoCookie]
         /\ nextUser = IF first THEN 2 ELSE 1
         /\ nextToken = IF first THEN 2 ELSE 1
  BY DEF Init
<1> DEFINE row == [email |-> m, pass |-> TRUE, verified |-> TRUE, locked |-> FALSE, enabled |-> TRUE,
                   linked |-> l, made |-> "LOCAL", admin |-> selfHosted]
           cookie == [access |-> m, refresh |-> 1]
           token == [id |-> 1, user |-> 1]
<1>2. /\ mode \in Modes /\ selfHosted \in BOOLEAN /\ devices \in BOOLEAN /\ redis \in BOOLEAN
      /\ inRedis = {} /\ inMemory = {} /\ nextMail = 1 /\ requests = 0 /\ faults = 0
      /\ req = [r \in Reqs |-> Idle] /\ answer = [r \in Reqs |-> "none"]
      /\ call = [c \in Calls |-> NoCall] /\ flight = [t \in Tabs |-> "none"]
      /\ calls = 0 /\ ages = 0 /\ away = FALSE
  BY DEF Init
<1>3. /\ MaxUsers \in Nat /\ MaxUsers >= 1 /\ MaxTokens \in Nat /\ MaxTokens >= 1 /\ MaxMails \in Nat
      /\ MaxFaults \in Nat /\ MaxCalls \in Nat /\ MaxAges \in Nat
  BY AccountsAssumption, SessionsAssumption
<1>4. row \in User /\ row # NoUser
  BY <1>2 DEF User, NoUser
<1>5. cookie \in Cookies /\ cookie.refresh = 1 /\ NoCookie \in Cookies /\ NoCookie.refresh = 0
  BY <1>3 DEF Cookies, NoCookie
<1>6. token \in Token /\ token.id = 1 /\ token.user = 1 /\ 1 \in Id
  BY <1>3 DEF Token, Id
<1> HIDE DEF row, cookie, token
<1>7. users = [u \in Id |-> IF first /\ u = 1 THEN row ELSE NoUser]
  BY <1>1 DEF row
<1>8. tokens = IF first THEN {token} ELSE {}
  BY <1>1 DEF token
<1>9. jar = [b \in Browsers |-> IF first /\ b = Here THEN cookie ELSE NoCookie]
  BY <1>1 DEF cookie
<1>10. RowsOK
  <2>1. users \in [Id -> User \cup {NoUser}]
    BY <1>4, <1>7
  <2>2. \A t \in tokens : t \in Token /\ users[t.user] # NoUser /\ t.id < nextToken
    <3>1. ASSUME NEW t \in tokens PROVE first /\ t = token
      BY <1>8
    <3>2. first => users[1] = row /\ nextToken = 2
      BY <1>1, <1>6, <1>7
    <3>3. ASSUME NEW t \in tokens PROVE t \in Token /\ users[t.user] # NoUser /\ t.id < nextToken
      BY <1>4, <1>6, <3>1, <3>2
    <3>4. QED
      BY <3>3
  <2>3. jar \in [Browsers -> Cookies] /\ \A b \in Browsers : jar[b].refresh < nextToken
    BY <1>1, <1>5, <1>9
  <2>4. nextUser \in 1..(MaxUsers + 1) /\ nextToken \in 1..(MaxTokens + 1) /\ nextMail \in 1..(MaxMails + 1)
    BY <1>1, <1>2, <1>3
  <2>5. QED
    BY <1>2, <1>3, <2>1, <2>2, <2>3, <2>4 DEF RowsOK
<1>11. \A u \in Ids : u = 1
  BY <1>7 DEF Ids
<1>12. UniqueRows
  BY <1>11 DEF UniqueRows, Linked
<1>13. RequestsOK
  BY <1>2 DEF RequestsOK
<1>14. WebOK
  <2>1. 0 \in 0..MaxCalls /\ 0 \in 0..MaxAges /\ FALSE \in BOOLEAN
    BY <1>3
  <2>2. call \in [Calls -> {NoCall} \cup Call] /\ flight \in [Tabs -> {"none", "asked", "abort"}]
    BY <1>2
  <2>3. QED
    BY <1>2, <2>1, <2>2 DEF WebOK
<1>15. QED
  BY <1>10, <1>12, <1>13, <1>14 DEF TypesHold

LEMMA TypesNext == TypesHold /\ [Next]_all => TypesHold'
<1> SUFFICES ASSUME TypesHold, [Next]_all PROVE TypesHold'
  OBVIOUS
<1>1. ASSUME NEW r \in Reqs, Requests(r), UNCHANGED web PROVE TypesHold'
  <2>1. RequestsHold'
    BY <1>1, RequestsBegin, AcceptHolds DEF TypesHold, RequestsHold
  <2>2. WebOK'
    BY <1>1 DEF web, TypesHold, WebOK
  <2>3. QED
    BY <2>1, <2>2 DEF TypesHold, RequestsHold
<1>2. ASSUME NEW r \in Reqs, Step(r) PROVE TypesHold'
  BY <1>2, AdvanceHolds, TrackHolds DEF TypesHold, RequestsHold, Step
<1>3. ASSUME NEW r \in Reqs, Answered(r) PROVE TypesHold'
  <2>1. RequestsHold'
    BY <1>3, AnswerHolds DEF TypesHold, RequestsHold, Answered
  <2>2. WebOK'
    BY <1>3 DEF Answered, web, TypesHold, WebOK
  <2>3. QED
    BY <2>1, <2>2 DEF TypesHold, RequestsHold
<1>4. CASE Trouble
  BY <1>4, AroundHolds, TrackHolds DEF TypesHold, RequestsHold, Trouble
<1>5. CASE UNCHANGED all
  <2>1. RequestsHold'
    BY <1>5, JarStays, WebAlone DEF all, vars, config, rows, store, Rest, TypesHold, RequestsHold
  <2>2. WebOK'
    BY <1>5 DEF all, web, TypesHold, WebOK
  <2>3. QED
    BY <2>1, <2>2 DEF TypesHold, RequestsHold
<1>6. QED
  BY <1>1, <1>2, <1>3, <1>4, <1>5, RefreshedHolds, AnswerLostHolds, SendHolds, ServeHolds, RefreshOnceHolds,
     AbortHolds, AccessExpiresHolds, SessionEndsHolds DEF Next

\* Every row, token, cookie, request and call is what it should be, and the
\* unique columns of users hold, whatever the requests of any number of browsers
\* do to each other.
THEOREM AccountsTypes == Fair => []WebTypeOK
<1>1. TypesHold => WebTypeOK
  <2> SUFFICES ASSUME TypesHold PROVE WebTypeOK
    OBVIOUS
  <2>1. \A S : (\A u, v \in S : u = v) => Cardinality(S) <= 1
    <3>1. ASSUME NEW S, \A u, v \in S : u = v PROVE Cardinality(S) <= 1
      <4>1. CASE S = {}
        BY <4>1, FS_EmptySet
      <4>2. CASE S # {}
        <5>1. PICK u \in S : S = {u}
          BY <3>1, <4>2
        <5>2. Cardinality(S) = 1
          BY <5>1, FS_Singleton
        <5>3. QED
          BY <5>2
      <4>3. QED
        BY <4>1, <4>2
    <3>2. QED
      BY <3>1
  <2>2. \A m \in Emails : Cardinality(ByEmail(m)) <= 1
    <3>1. \A m : \A u, v \in ByEmail(m) : u = v
      BY DEF TypesHold, UniqueRows, ByEmail
    <3>2. QED
      BY <2>1, <3>1
  <2>3. Cardinality(Linked) <= 1
    BY <2>1 DEF TypesHold, UniqueRows
  <2>4. TypeOK
    BY <2>2, <2>3 DEF TypesHold, RowsOK, RequestsOK, TypeOK
  <2>5. QED
    BY <2>4 DEF TypesHold, WebOK, WebTypeOK
<1>2. QED
  BY <1>1, TypesBegin, TypesNext, PTL DEF Fair

------------------------------------------------------------------------------
(* How a request moves.                                                     *)

\* A request, and what a step of its handler makes of it.
Moved(q, x) ==
    LET step == Head(q.todo)
        next == Head(x.todo) IN
    \/ x = Idle
    \/ /\ x # Idle /\ x.what = q.what /\ x.by = q.by /\ x.tab = q.tab /\ x.shown = q.shown /\ x.key = q.key
       /\ \/ step \notin Ends /\ next = Then(q.what, step)
          \/ /\ q.what = "google" /\ step \in {"find", "merge", "insert"}
             /\ next \in {"merge", "save", "insert"}
       /\ step \notin {"read", "validate", "insert", "find", "merge"} => x.id = q.id /\ x.row = q.row
       /\ step # "issue" => x.new = q.new

OnlyThis(r) == \A s \in Reqs \ {r} : req'[s] = req[s]

LEMMA EndMoves ==
  ASSUME RequestsOK, NEW r \in Reqs, NEW how, End(r, how)
  PROVE  req'[r] = Idle /\ Moved(req[r], req'[r]) /\ OnlyThis(r)
BY DEF End, RequestsOK, Moved, OnlyThis

LEMMA TailMoves ==
  ASSUME RequestsOK, NEW r \in Reqs, req[r] # Idle, Head(req[r].todo) \notin Ends, NEW x,
         x.what = req[r].what, x.todo = Tail(req[r].todo)
  PROVE  x # Idle /\ Head(x.todo) = Then(req[r].what, Head(req[r].todo))
<1>1. req[r] \in Busy /\ OnPath(req[r]) /\ req[r].what \in Whats
  BY BusyRequest DEF Busy
<1>2. OnPath(x) /\ Head(x.todo) = Then(req[r].what, Head(req[r].todo))
  BY <1>1, TailPath
<1>3. QED
  BY <1>2, OnPathBusy

LEMMA GoMoves ==
  ASSUME RequestsOK, NEW r \in Reqs, req[r] # Idle, Head(req[r].todo) \notin Ends, Go(r)
  PROVE  /\ Moved(req[r], req'[r]) /\ OnlyThis(r) /\ req'[r] # Idle
         /\ req'[r].id = req[r].id /\ req'[r].row = req[r].row
<1> DEFINE q == req[r]
           x == req'[r]
<1>1. q \in Busy
  BY BusyRequest
<1>2. req' = [req EXCEPT ![r] = Onward(q, q.id, q.row, q.new)]
  BY GoIsOnward
<1>3. x = Onward(q, q.id, q.row, q.new) /\ OnlyThis(r)
  BY <1>2 DEF RequestsOK, OnlyThis
<1>4. /\ x.todo = Tail(q.todo) /\ x.what = q.what /\ x.by = q.by /\ x.tab = q.tab /\ x.id = q.id
      /\ x.row = q.row /\ x.shown = q.shown /\ x.new = q.new /\ x.key = q.key
  BY <1>1, <1>3 DEF Onward, Busy
<1>5. x # Idle /\ Head(x.todo) = Then(q.what, Head(q.todo))
  BY <1>4, TailMoves
<1>6. Head(q.todo) \notin Ends
  OBVIOUS
<1> HIDE DEF x, q
<1>7. Moved(q, x) /\ x # Idle /\ x.id = q.id /\ x.row = q.row
  BY <1>4, <1>5, <1>6 DEF Moved
<1>8. QED
  BY <1>3, <1>7 DEF q, x

\* The columns a step may not change.
Keeps(q, i, row, n) ==
    /\ Head(q.todo) \notin {"read", "validate", "insert", "find", "merge"} => i = q.id /\ row = q.row
    /\ Head(q.todo) # "issue" => n = q.new

\* A request that goes on with columns of its own.
LEMMA OnwardMoves ==
  ASSUME RequestsOK, NEW r \in Reqs, req[r] # Idle, Head(req[r].todo) \notin Ends,
         NEW i, NEW row, NEW n, Keeps(req[r], i, row, n),
         req' = [req EXCEPT ![r] = Onward(req[r], i, row, n)]
  PROVE  /\ Moved(req[r], req'[r]) /\ OnlyThis(r) /\ req'[r] # Idle
         /\ Head(req'[r].todo) = Then(req[r].what, Head(req[r].todo))
         /\ req'[r].id = i /\ req'[r].row = row /\ req'[r].new = n
<1> DEFINE q == req[r]
           x == req'[r]
<1>1. q \in Busy
  BY BusyRequest
<1>2. x = Onward(q, i, row, n) /\ OnlyThis(r)
  BY DEF RequestsOK, OnlyThis
<1>3. /\ x.todo = Tail(q.todo) /\ x.what = q.what /\ x.by = q.by /\ x.tab = q.tab /\ x.id = i
      /\ x.row = row /\ x.shown = q.shown /\ x.new = n /\ x.key = q.key
  <2> HIDE DEF x, q
  <2>1. QED
    BY <1>1, <1>2 DEF Onward, Busy
<1>4. x # Idle /\ Head(x.todo) = Then(q.what, Head(q.todo))
  BY <1>3, TailMoves
<1>5. Head(q.todo) \notin Ends /\ Keeps(q, i, row, n)
  OBVIOUS
<1> HIDE DEF x, q
<1>6. Moved(q, x)
  BY <1>3, <1>4, <1>5 DEF Moved, Keeps
<1>7. QED
  BY <1>2, <1>3, <1>4, <1>6 DEF q, x

LEMMA ColumnsMove ==
  ASSUME RequestsOK, NEW r \in Reqs, req[r] # Idle, NEW u, NEW row, NEW n
  PROVE  /\ req' = [req EXCEPT ![r].todo = Tail(@), ![r].id = u, ![r].row = row] =>
              req' = [req EXCEPT ![r] = Onward(req[r], u, row, req[r].new)]
         /\ req' = [req EXCEPT ![r].todo = Tail(@), ![r].id = u] =>
              req' = [req EXCEPT ![r] = Onward(req[r], u, req[r].row, req[r].new)]
         /\ req' = [req EXCEPT ![r].todo = Tail(@), ![r].new = n] =>
              req' = [req EXCEPT ![r] = Onward(req[r], req[r].id, req[r].row, n)]
<1> DEFINE q == req[r]
<1>1. q \in Busy /\ req \in [Reqs -> {Idle} \cup Busy]
  BY BusyRequest DEF RequestsOK
<1>2. /\ [q EXCEPT !.todo = Tail(@), !.id = u, !.row = row] = Onward(q, u, row, q.new)
      /\ [q EXCEPT !.todo = Tail(@), !.id = u] = Onward(q, u, q.row, q.new)
      /\ [q EXCEPT !.todo = Tail(@), !.new = n] = Onward(q, q.id, q.row, n)
  BY <1>1 DEF Onward, Busy
<1> HIDE DEF q
<1>3. [req EXCEPT ![r].todo = Tail(@), ![r].id = u, ![r].row = row]
        = [req EXCEPT ![r] = [q EXCEPT !.todo = Tail(@), !.id = u, !.row = row]]
  BY <1>1 DEF q
<1>4. [req EXCEPT ![r].todo = Tail(@), ![r].id = u] = [req EXCEPT ![r] = [q EXCEPT !.todo = Tail(@), !.id = u]]
  BY <1>1 DEF q
<1>5. [req EXCEPT ![r].todo = Tail(@), ![r].new = n] = [req EXCEPT ![r] = [q EXCEPT !.todo = Tail(@), !.new = n]]
  BY <1>1 DEF q
<1>6. QED
  BY <1>2, <1>3, <1>4, <1>5 DEF q

LEMMA GoogleWays ==
  /\ Way("google", <<"save">> \o Session) /\ Head(<<"save">> \o Session) = "save"
  /\ Way("google", <<"insert">> \o Session) /\ Head(<<"insert">> \o Session) = "insert"
<1>1. /\ <<"save">> \in Seq(Steps) /\ <<"save">> # <<>> /\ <<"save">>[1] = "save"
      /\ <<"insert">> \in Seq(Steps) /\ <<"insert">> # <<>> /\ <<"insert">>[1] = "insert"
  BY DEF Steps
<1>2. Head(<<"save">> \o Session) = "save" /\ Head(<<"insert">> \o Session) = "insert"
  BY <1>1, HeadOfWay
<1>3. QED
  BY <1>2 DEF Way

\* What a Google login has when it has found its user, or is to make one.
LEMMA GoogleMoves ==
  ASSUME RequestsOK, NEW r \in Reqs, req[r] # Idle, req[r].what = "google",
         Head(req[r].todo) \in {"find", "merge", "insert"}, NEW todo, NEW i, NEW row,
         Way("google", todo), Head(todo) \in {"save", "insert", "merge"},
         req' = [req EXCEPT ![r] = [req[r] EXCEPT !.todo = todo, !.id = i, !.row = row]]
  PROVE  /\ Moved(req[r], req'[r]) /\ OnlyThis(r) /\ req'[r] # Idle
         /\ req'[r].id = i /\ req'[r].row = row /\ req'[r].todo = todo
<1> DEFINE q == req[r]
           x == req'[r]
<1>1. q \in Busy /\ Head(q.todo) \in {"find", "merge", "insert"} /\ q.what = "google"
  BY BusyRequest
<1>2. x = [q EXCEPT !.todo = todo, !.id = i, !.row = row] /\ OnlyThis(r)
  BY DEF RequestsOK, OnlyThis
<1> HIDE DEF x, q
<1>3. /\ x.todo = todo /\ x.what = q.what /\ x.by = q.by /\ x.tab = q.tab /\ x.id = i
      /\ x.row = row /\ x.shown = q.shown /\ x.new = q.new /\ x.key = q.key
  BY <1>1, <1>2 DEF Busy
<1>4. OnPath(x) /\ x # Idle
  BY <1>1, <1>3, PathsBegin, OnPathBusy
<1>5. Moved(q, x)
  BY <1>1, <1>3, <1>4 DEF Moved
<1>6. QED
  BY <1>2, <1>3, <1>4, <1>5 DEF q, x

LEMMA MergeMoves ==
  ASSUME RequestsOK, NEW r \in Reqs, req[r] # Idle, req[r].what = "google",
         Head(req[r].todo) \in {"find", "merge"}, NEW u, Merge(r, u)
  PROVE  /\ Moved(req[r], req'[r]) /\ OnlyThis(r)
         /\ ~users[u].locked => /\ req'[r] # Idle /\ Head(req'[r].todo) = "save" /\ answer' = answer
                                /\ req'[r].id = u /\ req'[r].row = Merged(users[u])
<1>1. CASE users[u].locked
  BY <1>1, EndMoves DEF Merge
<1>2. CASE ~users[u].locked
  <2> DEFINE todo == <<"save">> \o Session
             row == Merged(users[u])
  <2>1. req' = [req EXCEPT ![r] = [req[r] EXCEPT !.todo = todo, !.id = u, !.row = row]] /\ answer' = answer
    BY <1>2 DEF Merge
  <2>2. Way("google", todo) /\ Head(todo) = "save"
    BY GoogleWays
  <2> HIDE DEF todo, row
  <2>3. /\ Moved(req[r], req'[r]) /\ OnlyThis(r) /\ req'[r] # Idle
        /\ req'[r].id = u /\ req'[r].row = row /\ req'[r].todo = todo
    BY <2>1, <2>2, GoogleMoves
  <2>4. QED
    BY <1>2, <2>1, <2>2, <2>3 DEF row
<1>3. QED
  BY <1>1, <1>2

\* A Google login has a user to merge into, or a new row, or has failed.
LEMMA FindMoves ==
  ASSUME RequestsHold, NEW r \in Reqs, Find(r) \/ FindAgain(r)
  PROVE  /\ req[r] # Idle /\ req[r].what = "google" /\ Head(req[r].todo) \in {"find", "merge"}
         /\ Moved(req[r], req'[r]) /\ OnlyThis(r)
         /\ \/ \E u \in Of : Merge(r, u)
            \/ /\ Find(r) /\ Of = {} /\ req'[r] # Idle /\ Head(req'[r].todo) = "insert"
               /\ req'[r].row = GoogleRow /\ answer' = answer
            \/ FindAgain(r) /\ Of = {} /\ End(r, "failed")
<1> DEFINE q == req[r]
<1>1. q # Idle /\ Head(q.todo) \in {"find", "merge"}
  BY DEF Find, FindAgain, At
<1>2. q \in Busy /\ q.what = "google"
  <2>1. q \in Busy /\ Head(q.todo) \in StepsOf(q.what) /\ q.what \in Whats
    BY <1>1, BusyRequest DEF RequestsHold, Busy
  <2>2. QED
    BY <1>1, <2>1 DEF StepsOf, Whats, Signing
<1>3. ASSUME NEW u \in Of, Merge(r, u)
      PROVE  Moved(req[r], req'[r]) /\ OnlyThis(r)
  BY <1>1, <1>2, <1>3, MergeMoves DEF RequestsHold
<1>4. ASSUME Find(r), Of = {}
      PROVE  /\ Moved(req[r], req'[r]) /\ OnlyThis(r) /\ req'[r] # Idle /\ Head(req'[r].todo) = "insert"
             /\ req'[r].row = GoogleRow /\ answer' = answer
  <2> DEFINE todo == <<"insert">> \o Session
  <2>1. req' = [req EXCEPT ![r] = [q EXCEPT !.todo = todo, !.row = GoogleRow]] /\ answer' = answer
    BY <1>4 DEF Find
  <2>2. Way("google", todo) /\ Head(todo) = "insert"
    BY GoogleWays
  <2> HIDE DEF q, todo
  <2>3. [q EXCEPT !.todo = todo, !.row = GoogleRow] = [q EXCEPT !.todo = todo, !.id = q.id, !.row = GoogleRow]
    BY <1>2 DEF Busy
  <2>4. req' = [req EXCEPT ![r] = [req[r] EXCEPT !.todo = todo, !.id = q.id, !.row = GoogleRow]]
    BY <2>1, <2>3 DEF q
  <2>5. /\ Moved(req[r], req'[r]) /\ OnlyThis(r) /\ req'[r] # Idle
        /\ req'[r].row = GoogleRow /\ req'[r].todo = todo
    BY <1>1, <1>2, <2>2, <2>4, GoogleMoves DEF RequestsHold, q
  <2>6. QED
    BY <2>1, <2>2, <2>5
<1>5. ASSUME End(r, "failed") PROVE Moved(req[r], req'[r]) /\ OnlyThis(r)
  BY <1>5, EndMoves DEF RequestsHold
<1>6. CASE Of # {}
  BY <1>1, <1>2, <1>3, <1>6 DEF Find, FindAgain
<1>7. CASE Of = {} /\ Find(r)
  BY <1>1, <1>2, <1>4, <1>7
<1>8. CASE Of = {} /\ FindAgain(r)
  BY <1>1, <1>2, <1>5, <1>8 DEF FindAgain
<1>9. QED
  BY <1>6, <1>7, <1>8

LEMMA InsertMoves ==
  ASSUME RequestsHold, NEW r \in Reqs, Insert(r)
  PROVE  /\ req[r] # Idle /\ Head(req[r].todo) = "insert" /\ Moved(req[r], req'[r]) /\ OnlyThis(r)
         /\ Unique(req[r].row, 0) =>
              /\ req'[r] # Idle /\ req'[r].id = nextUser /\ req'[r].row = req[r].row /\ answer' = answer
              /\ Head(req'[r].todo) = Then(req[r].what, "insert")
              /\ users' = [users EXCEPT ![nextUser] = req[r].row] /\ nextUser \in Id
         /\ ~Unique(req[r].row, 0) => users' = users
         /\ ~Unique(req[r].row, 0) /\ req[r].what = "google" =>
              req'[r] # Idle /\ Head(req'[r].todo) = "merge" /\ answer' = answer
<1> DEFINE q == req[r]
<1>1. q # Idle /\ Head(q.todo) = "insert" /\ q \in Busy /\ Head(q.todo) \notin Ends
  BY BusyRequest DEF RequestsHold, Insert, At, Ends
<1>2. ASSUME Unique(q.row, 0)
      PROVE  /\ Moved(q, req'[r]) /\ OnlyThis(r) /\ req'[r] # Idle /\ req'[r].id = nextUser
             /\ req'[r].row = q.row /\ answer' = answer /\ Head(req'[r].todo) = Then(q.what, "insert")
             /\ users' = [users EXCEPT ![nextUser] = q.row] /\ nextUser \in Id
  <2>1. /\ nextUser <= MaxUsers /\ users' = [users EXCEPT ![nextUser] = q.row]
        /\ req' = [req EXCEPT ![r].todo = Tail(@), ![r].id = nextUser] /\ answer' = answer
    BY <1>2 DEF Insert
  <2>2. nextUser \in Id
    BY <2>1, AccountsAssumption DEF RequestsHold, RowsOK, Id
  <2>3. req' = [req EXCEPT ![r] = Onward(req[r], nextUser, req[r].row, req[r].new)]
    BY <1>1, <2>1, ColumnsMove DEF RequestsHold
  <2>4. /\ Moved(req[r], req'[r]) /\ OnlyThis(r) /\ req'[r] # Idle
        /\ Head(req'[r].todo) = Then(req[r].what, Head(req[r].todo))
        /\ req'[r].id = nextUser /\ req'[r].row = req[r].row
    <3>1. RequestsOK /\ req[r] # Idle /\ Head(req[r].todo) \notin Ends
          /\ Keeps(req[r], nextUser, req[r].row, req[r].new)
      BY <1>1 DEF RequestsHold, Keeps
    <3> DEFINE n == req[r].new
               row == req[r].row
    <3>2. req' = [req EXCEPT ![r] = Onward(req[r], nextUser, row, n)] /\ Keeps(req[r], nextUser, row, n)
      BY <2>3, <3>1
    <3> HIDE DEF q, n, row
    <3>3. /\ Moved(req[r], req'[r]) /\ OnlyThis(r) /\ req'[r] # Idle
          /\ Head(req'[r].todo) = Then(req[r].what, Head(req[r].todo))
          /\ req'[r].id = nextUser /\ req'[r].row = row
      BY <3>1, <3>2, OnwardMoves
    <3>4. QED
      BY <3>3 DEF row
  <2>5. QED
    BY <1>1, <2>1, <2>2, <2>4
<1>3. ASSUME ~Unique(q.row, 0), q.what = "google"
      PROVE  /\ Moved(q, req'[r]) /\ OnlyThis(r) /\ req'[r] # Idle /\ Head(req'[r].todo) = "merge"
             /\ answer' = answer /\ users' = users
  <2> DEFINE todo == <<"merge">>
  <2>1. req' = [req EXCEPT ![r].todo = todo] /\ answer' = answer /\ users' = users
    BY <1>3 DEF Insert
  <2>2. Way("google", todo) /\ Head(todo) = "merge"
    BY DEF Way
  <2> HIDE DEF q, todo
  <2>3. [q EXCEPT !.todo = todo] = [q EXCEPT !.todo = todo, !.id = q.id, !.row = q.row]
    BY <1>1 DEF Busy
  <2>4. req' = [req EXCEPT ![r] = [req[r] EXCEPT !.todo = todo, !.id = q.id, !.row = q.row]]
    BY <2>1, <2>3 DEF q
  <2>5. Moved(req[r], req'[r]) /\ OnlyThis(r) /\ req'[r] # Idle /\ req'[r].todo = todo
    <3>1. RequestsOK /\ req[r] # Idle /\ Head(req[r].todo) \in {"find", "merge", "insert"}
          /\ req[r].what = "google"
      BY <1>1, <1>3 DEF RequestsHold, q
    <3>2. QED
      BY <2>2, <2>4, <3>1, GoogleMoves
  <2>6. QED
    BY <2>1, <2>2, <2>5 DEF q
<1>4. ASSUME ~Unique(q.row, 0), q.what # "google"
      PROVE  Moved(q, req'[r]) /\ OnlyThis(r) /\ users' = users
  <2>1. End(r, "failed") /\ users' = users
    BY <1>4 DEF Insert
  <2>2. QED
    BY <2>1, EndMoves DEF RequestsHold
<1>5. QED
  BY <1>1, <1>2, <1>3, <1>4

LEMMA IssueMoves ==
  ASSUME RequestsHold, NEW r \in Reqs, Issue(r)
  PROVE  /\ req[r] # Idle /\ Head(req[r].todo) = "issue" /\ Moved(req[r], req'[r]) /\ OnlyThis(r)
         /\ users[req[r].id] # NoUser =>
              /\ tokens' = tokens \cup {[id |-> nextToken, user |-> req[r].id]} /\ nextToken' = nextToken + 1
              /\ req'[r] # Idle /\ req'[r].new = nextToken /\ Head(req'[r].todo) = "answer" /\ answer' = answer
              /\ req'[r].id = req[r].id /\ req'[r].row = req[r].row
         /\ users[req[r].id] = NoUser => req'[r] = Idle /\ UNCHANGED <<tokens, nextToken>>
<1> DEFINE q == req[r]
<1>1. q # Idle /\ Head(q.todo) = "issue" /\ q \in Busy /\ Head(q.todo) \notin Ends
  BY BusyRequest DEF RequestsHold, Issue, At, Ends
<1>2. ASSUME users[q.id] # NoUser
      PROVE  /\ Moved(q, req'[r]) /\ OnlyThis(r) /\ req'[r] # Idle /\ req'[r].new = nextToken
             /\ Head(req'[r].todo) = "answer" /\ req'[r].id = q.id /\ req'[r].row = q.row /\ answer' = answer
             /\ tokens' = tokens \cup {[id |-> nextToken, user |-> q.id]} /\ nextToken' = nextToken + 1
  <2>1. /\ req' = [req EXCEPT ![r].todo = Tail(@), ![r].new = nextToken] /\ answer' = answer
        /\ tokens' = tokens \cup {[id |-> nextToken, user |-> q.id]} /\ nextToken' = nextToken + 1
    BY <1>2 DEF Issue
  <2>2. req' = [req EXCEPT ![r] = Onward(req[r], req[r].id, req[r].row, nextToken)]
    BY <1>1, <2>1, ColumnsMove DEF RequestsHold
  <2>3. /\ Moved(req[r], req'[r]) /\ OnlyThis(r) /\ req'[r] # Idle
        /\ Head(req'[r].todo) = Then(req[r].what, Head(req[r].todo))
        /\ req'[r].id = req[r].id /\ req'[r].row = req[r].row /\ req'[r].new = nextToken
    <3>1. RequestsOK /\ req[r] # Idle /\ Head(req[r].todo) \notin Ends
          /\ Keeps(req[r], req[r].id, req[r].row, nextToken)
      BY <1>1 DEF RequestsHold, Keeps
    <3> HIDE DEF q
    <3>2. QED
      BY <2>2, <3>1, OnwardMoves
  <2>4. Then(req[r].what, Head(req[r].todo)) = "answer"
    BY <1>1 DEF Then
  <2>5. QED
    BY <2>1, <2>3, <2>4
<1>3. ASSUME users[q.id] = NoUser
      PROVE  Moved(q, req'[r]) /\ OnlyThis(r) /\ req'[r] = Idle /\ UNCHANGED <<tokens, nextToken>>
  <2>1. End(r, "failed") /\ UNCHANGED <<tokens, nextToken>>
    BY <1>3 DEF Issue
  <2>2. QED
    BY <2>1, EndMoves DEF RequestsHold
<1>4. QED
  BY <1>1, <1>2, <1>3

LEMMA ReadMoves ==
  ASSUME RequestsHold, NEW r \in Reqs, Read(r) \/ Validate(r)
  PROVE  /\ req[r] # Idle /\ Head(req[r].todo) \in {"read", "validate"}
         /\ Moved(req[r], req'[r]) /\ OnlyThis(r)
         /\ Validate(r) => \/ req'[r] = Idle /\ \A t \in tokens : t.id # req[r].shown
                           \/ \E t \in tokens : /\ t.id = req[r].shown /\ req'[r].id = t.user
                                                /\ req'[r].row = users[t.user] /\ req'[r] # Idle
                                                /\ Head(req'[r].todo) = Then(req[r].what, "validate")
<1> DEFINE q == req[r]
<1>1. q # Idle /\ Head(q.todo) \in {"read", "validate"} /\ q \in Busy /\ Head(q.todo) \notin Ends
  BY BusyRequest DEF RequestsHold, Read, Validate, At, Ends
<1>2. ASSUME NEW u, NEW row, req' = [req EXCEPT ![r].todo = Tail(@), ![r].id = u, ![r].row = row]
      PROVE  /\ Moved(q, req'[r]) /\ OnlyThis(r) /\ req'[r] # Idle /\ req'[r].id = u /\ req'[r].row = row
             /\ Head(req'[r].todo) = Then(q.what, Head(q.todo))
  <2>1. req' = [req EXCEPT ![r] = Onward(req[r], u, row, req[r].new)]
    BY <1>1, <1>2, ColumnsMove DEF RequestsHold
  <2>2. RequestsOK /\ req[r] # Idle /\ Head(req[r].todo) \notin Ends
        /\ Keeps(req[r], u, row, req[r].new)
    BY <1>1 DEF RequestsHold, Keeps
  <2> HIDE DEF q
  <2> DEFINE n == req[r].new
  <2>3. req' = [req EXCEPT ![r] = Onward(req[r], u, row, n)] /\ Keeps(req[r], u, row, n)
    BY <2>1, <2>2
  <2> HIDE DEF n
  <2>5. /\ Moved(req[r], req'[r]) /\ OnlyThis(r) /\ req'[r] # Idle
        /\ Head(req'[r].todo) = Then(req[r].what, Head(req[r].todo))
        /\ req'[r].id = u /\ req'[r].row = row
    BY <2>2, <2>3, OnwardMoves
  <2>6. QED
    BY <2>5 DEF q
<1>3. CASE End(r, "failed")
  <2>1. Moved(q, req'[r]) /\ OnlyThis(r) /\ req'[r] = Idle
    BY <1>3, EndMoves DEF RequestsHold
  <2>2. Validate(r) => \A t \in tokens : t.id # q.shown
    <3>1. ASSUME Validate(r), NEW t \in tokens, t.id = q.shown PROVE FALSE
      <4>1. PICK v \in tokens : req' = [req EXCEPT ![r].todo = Tail(@), ![r].id = v.user, ![r].row = users[v.user]]
        BY <3>1 DEF Validate
      <4>2. QED
        BY <1>2, <2>1, <4>1
    <3>2. QED
      BY <3>1
  <2>3. QED
    BY <1>1, <2>1, <2>2
<1>4. CASE Read(r) /\ ~End(r, "failed")
  <2>1. \E u, row : req' = [req EXCEPT ![r].todo = Tail(@), ![r].id = u, ![r].row = row]
    BY <1>4 DEF Read
  <2>2. Moved(q, req'[r]) /\ OnlyThis(r)
    BY <1>2, <2>1
  <2>3. ~Validate(r)
    BY <1>4 DEF Read, Validate, At
  <2>4. QED
    BY <1>1, <2>2, <2>3
<1>5. CASE Validate(r) /\ ~End(r, "failed")
  <2>1. PICK t \in tokens : /\ t.id = q.shown
                            /\ req' = [req EXCEPT ![r].todo = Tail(@), ![r].id = t.user, ![r].row = users[t.user]]
    BY <1>5 DEF Validate
  <2>2. /\ Moved(q, req'[r]) /\ OnlyThis(r) /\ req'[r] # Idle /\ req'[r].id = t.user
        /\ req'[r].row = users[t.user] /\ Head(req'[r].todo) = Then(q.what, Head(q.todo))
    BY <1>2, <2>1
  <2>3. Head(q.todo) = "validate"
    BY <1>5 DEF Validate, At
  <2>4. QED
    BY <1>1, <2>1, <2>2, <2>3
<1>6. QED
  BY <1>3, <1>4, <1>5

\* The other steps go on, or fail.
LEMMA PlainMoves ==
  ASSUME RequestsHold, NEW r \in Reqs,
         \/ Taken(r) \/ Owners(r) \/ Save(r)
         \/ SendMail(r) \/ Purge(r) \/ Drop(r) \/ Revoke(r) \/ Delete(r) \/ Burn(r)
  PROVE  /\ req[r] # Idle /\ Moved(req[r], req'[r]) /\ OnlyThis(r)
         /\ Go(r) => req'[r].id = req[r].id /\ req'[r].row = req[r].row /\ req'[r] # Idle
<1>1. /\ req[r] # Idle /\ Head(req[r].todo) \notin Ends
      /\ Go(r) \/ End(r, "failed")
  BY DEF Taken, Owners, Save, SendMail, Purge, Drop, Revoke, Delete, Burn, At, Ends
<1>2. CASE Go(r)
  BY <1>1, <1>2, GoMoves DEF RequestsHold
<1>3. CASE End(r, "failed") /\ ~Go(r)
  BY <1>1, <1>3, EndMoves DEF RequestsHold
<1>4. QED
  BY <1>1, <1>2, <1>3

LEMMA AdvanceMoves ==
  ASSUME RequestsHold, NEW r \in Reqs, Advance(r)
  PROVE  req[r] # Idle /\ Moved(req[r], req'[r]) /\ OnlyThis(r)
BY FindMoves, InsertMoves, IssueMoves, ReadMoves, PlainMoves DEF Advance

------------------------------------------------------------------------------
(* One request at a time, and no calls without a tab.                       *)

NoNewRequest == \A s \in Reqs : req'[s] # Idle => req[s] # Idle

\* A call rejects: the request ends, or a registration goes on without its mail.
LEMMA FailsMoves ==
  ASSUME RequestsHold, NEW r \in Reqs, Fails(r)
  PROVE  \/ req[r] # Idle /\ Moved(req[r], req'[r]) /\ OnlyThis(r) /\ req[r].what # "google"
         \/ End(r, "failed")
<1>1. /\ req[r] # Idle
      /\ \/ Head(req[r].todo) = "mail" /\ req[r].what = "register" /\ Go(r)
         \/ End(r, "failed")
  BY DEF Fails, At
<1>2. CASE End(r, "failed")
  BY <1>2
<1>3. CASE Head(req[r].todo) = "mail" /\ req[r].what = "register" /\ Go(r)
  <2>1. Head(req[r].todo) \notin Ends
    BY <1>3 DEF Ends
  <2>2. QED
    BY <1>1, <1>3, <2>1, GoMoves DEF RequestsHold
<1>4. QED
  BY <1>1, <1>2, <1>3

LEMMA NoNewInTrouble ==
  ASSUME RequestsHold, Around
  PROVE  NoNewRequest /\ mode' = mode
<1>1. ASSUME NEW r \in Reqs, Fails(r) PROVE NoNewRequest /\ mode' = mode
  <2>1. req[r] # Idle /\ OnlyThis(r) /\ mode' = mode
    <3>1. req[r] # Idle /\ mode' = mode
      BY <1>1 DEF Fails, config
    <3>2. End(r, "failed") => OnlyThis(r)
      BY EndMoves DEF RequestsHold
    <3>3. QED
      BY <1>1, <3>1, <3>2, FailsMoves
  <2>2. QED
    BY <2>1 DEF OnlyThis, NoNewRequest
<1>2. CASE Restart
  BY <1>2 DEF Restart, NoNewRequest, config
<1>3. CASE RedisSwitches \/ (\E t \in tokens : TokenExpires(t)) \/ \E k \in inRedis \cup inMemory : MailExpires(k)
  BY <1>3 DEF RedisSwitches, TokenExpires, MailExpires, NoNewRequest, config
<1>4. QED
  BY <1>1, <1>2, <1>3 DEF Around

LEMMA OneByOneNext ==
  ASSUME TypesHold, OneByOne, [Next]_all
  PROVE  OneByOne'
<1>1. ASSUME NoNewRequest, mode' = mode, ~Web => \A c \in Calls : call'[c] = call[c]
      PROVE  OneByOne'
  BY <1>1 DEF OneByOne, NoNewRequest, Web
<1>2. ASSUME NEW c \in Calls, call[c].pc # "idle" PROVE Web
  BY <1>2 DEF OneByOne, NoCall
<1>3. ASSUME NEW r \in Reqs, Requests(r), UNCHANGED web PROVE OneByOne'
  <2>1. PICK q \in Busy : Accept(r, q)
    BY <1>3, RequestsBegin DEF TypesHold
  <2>2. /\ mode \in {"shared", "google"} \/ r = CHOOSE s \in Reqs : TRUE
        /\ req' = [req EXCEPT ![r] = q] /\ mode' = mode /\ call' = call
    BY <1>3, <2>1 DEF Accept, Slot, Put, config, web
  <2>3. QED
    BY <2>2 DEF OneByOne, Web, TypesHold, RequestsOK
<1>4. ASSUME NEW r \in Reqs, Step(r) PROVE OneByOne'
  <2>1. req[r] # Idle /\ OnlyThis(r)
    BY <1>4, AdvanceMoves DEF Step, TypesHold, RequestsHold
  <2>2. NoNewRequest
    BY <2>1 DEF OnlyThis, NoNewRequest
  <2>3. mode' = mode /\ call' = call
    BY <1>4 DEF Step, Advance, Taken, Owners, Read, Insert, Save, Find, FindAgain, SendMail, Purge, Issue,
                Validate, Drop, Revoke, Delete, Burn, Same, config
  <2>4. QED
    BY <1>1, <2>2, <2>3
<1>5. ASSUME NEW r \in Reqs, Answered(r) \/ Refreshed(r) \/ AnswerLost(r) PROVE OneByOne'
  <2>1. /\ req[r] # Idle /\ End(r, "ok") /\ mode' = mode
    BY <1>5 DEF Answered, Refreshed, AnswerLost, Answer, At, Same, Rest, config
  <2>2. NoNewRequest
    BY <2>1, EndMoves DEF OnlyThis, NoNewRequest, TypesHold
  <2>3. ~Web => \A c \in Calls : call'[c] = call[c]
    <3>1. CASE Answered(r) \/ AnswerLost(r)
      BY <3>1 DEF Answered, AnswerLost, web
    <3>2. CASE Refreshed(r)
      <4>1. ~Web => Waiting(req[r].tab) = {}
        BY <1>2 DEF Waiting
      <4>2. QED
        BY <3>2, <4>1 DEF Refreshed, Resent
    <3>3. QED
      BY <1>5, <3>1, <3>2
  <2>4. QED
    BY <1>1, <2>1, <2>2, <2>3
<1>6. CASE Trouble
  BY <1>1, <1>6, NoNewInTrouble DEF Trouble, TypesHold, RequestsHold
<1>7. ASSUME NEW c \in Calls, NEW t \in Tabs, Send(c, t) PROVE OneByOne'
  <2>1. Web /\ mode' = mode /\ req' = req
    BY <1>7 DEF Send, Rest, config
  <2>2. QED
    BY <1>1, <2>1 DEF NoNewRequest
<1>8. ASSUME NEW c \in Calls, Serve(c) \/ Return(c) PROVE OneByOne'
  <2>1. Web /\ mode' = mode /\ req' = req
    BY <1>2, <1>8 DEF Serve, Return, Rest, config
  <2>2. QED
    BY <1>1, <2>1 DEF NoNewRequest
<1>9. ASSUME NEW c \in Calls, RefreshOnce(c) PROVE OneByOne'
  <2>1. Web /\ mode' = mode
    BY <1>2, <1>9 DEF RefreshOnce, Rest, config
  <2>2. QED
    BY <2>1 DEF OneByOne, Web
<1>10. ASSUME NEW t \in Tabs, Abort(t) PROVE OneByOne'
  <2>1. mode' = mode /\ req' = req
    BY <1>10 DEF Abort, Rest, config
  <2>2. ~Web => \A c \in Calls : call'[c] = call[c]
    BY <1>2, <1>10 DEF Abort, Waiting
  <2>3. QED
    BY <1>1, <2>1, <2>2 DEF NoNewRequest
<1>11. CASE AccessExpires \/ SessionEnds \/ UNCHANGED all
  BY <1>1, <1>11 DEF AccessExpires, SessionEnds, all, vars, web, Rest, config, NoNewRequest
<1>12. QED
  BY <1>3, <1>4, <1>5, <1>6, <1>7, <1>8, <1>9, <1>10, <1>11 DEF Next

------------------------------------------------------------------------------
(* Revoked tokens.                                                          *)

\* What a request has ended stays ended while it goes on.
LEMMA GoneMoves ==
  ASSUME NEW q, NEW x, OnPath(q), Moved(q, x), x # Idle, Gone(q, tokens), NEW left,
         \A t \in left : t \in tokens \/ (Head(q.todo) = "issue" /\ t.id # q.shown),
         Head(q.todo) = "drop" => \A t \in left : t.id # q.shown,
         Head(q.todo) \in {"revoke", "delete"} => \A t \in left : t.user # q.id
  PROVE  Gone(x, left)
<1> DEFINE step == Head(q.todo)
           next == Head(x.todo)
<1>1. step \in StepsOf(q.what) /\ x.what = q.what /\ x.shown = q.shown
  BY DEF OnPath, Moved
<1>2. CASE q.what = "refresh"
  <2>1. step \in {"validate", "drop"} \cup Signing
    BY <1>1, <1>2 DEF StepsOf
  <2>2. next \in Signing => step \in {"drop"} \cup Signing
    BY <1>2, <2>1 DEF Moved, Then, Signing, Ends
  <2>3. next \in Signing => \A t \in left : t.id # q.shown
    BY <1>2, <2>2 DEF Gone
  <2>4. QED
    BY <1>1, <1>2, <2>3 DEF Gone
<1>3. CASE q.what = "logout"
  <2>1. step \in {"drop", "revoke", "answer"}
    BY <1>1, <1>3 DEF StepsOf
  <2>2. step # "answer" /\ next = "answer" /\ x.id = q.id
    BY <1>3, <2>1 DEF Moved, Then, Ends
  <2>3. \A t \in left : IF devices THEN t.id # q.shown ELSE t.user # q.id
    BY <1>3, <2>1, <2>2 DEF Gone
  <2>4. QED
    BY <1>1, <1>3, <2>2, <2>3 DEF Gone
<1>4. CASE q.what \in {"change", "delete"}
  <2>1. step \in IF q.what = "change" THEN {"taken", "save", "revoke", "answer"} ELSE {"delete", "answer"}
    BY <1>1, <1>4 DEF StepsOf
  <2>2. next = "answer" => step \in {"revoke", "delete"}
    BY <1>4, <2>1 DEF Moved, Then, Ends
  <2>3. next = "answer" => x.id = q.id
    BY <2>2 DEF Moved
  <2>4. QED
    BY <1>1, <1>4, <2>2, <2>3 DEF Gone
<1>5. CASE q.what = "confirmChange"
  <2>1. step \in {"read", "save", "revoke", "burn", "answer"}
    BY <1>1, <1>5 DEF StepsOf
  <2>2. next \in {"burn", "answer"} => step \in {"revoke", "burn"}
    BY <1>5, <2>1 DEF Moved, Then, Ends
  <2>3. next \in {"burn", "answer"} => x.id = q.id
    BY <2>2 DEF Moved
  <2>4. next \in {"burn", "answer"} => \A t \in left : t.user # q.id
    BY <1>5, <2>2 DEF Gone
  <2>5. QED
    BY <1>1, <1>5, <2>3, <2>4 DEF Gone
<1>6. CASE q.what \notin {"refresh", "logout", "change", "delete", "confirmChange"}
  BY <1>1, <1>6 DEF Gone
<1>7. QED
  BY <1>2, <1>3, <1>4, <1>5, <1>6

\* What the steps of a handler do to the tokens.
LEMMA TokensOfStep ==
  ASSUME NEW r \in Reqs, Advance(r)
  PROVE  LET step == Head(req[r].todo) IN
         /\ revoked' = revoked /\ mode' = mode /\ devices' = devices /\ faults' = faults
         /\ \A t \in tokens' : t \in tokens \/ (step = "issue" /\ t.id = nextToken)
         /\ nextToken' = nextToken \/ nextToken' = nextToken + 1
         /\ (\E t \in tokens' : t \notin tokens) => nextToken' = nextToken + 1
         /\ step = "drop" => \A t \in tokens' : t.id # req[r].shown
         /\ step \in {"revoke", "delete"} => \A t \in tokens' : t.user # req[r].id
<1>1. CASE Taken(r) \/ Owners(r) \/ Read(r) \/ Insert(r) \/ Save(r) \/ Find(r) \/ FindAgain(r)
  BY <1>1 DEF Taken, Owners, Read, Insert, Save, Find, FindAgain, At, Same, config, rows
<1>2. CASE SendMail(r) \/ Burn(r) \/ Validate(r)
  BY <1>2 DEF SendMail, Burn, Validate, At, Same, config, rows
<1>3. CASE Purge(r) \/ Drop(r) \/ Revoke(r) \/ Delete(r)
  BY <1>3 DEF Purge, Drop, Revoke, Delete, At, Same, config
<1>4. CASE Issue(r)
  BY <1>4 DEF Issue, At, Same, config
<1>5. QED
  BY <1>1, <1>2, <1>3, <1>4 DEF Advance

\* What a request revokes when it is answered is gone.
LEMMA AnswerRevokes ==
  ASSUME RequestsHold, NEW r \in Reqs, At(r, "answer"), Gone(req[r], tokens)
  PROVE  Ended(req[r]) \subseteq 0..(nextToken - 1) /\ \A t \in tokens : t.id \notin Ended(req[r])
<1> DEFINE q == req[r]
<1>1. q # Idle /\ Head(q.todo) = "answer"
  BY DEF At
<1>2. q \in Busy /\ q.shown < nextToken /\ nextToken \in Nat /\ q.shown \in Nat
  <2>1. q \in Busy /\ Bounded(q, nextToken, nextMail) /\ nextToken \in Nat
    BY <1>1, BusyRequest, CountersStay DEF RequestsHold
  <2> HIDE DEF q
  <2>2. QED
    BY <2>1, AccountsAssumption DEF Bounded, Busy
<1>3. Gone(q, tokens)
  OBVIOUS
<1> HIDE DEF q
<1>4. CASE q.what = "logout" /\ devices
  <2>1. Ended(q) = {q.shown} /\ \A t \in tokens : t.id # q.shown
    BY <1>1, <1>3, <1>4 DEF Ended, Gone
  <2>2. QED
    BY <1>2, <2>1 DEF q
<1>5. CASE q.what \in {"logout", "change", "confirmChange", "delete"} /\ ~(q.what = "logout" /\ devices)
  <2>1. Ended(q) = {i \in 1..(nextToken - 1) : ~\E t \in tokens : t.id = i /\ t.user # q.id}
    BY <1>5 DEF Ended
  <2>2. \A t \in tokens : t.user # q.id
    BY <1>1, <1>3, <1>5 DEF Gone
  <2>3. QED
    BY <1>2, <2>1, <2>2 DEF q
<1>6. CASE q.what = "refresh"
  <2>1. Ended(q) = {q.shown} /\ \A t \in tokens : t.id # q.shown
    BY <1>1, <1>3, <1>6 DEF Ended, Gone, Signing
  <2>2. QED
    BY <1>2, <2>1 DEF q
<1>7. CASE q.what \notin {"logout", "change", "confirmChange", "delete", "refresh"}
  <2>1. Ended(q) = {}
    BY <1>7 DEF Ended
  <2>2. QED
    BY <2>1 DEF q
<1>8. QED
  BY <1>4, <1>5, <1>6, <1>7

\* With one request at a time the others are idle, and stay so.
LEMMA OthersIdle ==
  ASSUME OneByOne, mode = "solo", NEW r \in Reqs, req[r] # Idle
  PROVE  \A s \in Reqs \ {r} : req[s] = Idle
BY DEF OneByOne

\* It is enough that the tokens and the counters do not grow, that nothing is
\* revoked, and that a request that is still there has moved from one that was.
LEMMA RevokingStays ==
  ASSUME RequestsHold, Revoking, revoked' = revoked, mode' = mode, devices' = devices,
         nextToken' = nextToken,
         mode = "solo" => tokens' \subseteq tokens /\ \A s \in Reqs : req'[s] \in {req[s], Idle}
  PROVE  Revoking'
<1>1. revoked' \subseteq 0..(nextToken' - 1)
  BY DEF Revoking
<1>2. ASSUME mode = "solo", NEW s \in Reqs, req'[s] # Idle
      PROVE  Gone(req[s], tokens')
  <2>1. Gone(req[s], tokens)
    BY <1>2 DEF Revoking
  <2>2. QED
    BY <1>2, <2>1 DEF Gone
<1>3. QED
  BY <1>1, <1>2 DEF Revoking, Gone

LEMMA RevokingByAdvance ==
  ASSUME TypesHold, OneByOne, Revoking, NEW r \in Reqs, Advance(r)
  PROVE  Revoking'
<1> DEFINE q == req[r]
           x == req'[r]
           step == Head(q.todo)
<1>1. q # Idle /\ Moved(q, x) /\ OnlyThis(r)
  BY AdvanceMoves DEF TypesHold, RequestsHold
<1>2. q \in Busy /\ OnPath(q) /\ Bounded(q, nextToken, nextMail) /\ nextToken \in Nat
  BY <1>1, BusyRequest, CountersStay DEF TypesHold
<1>3. /\ revoked' = revoked /\ mode' = mode /\ devices' = devices
      /\ \A t \in tokens' : t \in tokens \/ (step = "issue" /\ t.id = nextToken)
      /\ nextToken' = nextToken \/ nextToken' = nextToken + 1
      /\ step = "drop" => \A t \in tokens' : t.id # q.shown
      /\ step \in {"revoke", "delete"} => \A t \in tokens' : t.user # q.id
  BY TokensOfStep
<1>4. /\ revoked \subseteq 0..(nextToken - 1) /\ q.shown # nextToken
      /\ \A i \in revoked : i # nextToken
  <2>1. revoked \subseteq 0..(nextToken - 1)
    BY DEF Revoking
  <2>2. q.shown # nextToken
    <3> HIDE DEF q
    <3>1. q.shown \in Nat
      BY <1>2, AccountsAssumption DEF Busy
    <3>2. QED
      BY <1>2, <3>1 DEF Bounded
  <2>3. QED
    BY <1>2, <2>1, <2>2
<1>5. revoked' \subseteq 0..(nextToken' - 1)
  BY <1>2, <1>3, <1>4
<1>6. ASSUME mode = "solo"
      PROVE  /\ \A t \in tokens' : t.id \notin revoked
             /\ \A s \in Reqs : req'[s] # Idle => s = r /\ Gone(x, tokens')
  <2>1. Gone(q, tokens) /\ \A t \in tokens : t.id \notin revoked
    BY <1>1, <1>6 DEF Revoking
  <2>2. \A t \in tokens' : t.id \notin revoked
    BY <1>3, <1>4, <2>1
  <2>3. \A s \in Reqs \ {r} : req'[s] = Idle
    BY <1>1, <1>6, OthersIdle DEF OnlyThis
  <2>4. x # Idle => Gone(x, tokens')
    <3>1. \A t \in tokens' : t \in tokens \/ (Head(q.todo) = "issue" /\ t.id # q.shown)
      BY <1>3, <1>4
    <3>2. /\ Head(q.todo) = "drop" => \A t \in tokens' : t.id # q.shown
          /\ Head(q.todo) \in {"revoke", "delete"} => \A t \in tokens' : t.user # q.id
      BY <1>3
    <3> HIDE DEF q, x
    <3>3. QED
      BY <1>1, <1>2, <2>1, <3>1, <3>2, GoneMoves
  <2>5. QED
    BY <2>2, <2>3, <2>4
<1>7. QED
  BY <1>3, <1>5, <1>6 DEF Revoking, Gone

LEMMA RevokingByAnswer ==
  ASSUME TypesHold, OneByOne, Revoking, NEW r \in Reqs, Answer(r)
  PROVE  Revoking'
<1>1. /\ At(r, "answer") /\ req[r] # Idle /\ End(r, "ok") /\ tokens' = tokens /\ nextToken' = nextToken
      /\ mode' = mode /\ revoked' = IF mode = "solo" THEN revoked \cup Ended(req[r]) ELSE revoked
  BY DEF Answer, At, Same, config
<1>2. CASE mode # "solo"
  BY <1>1, <1>2 DEF Revoking
<1>3. CASE mode = "solo"
  <2>1. Gone(req[r], tokens) /\ revoked \subseteq 0..(nextToken - 1) /\ \A t \in tokens : t.id \notin revoked
    BY <1>1, <1>3 DEF Revoking
  <2>2. Ended(req[r]) \subseteq 0..(nextToken - 1) /\ \A t \in tokens : t.id \notin Ended(req[r])
    BY <1>1, <2>1, AnswerRevokes DEF TypesHold, RequestsHold
  <2>3. \A s \in Reqs : req'[s] = Idle
    BY <1>1, <1>3, OthersIdle, EndMoves DEF OnlyThis, TypesHold
  <2>4. revoked' = revoked \cup Ended(req[r])
    BY <1>1, <1>3
  <2>5. QED
    BY <1>1, <2>1, <2>2, <2>3, <2>4 DEF Revoking
<1>4. QED
  BY <1>2, <1>3

LEMMA RevokingByFails ==
  ASSUME TypesHold, OneByOne, Revoking, NEW r \in Reqs, Fails(r)
  PROVE  Revoking'
<1>1. /\ req[r] # Idle /\ tokens' = tokens /\ nextToken' = nextToken /\ revoked' = revoked
      /\ mode' = mode /\ devices' = devices
      /\ \/ Head(req[r].todo) = "mail" /\ Go(r)
         \/ End(r, "failed")
  BY DEF Fails, At, config, rows
<1>2. CASE End(r, "failed")
  <2>1. \A s \in Reqs : req'[s] \in {req[s], Idle}
    BY <1>2, EndMoves DEF OnlyThis, TypesHold
  <2>2. QED
    BY <1>1, <2>1, RevokingStays DEF TypesHold, RequestsHold
<1>3. CASE Head(req[r].todo) = "mail" /\ Go(r)
  <2> DEFINE q == req[r]
             x == req'[r]
  <2>1. Moved(q, x) /\ OnlyThis(r) /\ OnPath(q)
    <3>1. Head(req[r].todo) \notin Ends
      BY <1>3 DEF Ends
    <3>2. QED
      BY <1>1, <1>3, <3>1, GoMoves, BusyRequest DEF TypesHold
  <2>2. ASSUME mode = "solo"
        PROVE  /\ \A t \in tokens : t.id \notin revoked
               /\ \A s \in Reqs : req'[s] # Idle => s = r /\ Gone(x, tokens)
    <3>1. Gone(q, tokens) /\ \A t \in tokens : t.id \notin revoked
      BY <1>1, <2>2 DEF Revoking
    <3>2. \A s \in Reqs \ {r} : req'[s] = Idle
      BY <1>1, <2>1, <2>2, OthersIdle DEF OnlyThis
    <3>3. x # Idle => Gone(x, tokens)
      <4>1. Head(q.todo) = "mail"
        BY <1>3
      <4> HIDE DEF q, x
      <4>2. QED
        BY <2>1, <3>1, <4>1, GoneMoves
    <3>4. QED
      BY <3>1, <3>2, <3>3
  <2>3. QED
    BY <1>1, <2>2 DEF Revoking, Gone
<1>4. QED
  BY <1>1, <1>2, <1>3

LEMMA RevokingNext ==
  ASSUME TypesHold, OneByOne, Revoking, [Next]_all
  PROVE  Revoking'
<1>1. ASSUME NEW r \in Reqs, Requests(r) PROVE Revoking'
  <2>1. PICK q \in Busy : Begun(q) /\ Accept(r, q)
    BY <1>1, RequestsBegin DEF TypesHold
  <2>2. /\ req' = [req EXCEPT ![r] = q] /\ Gone(q, tokens) /\ tokens' = tokens /\ nextToken' = nextToken
        /\ revoked' = revoked /\ mode' = mode /\ devices' = devices
    BY <2>1 DEF Accept, Put, Begun, config, rows
  <2>3. ASSUME NEW s \in Reqs, mode = "solo", req'[s] # Idle PROVE Gone(req'[s], tokens)
    BY <2>2, <2>3 DEF Revoking, TypesHold, RequestsOK
  <2>4. QED
    BY <2>2, <2>3 DEF Revoking, Gone
<1>2. ASSUME NEW r \in Reqs, Step(r) \/ Answered(r) \/ Refreshed(r) PROVE Revoking'
  BY <1>2, RevokingByAdvance, RevokingByAnswer DEF Step, Answered, Refreshed
<1>3. ASSUME NEW r \in Reqs, AnswerLost(r) PROVE Revoking'
  <2>1. End(r, "ok") /\ UNCHANGED <<revoked, mode, devices, nextToken, tokens>>
    BY <1>3 DEF AnswerLost, Rest, config, rows
  <2>2. \A s \in Reqs : req'[s] \in {req[s], Idle}
    BY <2>1, EndMoves DEF OnlyThis, TypesHold
  <2>3. QED
    BY <2>1, <2>2, RevokingStays DEF TypesHold, RequestsHold
<1>4. CASE Trouble
  <2>1. CASE \E r \in Reqs : Fails(r)
    BY <2>1, RevokingByFails
  <2>2. CASE \/ Restart \/ RedisSwitches
             \/ \E t \in tokens : TokenExpires(t)
             \/ \E k \in inRedis \cup inMemory : MailExpires(k)
    <3>1. /\ UNCHANGED <<revoked, mode, devices, nextToken>> /\ tokens' \subseteq tokens
          /\ \A s \in Reqs : req'[s] \in {req[s], Idle}
      BY <2>2 DEF Restart, RedisSwitches, TokenExpires, MailExpires, config, rows
    <3>2. QED
      BY <3>1, RevokingStays DEF TypesHold, RequestsHold
  <2>3. QED
    BY <1>4, <2>1, <2>2 DEF Trouble, Around
<1>5. ASSUME NEW c \in Calls, RefreshOnce(c) PROVE Revoking'
  <2>1. Web
    BY <1>5 DEF RefreshOnce, OneByOne, NoCall
  <2>2. mode # "solo" /\ UNCHANGED <<revoked, mode, nextToken>>
    BY <1>5, <2>1 DEF Web, RefreshOnce, Rest, config, rows
  <2>3. QED
    BY <2>2 DEF Revoking
<1>6. ASSUME NEW c \in Calls, Serve(c) \/ Return(c) \/ \E t \in Tabs : Send(c, t) PROVE Revoking'
  <2>1. UNCHANGED <<revoked, mode, devices, nextToken, tokens, req>>
    BY <1>6 DEF Serve, Return, Send, Rest, config, rows
  <2>2. QED
    BY <2>1, RevokingStays DEF TypesHold, RequestsHold
<1>7. CASE (\E t \in Tabs : Abort(t)) \/ AccessExpires \/ UNCHANGED all
  <2>1. UNCHANGED <<revoked, mode, devices, nextToken, tokens, req>>
    BY <1>7 DEF Abort, AccessExpires, all, vars, Rest, config, rows
  <2>2. QED
    BY <2>1, RevokingStays DEF TypesHold, RequestsHold
<1>8. CASE SessionEnds
  <2>1. mode # "solo" /\ UNCHANGED <<revoked, mode, nextToken>>
    BY <1>8 DEF SessionEnds, Web, config
  <2>2. QED
    BY <2>1 DEF Revoking
<1>9. QED
  BY <1>1, <1>2, <1>3, <1>4, <1>5, <1>6, <1>7, <1>8 DEF Next

------------------------------------------------------------------------------
(* One-time tokens.                                                         *)

\* The store of the mails stays, requests end or go on, or something fails.
LEMMA OneTimeStays ==
  ASSUME OneTime, UNCHANGED <<mode, nextMail, used, expired>>,
         \/ mode # "solo"
         \/ faults' # 0
         \/ /\ UNCHANGED <<redis, inRedis, inMemory, faults>>
            /\ \A s \in Reqs : \/ req'[s] \in {req[s], Idle}
                               \/ /\ req[s] # Idle /\ req'[s].what = req[s].what /\ req'[s].key = req[s].key
                                  /\ Head(req[s].todo) # "answer"
  PROVE  OneTime'
BY DEF OneTime, Mails

\* A mail has a number, and an answer to its link comes once it is burnt.
LEMMA MailFacts ==
  ASSUME RequestsHold, NEW r \in Reqs, Burn(r)
  PROVE  LET q == req[r] IN
         /\ q # Idle /\ q.what \in {"reset", "confirm", "confirmChange"} /\ Head(q.todo) = "burn"
         /\ q.key.id \in 1..(nextMail - 1)
         /\ OnlyThis(r) /\ Head(req'[r].todo) = "answer"
<1> DEFINE q == req[r]
           x == req'[r]
<1>1. q # Idle /\ Head(q.todo) = "burn" /\ Go(r)
  BY DEF Burn, At
<1>2. /\ q \in Busy /\ Has(q) /\ Bounded(q, nextToken, nextMail) /\ Head(q.todo) \in StepsOf(q.what)
      /\ nextMail \in Nat
  BY <1>1, BusyRequest, CountersStay DEF RequestsHold
<1>3. OnlyThis(r) /\ x # Idle /\ Moved(q, x)
  <2>1. Head(req[r].todo) \notin Ends
    BY <1>1 DEF Ends
  <2>2. QED
    BY <1>1, <2>1, GoMoves DEF RequestsHold
<1> HIDE DEF x, q
<1>4. q.what \in {"reset", "confirm", "confirmChange"}
  BY <1>1, <1>2 DEF StepsOf, Signing, Busy, Whats
<1>5. q.key \in Mail
  BY <1>2, <1>4 DEF Has
<1>6. q.key # NoUser
  <2>1. "id" \notin DOMAIN NoUser
    BY DEF NoUser
  <2>2. "id" \in DOMAIN q.key
    BY <1>5 DEF Mail
  <2>3. QED
    BY <2>1, <2>2
<1>7. q.key.id \in 1..(nextMail - 1)
  <2>1. q.key.id \in Nat /\ q.key.id >= 1
    BY <1>5, AccountsAssumption DEF Mail
  <2>2. q.key.id < nextMail
    BY <1>2, <1>6 DEF Bounded
  <2>3. QED
    BY <1>2, <2>1, <2>2
<1>8. Head(x.todo) = "answer"
  <2>1. q.what # "google"
    BY <1>4
  <2>2. QED
    BY <1>1, <1>3, <2>1 DEF Moved, Then
<1>9. QED
  BY <1>1, <1>3, <1>4, <1>7, <1>8 DEF q, x

LEMMA OneTimeBySend ==
  ASSUME TypesHold, OneByOne, OneTime, NEW r \in Reqs, SendMail(r)
  PROVE  OneTime'
<1> DEFINE k == MailKey(req[r])
<1>1. /\ k.id = nextMail /\ nextMail \in Nat /\ nextMail >= 1 /\ nextMail' = nextMail + 1
      /\ UNCHANGED <<mode, redis, used, expired, faults>>
      /\ IF redis THEN inRedis' = inRedis \cup {k} /\ inMemory' = inMemory
         ELSE inMemory' = inMemory \cup {k} /\ inRedis' = inRedis
  BY DEF SendMail, MailKey, Same, config, TypesHold, RowsOK
<1>2. req[r] # Idle /\ Moved(req[r], req'[r]) /\ OnlyThis(r) /\ Head(req[r].todo) = "mail"
  <2>1. Head(req[r].todo) = "mail"
    BY DEF SendMail, At
  <2>2. QED
    BY <2>1, PlainMoves DEF TypesHold, RequestsHold
<1> HIDE DEF k
<1>3. used' \cup expired' \subseteq 1..(nextMail' - 1)
  BY <1>1 DEF OneTime
<1>4. ASSUME mode = "solo", faults = 0
      PROVE  /\ inRedis' = {} \/ inMemory' = {}
             /\ inRedis' \cup inMemory' = Mails' /\ Mails' = Mails \cup {k}
             /\ \A j, l \in Mails' : j.id = l.id => j = l
             /\ {j.id : j \in Mails'} = 1..(nextMail' - 1) \ (used' \cup expired')
             /\ \A s \in Reqs : req'[s] # Idle /\ req'[s].what \in {"reset", "confirm", "confirmChange"}
                              /\ Head(req'[s].todo) # "answer" => req'[s].key \in Mails'
  <2>1. /\ inRedis = {} \/ inMemory = {}
        /\ inRedis \cup inMemory = Mails
        /\ \A j, l \in Mails : j.id = l.id => j = l
        /\ {j.id : j \in Mails} = 1..(nextMail - 1) \ (used \cup expired)
        /\ \A s \in Reqs : req[s] # Idle /\ req[s].what \in {"reset", "confirm", "confirmChange"}
                              /\ Head(req[s].todo) # "answer" => req[s].key \in Mails
        /\ used \cup expired \subseteq 1..(nextMail - 1)
    BY <1>4 DEF OneTime
  <2>2. /\ Mails' = Mails \cup {k} /\ inRedis' \cup inMemory' = Mails'
        /\ inRedis' = {} \/ inMemory' = {}
    BY <1>1, <2>1 DEF Mails
  <2>3. \A j \in Mails : j.id < nextMail /\ j.id # k.id
    <3>1. \A j \in inRedis \cup inMemory : j.id < nextMail /\ j \in Mail
      BY DEF TypesHold, RowsOK
    <3>2. \A j \in Mails : j.id < nextMail /\ j.id \in Nat
      BY <2>1, <3>1, AccountsAssumption DEF Mail
    <3>3. QED
      BY <1>1, <3>2
  <2>4. \A j, l \in Mails' : j.id = l.id => j = l
    BY <2>1, <2>2, <2>3
  <2>5. {j.id : j \in Mails'} = 1..(nextMail' - 1) \ (used' \cup expired')
    <3>1. {j.id : j \in Mails'} = {j.id : j \in Mails} \cup {nextMail}
      BY <1>1, <2>2
    <3>2. 1..(nextMail' - 1) = 1..(nextMail - 1) \cup {nextMail}
      BY <1>1
    <3>3. nextMail \notin used \cup expired
      BY <1>1, <2>1
    <3>4. QED
      BY <1>1, <2>1, <3>1, <3>2, <3>3
  <2>6. ASSUME NEW s \in Reqs, req'[s] # Idle, req'[s].what \in {"reset", "confirm", "confirmChange"},
               Head(req'[s].todo) # "answer"
        PROVE  req'[s].key \in Mails'
    <3>1. CASE s = r
      <4>1. req[r].what = req'[r].what /\ req[r].key = req'[r].key /\ Head(req[r].todo) # "answer"
        BY <1>2, <2>6, <3>1 DEF Moved
      <4>2. QED
        BY <1>2, <2>1, <2>2, <2>6, <3>1, <4>1
    <3>2. CASE s # r
      BY <1>2, <2>1, <2>2, <2>6, <3>2 DEF OnlyThis
    <3>3. QED
      BY <3>1, <3>2
  <2>7. QED
    BY <2>2, <2>4, <2>5, <2>6
<1>5. QED
  BY <1>1, <1>3, <1>4 DEF OneTime

\* A mail that is redeemed, or too old, is no longer in the store.
LEMMA MailGoes ==
  ASSUME OneTime, mode = "solo", faults = 0, NEW k \in Mails, redis' = redis, nextMail' = nextMail,
         inMemory' = inMemory \ {k}, inRedis' \in {inRedis, inRedis \ {k}}, redis => inRedis' = inRedis \ {k},
         used' \cup expired' = used \cup expired \cup {k.id}
  PROVE  /\ inRedis' = {} \/ inMemory' = {}
         /\ inRedis' \cup inMemory' = Mails' /\ Mails' = Mails \ {k}
         /\ \A j, l \in Mails' : j.id = l.id => j = l
         /\ {j.id : j \in Mails'} = 1..(nextMail' - 1) \ (used' \cup expired')
<1>1. /\ inRedis = {} \/ inMemory = {}
      /\ inRedis \cup inMemory = Mails
      /\ \A j, l \in Mails : j.id = l.id => j = l
      /\ {j.id : j \in Mails} = 1..(nextMail - 1) \ (used \cup expired)
  BY DEF OneTime
<1>2. /\ Mails' = Mails \ {k} /\ inRedis' \cup inMemory' = Mails'
      /\ inRedis' = {} \/ inMemory' = {}
  BY <1>1 DEF Mails
<1>3. {j.id : j \in Mails'} = {j.id : j \in Mails} \ {k.id}
  BY <1>1, <1>2
<1>4. QED
  BY <1>1, <1>2, <1>3

LEMMA OneTimeByBurn ==
  ASSUME TypesHold, OneByOne, OneTime, NEW r \in Reqs, Burn(r)
  PROVE  OneTime'
<1> DEFINE q == req[r]
           k == q.key
<1>1. /\ q # Idle /\ q.what \in {"reset", "confirm", "confirmChange"} /\ Head(q.todo) = "burn"
      /\ k.id \in 1..(nextMail - 1)
      /\ OnlyThis(r) /\ Head(req'[r].todo) = "answer"
  BY MailFacts DEF TypesHold, RequestsHold
<1>2. /\ UNCHANGED <<mode, redis, nextMail, expired, faults>> /\ used' = used \cup {k.id}
      /\ inRedis' = (IF redis THEN inRedis \ {k} ELSE inRedis) /\ inMemory' = inMemory \ {k}
  BY DEF Burn, Same, config
<1> HIDE DEF k
<1>3. used' \cup expired' \subseteq 1..(nextMail' - 1)
  BY <1>1, <1>2 DEF OneTime
<1>4. ASSUME mode = "solo", faults = 0
      PROVE  /\ inRedis' = {} \/ inMemory' = {}
             /\ inRedis' \cup inMemory' = Mails'
             /\ \A j, l \in Mails' : j.id = l.id => j = l
             /\ {j.id : j \in Mails'} = 1..(nextMail' - 1) \ (used' \cup expired')
             /\ \A s \in Reqs : req'[s] # Idle /\ req'[s].what \in {"reset", "confirm", "confirmChange"}
                              /\ Head(req'[s].todo) # "answer" => req'[s].key \in Mails'
  <2>1. k \in Mails
    BY <1>1, <1>4 DEF OneTime, k
  <2>2. inRedis' \in {inRedis, inRedis \ {k}} /\ (redis => inRedis' = inRedis \ {k})
    BY <1>2
  <2>3. used' \cup expired' = used \cup expired \cup {k.id}
    BY <1>2
  <2>4. \A s \in Reqs \ {r} : req'[s] = Idle
    BY <1>1, <1>4, OthersIdle DEF OnlyThis
  <2>5. QED
    BY <1>1, <1>2, <1>4, <2>1, <2>2, <2>3, <2>4, MailGoes
<1>5. QED
  BY <1>2, <1>3, <1>4 DEF OneTime

LEMMA OneTimeByExpiry ==
  ASSUME TypesHold, OneTime, NEW k \in inRedis \cup inMemory, MailExpires(k)
  PROVE  OneTime'
<1>1. /\ mode = "solo" /\ \A r \in Reqs : req'[r] = Idle
      /\ inRedis' = inRedis \ {k} /\ inMemory' = inMemory \ {k} /\ expired' = expired \cup {k.id}
      /\ UNCHANGED <<mode, redis, nextMail, used, faults>>
  BY DEF MailExpires, MayStart, Quiet, config
<1>2. k.id \in 1..(nextMail - 1)
  <2>1. k \in Mail /\ k.id < nextMail /\ nextMail \in Nat
    BY CountersStay DEF TypesHold, RowsOK
  <2>2. k.id \in Nat /\ k.id >= 1
    BY <2>1, AccountsAssumption DEF Mail
  <2>3. QED
    BY <2>1, <2>2
<1>3. used' \cup expired' \subseteq 1..(nextMail' - 1)
  BY <1>1, <1>2 DEF OneTime
<1>4. CASE faults = 0
  <2>1. k \in Mails
    BY <1>1, <1>4 DEF OneTime
  <2>2. used' \cup expired' = used \cup expired \cup {k.id}
    BY <1>1
  <2>3. /\ inRedis' = {} \/ inMemory' = {}
        /\ inRedis' \cup inMemory' = Mails'
        /\ \A j, l \in Mails' : j.id = l.id => j = l
        /\ {j.id : j \in Mails'} = 1..(nextMail' - 1) \ (used' \cup expired')
    BY <1>1, <1>4, <2>1, <2>2, MailGoes
  <2>4. QED
    BY <1>1, <1>3, <2>3 DEF OneTime
<1>5. CASE faults # 0
  BY <1>1, <1>3, <1>5 DEF OneTime
<1>6. QED
  BY <1>4, <1>5

LEMMA OneTimeByAdvance ==
  ASSUME TypesHold, OneByOne, OneTime, NEW r \in Reqs, Advance(r)
  PROVE  OneTime'
<1>1. CASE SendMail(r)
  BY <1>1, OneTimeBySend
<1>2. CASE Burn(r)
  BY <1>2, OneTimeByBurn
<1>3. CASE ~SendMail(r) /\ ~Burn(r)
  <2>1. UNCHANGED store
    BY <1>3 DEF Advance, Taken, Owners, Read, Insert, Save, Find, FindAgain, Purge, Issue, Validate, Drop,
                Revoke, Delete
  <2>2. /\ UNCHANGED <<mode, faults>> /\ req[r] # Idle /\ Moved(req[r], req'[r]) /\ OnlyThis(r)
    BY TokensOfStep, AdvanceMoves DEF TypesHold, RequestsHold
  <2>3. UNCHANGED <<redis, inRedis, inMemory, nextMail, used, expired>>
    BY <2>1 DEF store
  <2>4. ASSUME NEW s \in Reqs
        PROVE  \/ req'[s] \in {req[s], Idle}
               \/ /\ req[s] # Idle /\ req'[s].what = req[s].what /\ req'[s].key = req[s].key
                  /\ Head(req[s].todo) # "answer"
    BY <2>2 DEF OnlyThis, Moved, Ends
  <2>5. QED
    BY <2>2, <2>3, <2>4, OneTimeStays
<1>4. QED
  BY <1>1, <1>2, <1>3

LEMMA OneTimeNext ==
  ASSUME TypesHold, OneByOne, OneTime, [Next]_all
  PROVE  OneTime'
<1>1. ASSUME NEW r \in Reqs, Requests(r) PROVE OneTime'
  <2>1. PICK q \in Busy : Begun(q) /\ Accept(r, q)
    BY <1>1, RequestsBegin DEF TypesHold
  <2>2. /\ req' = [req EXCEPT ![r] = q]
        /\ q.what \in {"reset", "confirm", "confirmChange"} => q.key \in Mails
        /\ UNCHANGED <<mode, redis, inRedis, inMemory, nextMail, used, expired, faults>>
    BY <2>1 DEF Accept, Put, Begun, config, store
  <2>3. QED
    BY <2>2 DEF OneTime, Mails, TypesHold, RequestsOK
<1>2. ASSUME NEW r \in Reqs, Step(r) PROVE OneTime'
  BY <1>2, OneTimeByAdvance DEF Step
<1>3. ASSUME NEW r \in Reqs, Answered(r) \/ Refreshed(r) \/ AnswerLost(r) PROVE OneTime'
  <2>1. End(r, "ok") /\ UNCHANGED <<mode, redis, inRedis, inMemory, nextMail, used, expired>>
    BY <1>3 DEF Answered, Refreshed, AnswerLost, Answer, Rest, Same, config, store
  <2>2. \A s \in Reqs : req'[s] \in {req[s], Idle}
    BY <2>1, EndMoves DEF OnlyThis, TypesHold
  <2>3. faults' = faults \/ faults' # 0
    BY <1>3 DEF Answered, Refreshed, AnswerLost, Answer, Same, TypesHold, RowsOK
  <2>4. QED
    BY <2>1, <2>2, <2>3, OneTimeStays
<1>4. CASE Trouble
  <2>1. CASE (\E r \in Reqs : Fails(r)) \/ Restart \/ RedisSwitches
    <3>1. faults' = faults + 1 /\ faults \in Nat /\ UNCHANGED <<mode, nextMail, used, expired>>
      BY <2>1 DEF Fails, Restart, RedisSwitches, config, store, TypesHold, RowsOK
    <3>2. faults' # 0
      BY <3>1
    <3>3. QED
      BY <3>1, <3>2, OneTimeStays
  <2>2. CASE \E t \in tokens : TokenExpires(t)
    BY <2>2, OneTimeStays DEF TokenExpires, config, store
  <2>3. CASE \E k \in inRedis \cup inMemory : MailExpires(k)
    BY <2>3, OneTimeByExpiry
  <2>4. QED
    BY <1>4, <2>1, <2>2, <2>3 DEF Trouble, Around
<1>5. ASSUME NEW c \in Calls, RefreshOnce(c) PROVE OneTime'
  <2>1. Web
    BY <1>5 DEF RefreshOnce, OneByOne, NoCall
  <2>2. mode # "solo" /\ UNCHANGED <<mode, nextMail, used, expired>>
    BY <1>5, <2>1 DEF Web, RefreshOnce, Rest, config, store
  <2>3. QED
    BY <2>2, OneTimeStays
<1>6. ASSUME NEW c \in Calls, Serve(c) \/ Return(c) \/ \E t \in Tabs : Send(c, t) PROVE OneTime'
  <2>1. UNCHANGED <<mode, nextMail, used, expired, redis, inRedis, inMemory, faults, req>>
    BY <1>6 DEF Serve, Return, Send, Rest, config, store
  <2>2. QED
    BY <2>1, OneTimeStays
<1>9. ASSUME NEW t \in Tabs, Abort(t) PROVE OneTime'
  <2>1. UNCHANGED <<mode, nextMail, used, expired, redis, inRedis, inMemory, req>>
    BY <1>9 DEF Abort, Rest, config, store
  <2>2. faults \in Nat /\ (faults' = faults \/ faults' = faults + 1)
    BY <1>9 DEF Abort, TypesHold, RowsOK
  <2>3. faults' = faults \/ faults' # 0
    BY <2>2
  <2>4. QED
    BY <2>1, <2>3, OneTimeStays
<1>7. CASE AccessExpires \/ SessionEnds \/ UNCHANGED all
  <2>1. UNCHANGED <<mode, nextMail, used, expired, redis, inRedis, inMemory, faults, req>>
    BY <1>7 DEF AccessExpires, SessionEnds, all, vars, Rest, config, store
  <2>2. QED
    BY <2>1, OneTimeStays
<1>8. QED
  BY <1>1, <1>2, <1>3, <1>4, <1>5, <1>6, <1>7, <1>9 DEF Next

LEMMA SoloBegins == Init => SoloHolds
<1> SUFFICES ASSUME Init PROVE SoloHolds
  OBVIOUS
<1>1. /\ inRedis = {} /\ inMemory = {} /\ nextMail = 1 /\ revoked = {} /\ used = {} /\ expired = {}
      /\ req = [r \in Reqs |-> Idle] /\ call = [c \in Calls |-> NoCall] /\ TypesHold
  BY TypesBegin DEF Init
<1>2. \A r \in Reqs : req[r] = Idle
  BY <1>1
<1>3. OneByOne
  BY <1>1 DEF OneByOne
<1>4. Revoking
  BY <1>1, <1>2, CountersStay DEF Revoking, TypesHold
<1>5. OneTime
  BY <1>1, <1>2 DEF OneTime, Mails
<1>6. QED
  BY <1>3, <1>4, <1>5 DEF SoloHolds

LEMMA SoloNext == TypesHold /\ SoloHolds /\ [Next]_all => SoloHolds'
BY OneByOneNext, RevokingNext, OneTimeNext DEF SoloHolds

\* A refresh token that was to be revoked is good for nothing once the request
\* that revokes it is answered: a log out, a new email, a deletion and a refresh,
\* whichever of them fail or are cut off by a restart on the way.
THEOREM RevokedTokens == Fair => []RevokedStayRevoked
<1>1. Revoking => RevokedStayRevoked
  BY DEF Revoking, RevokedStayRevoked
<1>2. QED
  BY <1>1, TypesBegin, TypesNext, SoloBegins, SoloNext, PTL DEF Fair, SoloHolds

\* The link of a mail can be followed to the end once: its token is in the store
\* as long as it has not been redeemed and is not too old, and never after.
THEOREM MailLinks == Fair => []OneTimeTokens
<1>1. OneTime => OneTimeTokens
  BY DEF OneTime, OneTimeTokens, Mails
<1>2. QED
  BY <1>1, TypesBegin, TypesNext, SoloBegins, SoloNext, PTL DEF Fair, SoloHolds

------------------------------------------------------------------------------
(* Logins with one Google account.                                          *)

\* Every row is the account's, so it is found, and unique.
LEMMA GoogleRows ==
  ASSUME TypesHold, GoogleHolds, mode = "google"
  PROVE  /\ ByEmail(GoogleEmail) = Ids /\ Of = Ids
         /\ \A row, u : row.email = GoogleEmail /\ Ids \subseteq {u} => Unique(row, u)
         /\ \A row : row.email = GoogleEmail /\ Unique(row, 0) => Ids = {}
         /\ \A u \in Ids : users[u] \in User /\ u \in Id /\ ~users[u].locked /\ Ids = {u}
<1>1. \A u \in Ids : users[u].email = GoogleEmail /\ ~users[u].locked
  BY DEF GoogleHolds
<1>2. ByEmail(GoogleEmail) = Ids /\ Linked \subseteq Ids
  BY <1>1 DEF ByEmail, Linked
<1>3. Of = Ids
  BY <1>2 DEF Of
<1>4. \A u \in Ids : u \in Id /\ u # 0 /\ Ids = {u} /\ users[u] \in User
  BY AccountsAssumption DEF GoogleHolds, Ids, Id, TypesHold, RowsOK
<1>5. QED
  BY <1>1, <1>2, <1>3, <1>4 DEF Unique, Free

\* A login that goes on, in what users have become.
LEMMA GoogleGoesOn ==
  ASSUME GoogleHolds, mode = "google", NEW r \in Reqs, req[r] # Idle, OnlyThis(r),
         req'[r] # Idle, OfGoogle(req'[r], Ids', Linked'), mode' = mode, answer' = answer, requests' = requests,
         Ids \subseteq Ids', Linked # {} => Linked' # {},
         \A u, v \in Ids' : u = v,
         \A u \in Ids' : users'[u].email = GoogleEmail /\ ~users'[u].locked
  PROVE  GoogleHolds'
<1>1. ASSUME NEW s \in Reqs, req'[s] # Idle PROVE OfGoogle(req'[s], Ids', Linked')
  <2>1. CASE s = r
    BY <2>1
  <2>2. CASE s # r
    <3>1. req'[s] = req[s] /\ OfGoogle(req[s], Ids, Linked)
      BY <1>1, <2>2 DEF OnlyThis, GoogleHolds
    <3>2. QED
      BY <3>1 DEF OfGoogle
  <2>3. QED
    BY <2>1, <2>2
<1>2. ~Quiet'
  BY DEF Quiet
<1>3. \A s \in Reqs : answer'[s] # "failed"
  BY DEF GoogleHolds
<1>4. QED
  BY <1>1, <1>2, <1>3 DEF GoogleHolds, OfGoogle

\* Without a change to users.
LEMMA GoogleGoesOver ==
  ASSUME GoogleHolds, mode = "google", NEW r \in Reqs, req[r] # Idle, OnlyThis(r),
         req'[r] # Idle, OfGoogle(req'[r], Ids, Linked),
         mode' = mode, answer' = answer, requests' = requests, users' = users
  PROVE  GoogleHolds'
<1>1. Ids' = Ids /\ Linked' = Linked
  BY DEF Ids, Linked
<1>2. /\ \A u, v \in Ids' : u = v
      /\ \A u \in Ids' : users'[u].email = GoogleEmail /\ ~users'[u].locked
  BY <1>1 DEF GoogleHolds
<1>3. OfGoogle(req'[r], Ids', Linked')
  BY <1>1
<1>4. QED
  BY <1>1, <1>2, <1>3, GoogleGoesOn

LEMMA GoogleFinds ==
  ASSUME TypesHold, GoogleHolds, mode = "google", NEW r \in Reqs, Find(r) \/ FindAgain(r)
  PROVE  GoogleHolds'
<1>1. /\ req[r] # Idle /\ req[r].what = "google" /\ Head(req[r].todo) \in {"find", "merge"}
      /\ Moved(req[r], req'[r]) /\ OnlyThis(r)
      /\ \/ \E u \in Of : Merge(r, u)
         \/ /\ Find(r) /\ Of = {} /\ req'[r] # Idle /\ Head(req'[r].todo) = "insert"
            /\ req'[r].row = GoogleRow /\ answer' = answer
         \/ FindAgain(r) /\ Of = {} /\ End(r, "failed")
  BY FindMoves DEF TypesHold, RequestsHold
<1>2. mode' = mode /\ requests' = requests /\ users' = users
  BY DEF Find, FindAgain, Same, config
<1>3. ASSUME NEW u \in Of, Merge(r, u) PROVE GoogleHolds'
  <2>1. u \in Ids /\ users[u] \in User /\ ~users[u].locked /\ users[u].email = GoogleEmail
    BY GoogleRows DEF GoogleHolds
  <2>2. /\ req'[r] # Idle /\ Head(req'[r].todo) = "save" /\ answer' = answer
        /\ req'[r].id = u /\ req'[r].row = Merged(users[u])
    BY <1>1, <1>3, <2>1, MergeMoves DEF TypesHold
  <2>3. Merged(users[u]).email = GoogleEmail /\ Merged(users[u]).linked /\ ~Merged(users[u]).locked
    <3> DEFINE row == users[u]
    <3>1. row \in User /\ ~row.locked /\ row.email = GoogleEmail
      BY <2>1
    <3> HIDE DEF row
    <3>2. Merged(row).email = GoogleEmail /\ Merged(row).linked = TRUE /\ Merged(row).locked = row.locked
      BY <3>1 DEF Merged, User
    <3>3. QED
      BY <3>1, <3>2 DEF row
  <2>4. req'[r].what = "google"
    BY <1>1, <2>2 DEF Moved
  <2>5. OfGoogle(req'[r], Ids, Linked)
    BY <2>1, <2>2, <2>3, <2>4 DEF OfGoogle, Signing
  <2>6. QED
    BY <1>1, <1>2, <2>2, <2>5, GoogleGoesOver
<1>4. ASSUME req'[r] # Idle, Head(req'[r].todo) = "insert", req'[r].row = GoogleRow, answer' = answer
      PROVE  GoogleHolds'
  <2>1. OfGoogle(req'[r], Ids, Linked)
    BY <1>1, <1>4 DEF OfGoogle, Moved, Signing
  <2>2. QED
    BY <1>1, <1>2, <1>4, <2>1, GoogleGoesOver
<1>5. ~(FindAgain(r) /\ Of = {})
  <2>1. ASSUME FindAgain(r) PROVE Ids # {}
    BY <1>1, <2>1 DEF FindAgain, At, GoogleHolds, OfGoogle
  <2>2. QED
    BY <2>1, GoogleRows
<1>6. QED
  BY <1>1, <1>3, <1>4, <1>5

LEMMA GoogleInserts ==
  ASSUME TypesHold, GoogleHolds, mode = "google", NEW r \in Reqs, Insert(r)
  PROVE  GoogleHolds'
<1> DEFINE q == req[r]
           x == req'[r]
<1>1. /\ q # Idle /\ Head(q.todo) = "insert" /\ Moved(q, x) /\ OnlyThis(r)
      /\ Unique(q.row, 0) =>
              /\ x # Idle /\ x.id = nextUser /\ x.row = q.row /\ answer' = answer
              /\ Head(x.todo) = Then(q.what, "insert")
              /\ users' = [users EXCEPT ![nextUser] = q.row] /\ nextUser \in Id
      /\ ~Unique(q.row, 0) => users' = users
      /\ ~Unique(q.row, 0) /\ q.what = "google" => x # Idle /\ Head(x.todo) = "merge" /\ answer' = answer
  BY InsertMoves DEF TypesHold, RequestsHold
<1>2. mode' = mode /\ requests' = requests
  BY DEF Insert, config
<1>3. q.what = "google" /\ q.row = GoogleRow
  BY <1>1 DEF GoogleHolds, OfGoogle
<1>4. /\ GoogleRow.email = GoogleEmail /\ GoogleRow.linked /\ ~GoogleRow.locked /\ GoogleRow # NoUser
  BY DEF GoogleRow, NoUser
<1>5. x # Idle => x.what = "google"
  BY <1>1, <1>3 DEF Moved
<1>6. CASE Unique(q.row, 0)
  <2>1. Ids = {}
    BY <1>3, <1>4, <1>6, GoogleRows
  <2>2. users' = [users EXCEPT ![nextUser] = GoogleRow] /\ nextUser \in Id /\ users \in [Id -> User \cup {NoUser}]
    BY <1>1, <1>3, <1>6 DEF TypesHold, RowsOK
  <2>3. Ids' = {nextUser} /\ Linked' = {nextUser} /\ users'[nextUser] = GoogleRow
    <3>1. \A u \in Id : u # nextUser => users'[u] = NoUser
      BY <2>1, <2>2 DEF Ids
    <3>2. users'[nextUser] = GoogleRow
      BY <2>2
    <3>3. Ids' = {nextUser}
      BY <1>4, <2>2, <3>1, <3>2 DEF Ids
    <3>4. QED
      BY <1>4, <3>2, <3>3 DEF Linked
  <2>4. Head(x.todo) = "purge"
    BY <1>1, <1>3, <1>6 DEF Then
  <2>5. OfGoogle(x, Ids', Linked')
    BY <1>1, <1>5, <1>6, <2>3, <2>4 DEF OfGoogle
  <2>6. /\ \A u, v \in Ids' : u = v
        /\ \A u \in Ids' : users'[u].email = GoogleEmail /\ ~users'[u].locked
        /\ Ids \subseteq Ids' /\ Linked' # {}
    BY <1>4, <2>1, <2>3
  <2>7. QED
    BY <1>1, <1>2, <1>6, <2>5, <2>6, GoogleGoesOn
<1>7. CASE ~Unique(q.row, 0)
  <2>1. Ids # {}
    BY <1>3, <1>4, <1>7, GoogleRows
  <2>2. OfGoogle(x, Ids, Linked)
    BY <1>1, <1>3, <1>5, <1>7, <2>1 DEF OfGoogle, Signing
  <2>3. QED
    BY <1>1, <1>2, <1>3, <1>7, <2>2, GoogleGoesOver
<1>8. QED
  BY <1>6, <1>7

LEMMA GoogleSaves ==
  ASSUME TypesHold, GoogleHolds, mode = "google", NEW r \in Reqs, Save(r)
  PROVE  GoogleHolds'
<1> DEFINE q == req[r]
           x == req'[r]
<1>1. q # Idle /\ Head(q.todo) = "save" /\ mode' = mode /\ requests' = requests
  BY DEF Save, At, Same, config
<1>2. /\ q.what = "google" /\ q.id \in Ids /\ q.row.email = GoogleEmail /\ q.row.linked /\ ~q.row.locked
      /\ q.row \in User /\ q.id \in Id /\ Ids = {q.id}
  <2>1. q.what = "google" /\ q.id \in Ids /\ q.row.email = GoogleEmail /\ q.row.linked /\ ~q.row.locked
    BY <1>1 DEF GoogleHolds, OfGoogle
  <2>2. q.row \in User
    BY <1>1, BusyRequest DEF TypesHold, Has
  <2>3. QED
    BY <2>1, <2>2, GoogleRows
<1>3. Unique(q.row, q.id)
  BY <1>2, GoogleRows
<1>4. users' = [users EXCEPT ![q.id] = q.row] /\ Go(r) /\ users \in [Id -> User \cup {NoUser}]
  BY <1>3 DEF Save, TypesHold, RowsOK
<1>5. q.row # NoUser
  BY <1>2 DEF User, NoUser
<1>6. answer' = answer /\ Moved(q, x) /\ OnlyThis(r) /\ x # Idle /\ x.id = q.id
  <2>1. Head(req[r].todo) \notin Ends
    BY <1>1 DEF Ends
  <2>2. QED
    BY <1>1, <1>4, <2>1, GoMoves DEF TypesHold, Go
<1> HIDE DEF q, x
<1>7. Ids' = {q.id} /\ Linked' = {q.id} /\ users'[q.id] = q.row
  <2>1. \A u \in Id : u # q.id => users'[u] = NoUser
    BY <1>2, <1>4 DEF Ids
  <2>2. users'[q.id] = q.row
    BY <1>2, <1>4
  <2>3. Ids' = {q.id}
    BY <1>2, <1>5, <2>1, <2>2 DEF Ids
  <2>4. QED
    BY <1>2, <2>2, <2>3 DEF Linked
<1>8. x.what = "google" /\ Head(x.todo) = "purge"
  BY <1>1, <1>2, <1>6 DEF Moved, Then
<1>9. OfGoogle(x, Ids', Linked')
  BY <1>6, <1>7, <1>8 DEF OfGoogle
<1>10. /\ \A u, v \in Ids' : u = v
       /\ \A u \in Ids' : users'[u].email = GoogleEmail /\ ~users'[u].locked
       /\ Ids \subseteq Ids' /\ Linked' # {}
  BY <1>2, <1>7
<1>11. QED
  BY <1>1, <1>6, <1>9, <1>10, GoogleGoesOn DEF q, x

LEMMA GoogleSigns ==
  ASSUME TypesHold, GoogleHolds, mode = "google", NEW r \in Reqs, Purge(r) \/ Issue(r)
  PROVE  GoogleHolds'
<1> DEFINE q == req[r]
           x == req'[r]
<1>1. /\ q # Idle /\ Head(q.todo) \in {"purge", "issue"} /\ mode' = mode /\ requests' = requests
      /\ users' = users
  BY DEF Purge, Issue, At, Same, config
<1>2. q.what = "google" /\ q.id \in Ids /\ Linked # {}
  BY <1>1 DEF GoogleHolds, OfGoogle, Signing
<1>3. Moved(q, x) /\ OnlyThis(r) /\ x # Idle /\ x.id = q.id /\ answer' = answer
  <2>1. CASE Purge(r)
    BY <2>1, PlainMoves DEF Purge, Go, TypesHold, RequestsHold
  <2>2. CASE Issue(r)
    <3>1. users[q.id] # NoUser
      BY <1>2 DEF Ids
    <3>2. QED
      BY <2>2, <3>1, IssueMoves DEF TypesHold, RequestsHold
  <2>3. QED
    BY <2>1, <2>2
<1> HIDE DEF q, x
<1>4. x.what = "google" /\ Head(x.todo) \in {"issue", "answer"}
  BY <1>1, <1>2, <1>3 DEF Moved, Then
<1>5. OfGoogle(x, Ids, Linked)
  BY <1>2, <1>3, <1>4 DEF OfGoogle
<1>6. QED
  BY <1>1, <1>3, <1>5, GoogleGoesOver DEF q, x

LEMMA GoogleAdvances ==
  ASSUME TypesHold, GoogleHolds, mode = "google", NEW r \in Reqs, Advance(r)
  PROVE  GoogleHolds'
<1>1. req[r] # Idle /\ req[r].what = "google" /\ Head(req[r].todo) \in StepsOf(req[r].what)
  BY AdvanceMoves, BusyRequest DEF TypesHold, RequestsHold, GoogleHolds, OfGoogle
<1>2. Head(req[r].todo) \in {"find", "merge", "insert", "save"} \cup Signing
  BY <1>1 DEF StepsOf
<1>3. Find(r) \/ FindAgain(r) \/ Insert(r) \/ Save(r) \/ Purge(r) \/ Issue(r)
  BY <1>2 DEF Advance, Taken, Owners, Read, SendMail, Validate, Drop, Revoke, Delete, Burn, At, Signing
<1>4. QED
  BY <1>3, GoogleFinds, GoogleInserts, GoogleSaves, GoogleSigns

\* What the logins are about stays.
LEMMA GoogleStays ==
  ASSUME GoogleHolds, UNCHANGED <<mode, users, req, answer, requests>>
  PROVE  GoogleHolds'
BY DEF GoogleHolds, OfGoogle, Ids, Linked, Quiet

LEMMA GoogleAnswers ==
  ASSUME TypesHold, GoogleHolds, NEW r \in Reqs, Answer(r)
  PROVE  GoogleHolds'
<1>1. /\ req[r] # Idle /\ Head(req[r].todo) = "answer" /\ End(r, "ok")
      /\ UNCHANGED <<mode, users, requests>> /\ answer' = [answer EXCEPT ![r] = "ok"]
  BY DEF Answer, At, End, Same, config
<1>2. \A s \in Reqs : req'[s] \in {req[s], Idle}
  BY <1>1, EndMoves DEF OnlyThis, TypesHold
<1>3. mode = "google" => Linked # {}
  BY <1>1 DEF GoogleHolds, OfGoogle, Signing
<1>4. mode = "google" => \A s \in Reqs : answer'[s] # "failed"
  BY <1>1 DEF GoogleHolds, TypesHold, RequestsOK
<1>5. Ids' = Ids /\ Linked' = Linked
  BY <1>1 DEF Ids, Linked
<1>6. QED
  BY <1>1, <1>2, <1>3, <1>4, <1>5 DEF GoogleHolds, OfGoogle

LEMMA GoogleNext ==
  ASSUME TypesHold, OneByOne, GoogleHolds, [Next]_all
  PROVE  GoogleHolds'
<1>1. ASSUME NEW r \in Reqs, Requests(r) PROVE GoogleHolds'
  <2>1. PICK q \in Busy : Begun(q) /\ Accept(r, q)
    BY <1>1, RequestsBegin DEF TypesHold
  <2>2. /\ req' = [req EXCEPT ![r] = q] /\ answer' = [answer EXCEPT ![r] = "none"]
        /\ UNCHANGED <<mode, users>>
    BY <2>1 DEF Accept, Put, config
  <2>3. req \in [Reqs -> {Idle} \cup Busy] /\ answer \in [Reqs -> {"none", "ok", "failed"}]
    BY DEF TypesHold, RequestsOK
  <2>4. ASSUME mode = "google"
        PROVE  /\ \A s \in Reqs : req'[s] # Idle => OfGoogle(req'[s], Ids, Linked)
               /\ ~Quiet' /\ \A s \in Reqs : answer'[s] # "failed"
    <3>1. q.what = "google" /\ Head(q.todo) = "find" /\ q # Idle
      BY <2>1, <2>4, OnPathBusy DEF Begun
    <3>2. OfGoogle(q, Ids, Linked)
      BY <3>1 DEF OfGoogle, Signing
    <3>3. \A s \in Reqs : req'[s] # Idle => OfGoogle(req'[s], Ids, Linked)
      BY <2>2, <2>3, <2>4, <3>2 DEF GoogleHolds
    <3>4. ~Quiet'
      BY <2>2, <2>3, <3>1 DEF Quiet
    <3>5. \A s \in Reqs : answer'[s] # "failed"
      BY <2>2, <2>3, <2>4 DEF GoogleHolds
    <3>6. QED
      BY <3>3, <3>4, <3>5
  <2>5. Ids' = Ids /\ Linked' = Linked
    BY <2>2 DEF Ids, Linked
  <2>6. QED
    BY <2>2, <2>4, <2>5 DEF GoogleHolds, OfGoogle
<1>2. ASSUME NEW r \in Reqs, Step(r) PROVE GoogleHolds'
  <2>1. Advance(r) /\ mode' = mode
    BY <1>2, TokensOfStep DEF Step
  <2>2. QED
    BY <2>1, GoogleAdvances DEF GoogleHolds
<1>3. ASSUME NEW r \in Reqs, Answered(r) \/ Refreshed(r) PROVE GoogleHolds'
  BY <1>3, GoogleAnswers DEF Answered, Refreshed
<1>4. ASSUME (\E r \in Reqs : AnswerLost(r)) \/ Trouble PROVE GoogleHolds'
  <2>1. mode \in {"solo", "tab"} /\ mode' = mode
    BY <1>4 DEF AnswerLost, Trouble, Around, Fails, Restart, RedisSwitches, TokenExpires, MailExpires, Faulty,
                Rest, config
  <2>2. QED
    BY <2>1 DEF GoogleHolds
<1>5. ASSUME NEW c \in Calls, RefreshOnce(c) PROVE GoogleHolds'
  <2>1. Web /\ mode' = mode
    BY <1>5 DEF RefreshOnce, OneByOne, NoCall, Rest, config
  <2>2. QED
    BY <2>1 DEF Web, GoogleHolds
<1>6. ASSUME NEW c \in Calls, Serve(c) \/ Return(c) \/ \E t \in Tabs : Send(c, t) PROVE GoogleHolds'
  <2>1. UNCHANGED <<mode, users, req, answer, requests>>
    BY <1>6 DEF Serve, Return, Send, Rest, config
  <2>2. QED
    BY <2>1, GoogleStays
<1>7. CASE (\E t \in Tabs : Abort(t)) \/ AccessExpires \/ UNCHANGED all
  <2>1. UNCHANGED <<mode, users, req, answer, requests>>
    BY <1>7 DEF Abort, AccessExpires, all, vars, Rest, config
  <2>2. QED
    BY <2>1, GoogleStays
<1>8. CASE SessionEnds
  BY <1>8 DEF SessionEnds, Web, GoogleHolds, config
<1>9. QED
  BY <1>1, <1>2, <1>3, <1>4, <1>5, <1>6, <1>7, <1>8 DEF Next

LEMMA GoogleBegins == Init => GoogleHolds
<1> SUFFICES ASSUME Init, mode = "google" PROVE GoogleHolds
  BY DEF GoogleHolds
<1>1. PICK first \in BOOLEAN, l \in BOOLEAN, m \in Emails :
         /\ mode \in {"tab", "tabs"} => first /\ ~l /\ m = GoogleEmail
         /\ mode = "google" => m = GoogleEmail
         /\ ~first => m = GoogleEmail /\ ~l /\ redis
         /\ l => ~selfHosted /\ ~devices /\ redis
         /\ selfHosted \/ ~redis => m = GoogleEmail
         /\ users = [u \in Id |-> IF first /\ u = 1
              THEN [email |-> m, pass |-> TRUE, verified |-> TRUE, locked |-> FALSE, enabled |-> TRUE,
                    linked |-> l, made |-> "LOCAL", admin |-> selfHosted] ELSE NoUser]
         /\ tokens = IF first THEN {[id |-> 1, user |-> 1]} ELSE {}
         /\ jar = [b \in Browsers |-> IF first /\ b = Here THEN [access |-> m, refresh |-> 1] ELSE NoCookie]
         /\ nextUser = IF first THEN 2 ELSE 1
         /\ nextToken = IF first THEN 2 ELSE 1
  BY DEF Init
<1>2. \A u \in Ids : u = 1 /\ users[u].email = GoogleEmail /\ ~users[u].locked
  BY <1>1 DEF Ids
<1>3. (\A r \in Reqs : req[r] = Idle /\ answer[r] = "none") /\ requests = 0
  BY DEF Init
<1>4. QED
  BY <1>2, <1>3 DEF GoogleHolds

\* Any number of logins with one Google account at the same time, of a user there
\* is or of one they make: each finds or makes the same row, and none is refused.
THEOREM GoogleLogins == Fair => []GoogleLoginsAgree
<1>1. GoogleHolds => GoogleLoginsAgree
  <2> SUFFICES ASSUME GoogleHolds, mode = "google" PROVE GoogleLoginsAgree
    BY DEF GoogleLoginsAgree
  <2>1. \A r \in Reqs : answer[r] # "failed"
    BY DEF GoogleHolds
  <2>2. ASSUME Quiet, requests > 0 PROVE Cardinality(Linked) = 1
    <3>1. PICK u \in Linked : TRUE
      BY <2>2 DEF GoogleHolds
    <3>2. Linked = {u}
      BY <3>1 DEF GoogleHolds, Linked
    <3>3. QED
      BY <3>2, FS_Singleton
  <2>3. QED
    BY <2>1, <2>2 DEF GoogleLoginsAgree
<1>2. QED
  BY <1>1, TypesBegin, TypesNext, SoloBegins, SoloNext, GoogleBegins, GoogleNext, PTL DEF Fair, SoloHolds

------------------------------------------------------------------------------
(* The session of a single tab.                                             *)

\* The refresh of the tab, and the user it is for.
LEMMA TabRefresh ==
  ASSUME TypesHold, TabHolds, mode = "tab", faults = 0, ~away, NEW r \in Reqs, req[r] # Idle
  PROVE  LET q == req[r] IN
         /\ flight[Tab] = "asked" /\ OfTab(q, tokens, users) /\ q \in Busy /\ Bounded(q, nextToken, nextMail)
         /\ Head(q.todo) \in {"validate", "drop", "purge", "issue", "answer"}
         /\ \A s \in Reqs \ {r} : req[s] = Idle
         /\ Tab # NoTab
<1>1. OfTab(req[r], tokens, users) /\ flight[Tab] = "asked" /\ \A s \in Reqs \ {r} : req[s] = Idle
  BY DEF TabHolds
<1>2. req[r] \in Busy /\ Bounded(req[r], nextToken, nextMail) /\ Head(req[r].todo) \in StepsOf(req[r].what)
  BY BusyRequest DEF TypesHold
<1>3. Head(req[r].todo) \in {"validate", "drop", "purge", "issue", "answer"}
  BY <1>1, <1>2 DEF OfTab, StepsOf, Signing
<1>4. Tab # NoTab
  BY <1>1, AccountsAssumption DEF OfTab
<1>5. QED
  BY <1>1, <1>2, <1>3, <1>4

\* The refresh goes on.
LEMMA TabGoesOn ==
  ASSUME TypesHold, TabHolds, mode = "tab", faults = 0, ~away, NEW r \in Reqs, req[r] # Idle, OnlyThis(r),
         req'[r] # Idle, OfTab(req'[r], tokens', users), Track, UNCHANGED <<mode, away, users, call>>
  PROVE  TabHolds'
<1>1. flight[Tab] = "asked" /\ \A s \in Reqs \ {r} : req[s] = Idle /\ req'[s] = Idle
  BY TabRefresh DEF OnlyThis
<1>2. \A s \in Reqs : ~(req[s] # Idle /\ req'[s] = Idle)
  BY <1>1
<1>3. \A t \in Tabs : flight'[t] = flight[t]
  BY <1>2 DEF Track
<1>4. Tab \in Tabs /\ flight'[Tab] = "asked"
  BY <1>1, <1>3 DEF OfTab
<1>5. /\ Ids = {1} /\ users[1].email = GoogleEmail /\ users[1].enabled
      /\ \A t \in Tabs : flight[t] = "none" \/ (t = Tab /\ flight[t] = "asked")
      /\ \A c \in Calls : call[c] # NoCall =>
           /\ call[c].tab = Tab
           /\ call[c].again => call[c].pc \in {"sent", "served"} /\ call[c].with = GoogleEmail
  BY DEF TabHolds
<1>6. Ids' = {1}
  BY <1>5 DEF Ids
<1>7. \A s \in Reqs : req'[s] # Idle => s = r
  BY <1>1
<1>8. \A s \in Reqs : req'[s] # Idle => OfTab(req'[s], tokens', users')
  BY <1>7
<1>9. QED
  BY <1>3, <1>4, <1>5, <1>6, <1>7, <1>8 DEF TabHolds, OfTab

LEMMA TabAdvances ==
  ASSUME TypesHold, TabHolds, mode = "tab", faults = 0, ~away, NEW r \in Reqs, Step(r)
  PROVE  TabHolds'
<1> DEFINE q == req[r]
           x == req'[r]
<1>1. /\ Advance(r) /\ Track /\ UNCHANGED <<call, away, mode, devices>>
  BY TokensOfStep DEF Step
<1>2. q # Idle /\ Moved(q, x) /\ OnlyThis(r)
  BY <1>1, AdvanceMoves DEF TypesHold, RequestsHold
<1>3. /\ OfTab(q, tokens, users) /\ q \in Busy /\ Head(q.todo) \in {"validate", "drop", "purge", "issue", "answer"}
  BY <1>2, TabRefresh
<1>4. q.what = "refresh" /\ q.by = Here /\ q.tab = Tab /\ Tab \in Tabs
  BY <1>3 DEF OfTab
<1>5. Ids = {1} /\ 1 \in Id /\ users[1] # NoUser
  BY DEF TabHolds, Ids
<1>6. Validate(r) \/ Drop(r) \/ Purge(r) \/ Issue(r)
  BY <1>1, <1>3 DEF Advance, Taken, Owners, Read, Insert, Save, Find, FindAgain, SendMail, Revoke, Delete, Burn,
                    At
<1>7. CASE Validate(r)
  <2>1. users' = users /\ tokens' = tokens /\ Head(q.todo) = "validate"
    BY <1>7 DEF Validate, At, rows
  <2>2. \/ x = Idle /\ \A t \in tokens : t.id # q.shown
        \/ \E t \in tokens : /\ t.id = q.shown /\ x.id = t.user /\ x.row = users[t.user] /\ x # Idle
                             /\ Head(x.todo) = Then(q.what, "validate")
    BY <1>7, ReadMoves DEF TypesHold, RequestsHold
  <2>3. \E t \in tokens : t.id = q.shown
    BY <1>3, <2>1 DEF OfTab
  <2>4. PICK t \in tokens : /\ t.id = q.shown /\ x.id = t.user /\ x.row = users[t.user] /\ x # Idle
                            /\ Head(x.todo) = Then(q.what, "validate")
    BY <2>2, <2>3
  <2>5. t.user = 1
    <3>1. t \in Token /\ users[t.user] # NoUser
      BY DEF TypesHold, RowsOK
    <3>2. t.user \in Ids
      BY <3>1 DEF Ids, Token
    <3>3. QED
      BY <1>5, <3>2
  <2>6. Head(x.todo) = "drop" /\ x.what = "refresh" /\ x.by = Here /\ x.tab = Tab
    BY <1>2, <1>4, <2>4 DEF Moved, Then
  <2>7. OfTab(x, tokens', users)
    BY <1>4, <2>4, <2>5, <2>6 DEF OfTab
  <2>8. QED
    BY <1>1, <1>2, <2>1, <2>4, <2>7, TabGoesOn
<1>8. CASE Drop(r) \/ Purge(r)
  <2>1. users' = users /\ Head(q.todo) \in {"drop", "purge"} /\ Go(r)
    BY <1>8 DEF Drop, Purge, At
  <2>2. x # Idle /\ x.id = q.id /\ x.row = q.row
    BY <1>8, <2>1, PlainMoves DEF TypesHold, RequestsHold
  <2>3. x.what = "refresh" /\ x.by = Here /\ x.tab = Tab /\ Head(x.todo) \in {"purge", "issue"}
    BY <1>2, <1>4, <2>1, <2>2 DEF Moved, Then
  <2>4. q.id = 1 /\ q.row = users[1]
    BY <1>3, <2>1 DEF OfTab
  <2> HIDE DEF q, x
  <2>5. OfTab(x, tokens', users)
    BY <1>4, <2>2, <2>3, <2>4 DEF OfTab
  <2>6. QED
    BY <1>1, <1>2, <2>1, <2>2, <2>5, TabGoesOn DEF q, x
<1>9. CASE Issue(r)
  <2>1. users' = users /\ Head(q.todo) = "issue"
    BY <1>9 DEF Issue, At
  <2>2. q.id = 1 /\ q.row = users[1]
    BY <1>3, <2>1 DEF OfTab
  <2>3. /\ tokens' = tokens \cup {[id |-> nextToken, user |-> q.id]}
        /\ x # Idle /\ x.new = nextToken /\ Head(x.todo) = "answer" /\ x.id = q.id /\ x.row = q.row
    BY <1>5, <1>9, <2>2, IssueMoves DEF TypesHold, RequestsHold
  <2>4. x.what = "refresh" /\ x.by = Here /\ x.tab = Tab
    BY <1>2, <1>4, <2>3 DEF Moved
  <2>5. nextToken # 0
    BY AccountsAssumption DEF TypesHold, RowsOK
  <2>6. \E t \in tokens' : t.id = nextToken
    <3> DEFINE k == [id |-> nextToken, user |-> q.id]
    <3>1. k \in tokens' /\ k.id = nextToken
      BY <2>3
    <3> HIDE DEF k
    <3>2. QED
      BY <3>1
  <2> HIDE DEF q, x
  <2>7. OfTab(x, tokens', users)
    BY <1>4, <2>2, <2>3, <2>4, <2>5, <2>6 DEF OfTab
  <2>8. QED
    BY <1>1, <1>2, <2>1, <2>3, <2>7, TabGoesOn DEF q, x
<1>10. QED
  BY <1>6, <1>7, <1>8, <1>9

\* The answer to the refresh: its cookies, and the calls that are sent again.
LEMMA TabRefreshed ==
  ASSUME TypesHold, TabHolds, mode = "tab", faults = 0, ~away, NEW r \in Reqs, Refreshed(r)
  PROVE  TabHolds'
<1> DEFINE q == req[r]
<1>1. /\ q # Idle /\ Head(q.todo) = "answer" /\ End(r, "ok") /\ flight' = [flight EXCEPT ![q.tab] = "none"]
      /\ jar' = (IF q.by = "nobody" THEN jar ELSE [jar EXCEPT ![q.by] = Attached(q)])
      /\ call' = Resent(q.tab, q.row.email) /\ UNCHANGED <<mode, users, tokens, faults, away>>
  BY DEF Refreshed, Answer, At, Same, config
<1>2. OfTab(q, tokens, users) /\ flight[Tab] = "asked" /\ \A s \in Reqs \ {r} : req[s] = Idle
  BY <1>1, TabRefresh
<1>3. /\ q.what = "refresh" /\ q.by = Here /\ q.tab = Tab /\ Tab \in Tabs /\ q.row = users[1] /\ q.new # 0
      /\ \E t \in tokens : t.id = q.new
  BY <1>1, <1>2 DEF OfTab
<1>4. \A s \in Reqs : req'[s] = Idle
  BY <1>1, <1>2, EndMoves DEF OnlyThis, TypesHold
<1> HIDE DEF q
<1>5. /\ Ids = {1} /\ users[1].email = GoogleEmail /\ users[1].enabled
      /\ \A t \in Tabs : flight[t] = "none" \/ (t = Tab /\ flight[t] = "asked")
      /\ \A c \in Calls : call[c] # NoCall =>
           /\ call[c].tab = Tab
           /\ call[c].again => call[c].pc \in {"sent", "served"} /\ call[c].with = GoogleEmail
  BY DEF TabHolds
<1>6. Ids' = {1}
  BY <1>1, <1>5 DEF Ids
<1>7. jar'[Here].refresh = q.new
  <2>1. Here \in Browsers /\ Here # "nobody"
    BY AccountsAssumption, SessionsAssumption
  <2>2. jar' = [jar EXCEPT ![Here] = Attached(q)] /\ jar \in [Browsers -> Cookies]
    BY <1>1, <1>3, <2>1 DEF TypesHold, RowsOK
  <2>3. Attached(q) = [access |-> q.row.email, refresh |-> q.new]
    BY <1>3 DEF Attached
  <2>4. QED
    BY <2>1, <2>2, <2>3
<1>8. \A t \in Tabs : flight'[t] = "none"
  BY <1>1, <1>3, <1>5 DEF TypesHold, WebOK
<1>9. ASSUME NEW c \in Calls, call'[c] # NoCall
      PROVE  /\ call'[c].tab = Tab
             /\ call'[c].again => call'[c].pc \in {"sent", "served"} /\ call'[c].with = GoogleEmail
  <2>1. CASE c \in Waiting(Tab)
    <3>1. call[c] \in Call /\ call[c].tab = Tab
      <4>1. call[c].pc # "idle" /\ call[c].tab = Tab
        BY <2>1 DEF Waiting
      <4>2. QED
        BY <4>1, CallFacts DEF TypesHold
    <3>2. call'[c] = [call[c] EXCEPT !.pc = "sent", !.with = GoogleEmail, !.again = TRUE]
      BY <1>1, <1>3, <1>5, <2>1 DEF Resent
    <3> DEFINE was == call[c]
    <3> HIDE DEF was
    <3>3. was \in Call /\ was.tab = Tab
          /\ call'[c] = [was EXCEPT !.pc = "sent", !.with = GoogleEmail, !.again = TRUE]
      BY <3>1, <3>2 DEF was
    <3>4. QED
      BY <3>3 DEF Call
  <2>2. CASE c \notin Waiting(Tab)
    <3>1. call'[c] = call[c]
      BY <1>1, <1>3, <2>2 DEF Resent
    <3>2. QED
      BY <1>5, <1>9, <3>1
  <2>3. QED
    BY <2>1, <2>2
<1>10. \E t \in tokens' : t.id = jar'[Here].refresh
  BY <1>1, <1>3, <1>7
<1>11. QED
  BY <1>1, <1>4, <1>5, <1>6, <1>8, <1>9, <1>10 DEF TabHolds

\* A call is refused, and asks for the refresh if nobody else has.
LEMMA TabAsks ==
  ASSUME TypesHold, TabHolds, mode = "tab", faults = 0, ~away, NEW c \in Calls, RefreshOnce(c)
  PROVE  TabHolds'
<1> DEFINE t == call[c].tab
<1>1. /\ call[c].pc = "refused" /\ ~call[c].again /\ call' = [call EXCEPT ![c].pc = "waiting"]
      /\ UNCHANGED <<mode, users, tokens, faults, jar, away>>
      /\ IF flight[t] # "none" THEN UNCHANGED <<flight, req>>
         ELSE /\ flight' = [flight EXCEPT ![t] = "asked"]
              /\ \E r \in Reqs : req[r] = Idle /\ req' = [req EXCEPT ![r] = Refresh(r, Here, t)]
  BY DEF RefreshOnce, Rest, Put, config, rows
<1>2. call[c] # NoCall /\ call[c] \in Call /\ t \in Tabs /\ t = Tab
  <2>1. call[c] \in Call /\ call[c].tab \in Tabs /\ call[c] # NoCall
    BY <1>1, CallFacts DEF TypesHold, NoCall
  <2>2. QED
    BY <2>1 DEF TabHolds
<1> HIDE DEF t
<1>3. /\ Ids = {1} /\ users[1].email = GoogleEmail /\ users[1].enabled
      /\ \A u \in Tabs : flight[u] = "none" \/ (u = Tab /\ flight[u] = "asked")
      /\ \A d \in Calls : call[d] # NoCall =>
           /\ call[d].tab = Tab
           /\ call[d].again => call[d].pc \in {"sent", "served"} /\ call[d].with = GoogleEmail
      /\ \A r, s \in Reqs : req[r] # Idle /\ req[s] # Idle => r = s
      /\ (\A u \in Tabs : flight[u] = "none") => \E k \in tokens : k.id = jar[Here].refresh
      /\ \A r \in Reqs : req[r] # Idle => flight[Tab] = "asked" /\ OfTab(req[r], tokens, users)
  BY DEF TabHolds
<1>4. Ids' = {1}
  BY <1>1, <1>3 DEF Ids
<1>5. ASSUME NEW d \in Calls, call'[d] # NoCall
      PROVE  /\ call'[d].tab = Tab
             /\ call'[d].again => call'[d].pc \in {"sent", "served"} /\ call'[d].with = GoogleEmail
  <2>1. CASE d = c
    <3> DEFINE was == call[c]
    <3>1. was \in Call /\ was.tab = Tab /\ was.again = FALSE
      BY <1>1, <1>2, <1>3 DEF Call
    <3>2. call'[c] = [was EXCEPT !.pc = "waiting"]
      BY <1>1 DEF TypesHold, WebOK
    <3> HIDE DEF was
    <3>3. QED
      BY <2>1, <3>1, <3>2 DEF Call
  <2>2. CASE d # c
    <3>1. call'[d] = call[d]
      BY <1>1, <2>2 DEF TypesHold, WebOK
    <3>2. QED
      BY <1>3, <1>5, <3>1
  <2>3. QED
    BY <2>1, <2>2
<1>6. CASE flight[t] # "none"
  <2>1. UNCHANGED <<flight, req>> /\ flight[Tab] = "asked" /\ Tab \in Tabs
    BY <1>1, <1>2, <1>3, <1>6
  <2>2. QED
    BY <1>1, <1>3, <1>4, <1>5, <2>1 DEF TabHolds, OfTab
<1>7. CASE flight[t] = "none"
  <2>1. PICK r \in Reqs : req[r] = Idle /\ req' = [req EXCEPT ![r] = Refresh(r, Here, Tab)]
    BY <1>1, <1>2, <1>7
  <2>2. flight' = [flight EXCEPT ![Tab] = "asked"] /\ Tab \in Tabs
    BY <1>1, <1>2, <1>7
  <2>3. /\ \A u \in Tabs : flight[u] = "none"
        /\ \A s \in Reqs : req[s] = Idle
        /\ \E k \in tokens : k.id = jar[Here].refresh
    BY <1>2, <1>3, <1>7
  <2> DEFINE q == Refresh(r, Here, Tab)
  <2>4. q.what = "refresh" /\ q.tab = Tab /\ q.by = Here /\ q.shown = jar[Here].refresh /\ Head(q.todo) = "validate"
    BY <2>2, RefreshFacts, SessionsAssumption DEF TypesHold
  <2> HIDE DEF q
  <2>5. OfTab(q, tokens, users)
    BY <2>2, <2>3, <2>4 DEF OfTab
  <2>6. \A s \in Reqs : req'[s] # Idle => s = r /\ req'[s] = q
    BY <2>1, <2>3 DEF q, TypesHold, RequestsOK
  <2>7. flight'[Tab] = "asked" /\ \A u \in Tabs : u # Tab => flight'[u] = "none"
    BY <2>2, <2>3 DEF TypesHold, WebOK
  <2>8. QED
    BY <1>1, <1>3, <1>4, <1>5, <2>2, <2>5, <2>6, <2>7 DEF TabHolds, OfTab
<1>8. QED
  BY <1>6, <1>7

\* A call is sent, answered or given back, without a change to anything else.
LEMMA TabCalls ==
  ASSUME TypesHold, TabHolds, mode = "tab", faults = 0, ~away, NEW c \in Calls,
         (\E t \in Tabs : Send(c, t)) \/ Serve(c) \/ Return(c)
  PROVE  TabHolds'
<1>1. UNCHANGED <<mode, users, tokens, faults, jar, away, req, flight>>
  BY DEF Send, Serve, Return, Rest, config, rows
<1>2. \A d \in Calls \ {c} : call'[d] = call[d]
  BY DEF Send, Serve, Return, TypesHold, WebOK
<1>3. /\ Ids = {1} /\ users[1].email = GoogleEmail /\ users[1].enabled
      /\ \A d \in Calls : call[d] # NoCall =>
           /\ call[d].tab = Tab
           /\ call[d].again => call[d].pc \in {"sent", "served"} /\ call[d].with = GoogleEmail
  BY DEF TabHolds
<1>4. ASSUME call'[c] # NoCall
      PROVE  /\ call'[c].tab = Tab
             /\ call'[c].again => call'[c].pc \in {"sent", "served"} /\ call'[c].with = GoogleEmail
  <2>1. ASSUME NEW t \in Tabs, Send(c, t)
        PROVE  call'[c].tab = Tab /\ ~call'[c].again
    <3>1. t = Tab
      BY <2>1 DEF Send, TabsOpen, Tab
    <3>2. call'[c] = [pc |-> "sent", tab |-> t, with |-> jar[Here].access, again |-> FALSE]
      BY <2>1 DEF Send, TypesHold, WebOK
    <3>3. QED
      BY <3>1, <3>2
  <2>2. CASE Serve(c)
    <3> DEFINE was == call[c]
               now == IF \E u \in ByEmail(was.with) : users[u].enabled THEN "served" ELSE "refused"
    <3>1. was \in Call /\ was # NoCall /\ was.tab = Tab
      <4>1. was.pc # "idle"
        BY <2>2 DEF Serve
      <4>2. was \in Call /\ was # NoCall
        BY <4>1, CallFacts DEF TypesHold, NoCall
      <4>3. QED
        BY <1>3, <4>2
    <3>2. call'[c] = [was EXCEPT !.pc = now]
      BY <2>2 DEF Serve, TypesHold, WebOK
    <3>3. was.again => was.with = GoogleEmail
      BY <1>3, <3>1
    <3>4. was.again => now = "served"
      <4>1. 1 \in ByEmail(GoogleEmail)
        BY <1>3 DEF ByEmail
      <4>2. QED
        BY <1>3, <3>3, <4>1
    <3> HIDE DEF was, now
    <3>5. call'[c].tab = Tab /\ call'[c].again = was.again /\ call'[c].with = was.with /\ call'[c].pc = now
      BY <3>1, <3>2 DEF Call
    <3>6. QED
      BY <3>3, <3>4, <3>5
  <2>3. CASE Return(c)
    <3>1. call'[c] = NoCall
      BY <2>3 DEF Return, TypesHold, WebOK
    <3>2. QED
      BY <1>4, <3>1
  <2>4. QED
    BY <2>1, <2>2, <2>3
<1>5. \A d \in Calls : call'[d] # NoCall =>
           /\ call'[d].tab = Tab
           /\ call'[d].again => call'[d].pc \in {"sent", "served"} /\ call'[d].with = GoogleEmail
  BY <1>2, <1>3, <1>4
<1>6. Ids' = {1}
  BY <1>1, <1>3 DEF Ids
<1>7. QED
  BY <1>1, <1>3, <1>5, <1>6 DEF TabHolds, OfTab

\* The mode stays, faults are counted, and a session that was ended is.
LEMMA TroubleCounts ==
  ASSUME TypesHold, [Next]_all
  PROVE  mode' = mode /\ (faults' = faults \/ faults' = faults + 1) /\ (away => away')
<1>1. ASSUME NEW r \in Reqs, Requests(r), UNCHANGED web PROVE UNCHANGED <<mode, faults, away>>
  BY <1>1, RequestsBegin DEF Accept, config, web, TypesHold
<1>2. ASSUME NEW r \in Reqs, Step(r) PROVE UNCHANGED <<mode, faults, away>>
  BY <1>2, TokensOfStep DEF Step
<1>3. ASSUME NEW r \in Reqs, Answered(r) \/ Refreshed(r) PROVE UNCHANGED <<mode, faults, away>>
  BY <1>3 DEF Answered, Refreshed, Answer, Same, config, web
<1>4. ASSUME NEW r \in Reqs, AnswerLost(r) PROVE UNCHANGED <<mode, away>> /\ faults' = faults + 1
  BY <1>4 DEF AnswerLost, Rest, config
<1>5. CASE Trouble
  BY <1>5 DEF Trouble, Around, Fails, Restart, RedisSwitches, TokenExpires, MailExpires, config
<1>6. ASSUME NEW c \in Calls, (\E t \in Tabs : Send(c, t)) \/ Serve(c) \/ Return(c) \/ RefreshOnce(c)
      PROVE  UNCHANGED <<mode, faults, away>>
  BY <1>6 DEF Send, Serve, Return, RefreshOnce, Rest, config
<1>7. CASE (\E t \in Tabs : Abort(t)) \/ AccessExpires \/ UNCHANGED all
  <2>1. ASSUME NEW t \in Tabs, Abort(t)
        PROVE  UNCHANGED <<mode, away>> /\ (faults' = faults \/ faults' = faults + 1)
    BY <2>1 DEF Abort, Rest, config
  <2>2. QED
    BY <1>7, <2>1 DEF AccessExpires, all, vars, web, Rest, config
<1>8. CASE SessionEnds
  BY <1>8 DEF SessionEnds, config
<1>9. QED
  BY <1>1, <1>2, <1>3, <1>4, <1>5, <1>6, <1>7, <1>8 DEF Next

LEMMA TabNext ==
  ASSUME TypesHold, OneByOne, TabHolds, [Next]_all
  PROVE  TabHolds'
<1>1. ASSUME mode' = mode, mode # "tab" \/ faults' # 0 \/ away' PROVE TabHolds'
  BY <1>1 DEF TabHolds
<1>2. ASSUME TabHolds, UNCHANGED <<mode, users, tokens, jar, req, flight, call, faults, away>> PROVE TabHolds'
  BY <1>2 DEF TabHolds, OfTab, Ids
<1>3. mode' = mode /\ (faults' = faults \/ faults' = faults + 1) /\ (away => away')
  BY TroubleCounts
<1>4. CASE ~(mode = "tab" /\ faults = 0 /\ ~away)
  <2>1. mode # "tab" \/ faults' # 0 \/ away'
    <3>1. faults \in Nat
      BY AccountsAssumption DEF TypesHold, RowsOK
    <3>2. QED
      BY <1>3, <1>4, <3>1
  <2>2. QED
    BY <1>1, <1>3, <2>1
<1>5. CASE mode = "tab" /\ faults = 0 /\ ~away
  <2>1. ASSUME NEW r \in Reqs, Requests(r) PROVE FALSE
    <3>1. PICK q \in Busy : Accept(r, q)
      BY <2>1, RequestsBegin DEF TypesHold
    <3>2. QED
      BY <1>5, <3>1 DEF Accept, MayStart
  <2>2. ASSUME NEW r \in Reqs, Answered(r) PROVE FALSE
    <3>1. req[r] # Idle /\ req[r].tab = NoTab
      BY <2>2 DEF Answered, At
    <3>2. OfTab(req[r], tokens, users) /\ Tab # NoTab
      BY <1>5, <3>1, TabRefresh
    <3>3. QED
      BY <3>1, <3>2 DEF OfTab
  <2>3. ASSUME (\E r \in Reqs : AnswerLost(r)) \/ Trouble PROVE TabHolds'
    <3>1. faults' = faults + 1
      BY <1>5, <2>3 DEF AnswerLost, Trouble, Around, Fails, Restart, RedisSwitches, TokenExpires, MailExpires
    <3>2. QED
      BY <1>1, <1>3, <1>5, <3>1
  <2>4. ASSUME NEW t \in Tabs, Abort(t) PROVE FALSE
    BY <1>5, <2>4 DEF Abort, TabHolds
  <2>5. CASE AccessExpires
    <3>1. UNCHANGED <<mode, users, tokens, req, flight, call, faults, away>>
      BY <2>5 DEF AccessExpires, Rest, config, rows
    <3>2. jar'[Here].refresh = jar[Here].refresh
      <4>1. jar' = [jar EXCEPT ![Here].access = "old"] /\ Here \in Browsers /\ jar \in [Browsers -> Cookies]
        BY <2>5, SessionsAssumption DEF AccessExpires, TypesHold, RowsOK
      <4>2. QED
        BY <4>1 DEF Cookies
    <3>3. QED
      BY <3>1, <3>2 DEF TabHolds, OfTab, Ids
  <2>6. CASE SessionEnds
    BY <1>1, <1>3, <2>6 DEF SessionEnds
  <2>7. CASE UNCHANGED all
    BY <1>2, <2>7 DEF all, vars, web, config, rows
  <2>8. QED
    BY <1>5, <2>1, <2>2, <2>3, <2>4, <2>5, <2>6, <2>7, TabAdvances, TabRefreshed, TabAsks, TabCalls DEF Next
<1>6. QED
  BY <1>4, <1>5

LEMMA TabBegins == Init => TabHolds
<1> SUFFICES ASSUME Init, mode = "tab" PROVE TabHolds
  BY DEF TabHolds
<1>1. PICK first \in BOOLEAN, l \in BOOLEAN, m \in Emails :
         /\ mode \in {"tab", "tabs"} => first /\ ~l /\ m = GoogleEmail
         /\ mode = "google" => m = GoogleEmail
         /\ ~first => m = GoogleEmail /\ ~l /\ redis
         /\ l => ~selfHosted /\ ~devices /\ redis
         /\ selfHosted \/ ~redis => m = GoogleEmail
         /\ users = [u \in Id |-> IF first /\ u = 1
              THEN [email |-> m, pass |-> TRUE, verified |-> TRUE, locked |-> FALSE, enabled |-> TRUE,
                    linked |-> l, made |-> "LOCAL", admin |-> selfHosted] ELSE NoUser]
         /\ tokens = IF first THEN {[id |-> 1, user |-> 1]} ELSE {}
         /\ jar = [b \in Browsers |-> IF first /\ b = Here THEN [access |-> m, refresh |-> 1] ELSE NoCookie]
         /\ nextUser = IF first THEN 2 ELSE 1
         /\ nextToken = IF first THEN 2 ELSE 1
  BY DEF Init
<1> DEFINE row == [email |-> m, pass |-> TRUE, verified |-> TRUE, locked |-> FALSE, enabled |-> TRUE,
                   linked |-> l, made |-> "LOCAL", admin |-> selfHosted]
<1>2. first /\ m = GoogleEmail /\ row.email = m /\ row.enabled /\ row # NoUser
  BY <1>1 DEF NoUser
<1> HIDE DEF row
<1>3. users = [u \in Id |-> IF u = 1 THEN row ELSE NoUser] /\ 1 \in Id
  BY <1>1, <1>2, AccountsAssumption DEF Id, row
<1>4. Ids = {1} /\ users[1] = row
  BY <1>2, <1>3 DEF Ids
<1>5. \E t \in tokens : t.id = jar[Here].refresh
  BY <1>1, <1>2, SessionsAssumption
<1>6. /\ \A r \in Reqs : req[r] = Idle
      /\ \A c \in Calls : call[c] = NoCall
      /\ \A t \in Tabs : flight[t] = "none"
  BY DEF Init
<1>7. QED
  BY <1>2, <1>4, <1>5, <1>6 DEF TabHolds

\* In a single tab a session that nobody ends goes on, however many calls are
\* refused together and however often the access token expires: no call fails after
\* the refresh, and the cookie names a refresh token that is good.
THEOREM TabKeepsSession == Fair => []SessionKept
<1>1. TabHolds => SessionKept
  <2> SUFFICES ASSUME TabHolds, mode = "tab", faults = 0, ~away PROVE SessionKept
    BY DEF SessionKept
  <2>1. ASSUME NEW c \in Calls, call[c].pc = "refused", call[c].again PROVE FALSE
    <3>1. call[c] # NoCall
      BY <2>1 DEF NoCall
    <3>2. QED
      BY <2>1, <3>1 DEF TabHolds
  <2>2. (\A t \in Tabs : flight[t] = "none") => \E t \in tokens : t.id = jar[Here].refresh
    BY DEF TabHolds
  <2>3. QED
    BY <2>1, <2>2 DEF SessionKept
<1>2. QED
  BY <1>1, TypesBegin, TypesNext, SoloBegins, SoloNext, TabBegins, TabNext, PTL DEF Fair, SoloHolds
==============================================================================
