------------------------------- MODULE Sessions -------------------------------
(***************************************************************************)
(* The web application on top of Accounts: authFetch of each tab, which    *)
(* refreshes the session on a 401, once for all calls of a tab that are    *)
(* refused meanwhile.  Tabs of a browser share its cookies and nothing     *)
(* else.                                                                   *)
(***************************************************************************)
EXTENDS Accounts

CONSTANTS
    Calls,        \* authFetch calls in progress
    Here,         \* the browser of the tabs
    MaxCalls,     \* bound: calls
    MaxAges       \* bound: access tokens that expire

ASSUME SessionsAssumption ==
    Here \in Browsers /\ MaxCalls \in Nat /\ MaxAges \in Nat

VARIABLES
    call,         \* each call: its place, its tab, the cookie it was sent with
    flight,       \* refreshInFlight of each tab
    calls, ages,
    away          \* history: the session was ended for good

web == <<call, flight, calls, ages, away>>
all == <<vars, web>>

NoCall == [pc |-> "idle"]
Places == {"sent", "served", "refused", "waiting"}
Call == [pc : Places, tab : Tabs, with : Emails \cup {"none", "old"}, again : BOOLEAN]

WebTypeOK ==
    /\ TypeOK
    /\ call \in [Calls -> {NoCall} \cup Call]
    /\ flight \in [Tabs -> {"none", "asked", "abort"}]
    /\ calls \in 0..MaxCalls /\ ages \in 0..MaxAges /\ away \in BOOLEAN

TabsOpen == IF mode = "tabs" THEN Tabs ELSE {CHOOSE t \in Tabs : TRUE}
Web == mode \in {"tab", "tabs"}
Rest == UNCHANGED <<config, users, rows, store, nextUser, requests>>

Send(c, t) ==
    /\ Web /\ t \in TabsOpen /\ call[c] = NoCall /\ calls < MaxCalls
    /\ calls' = calls + 1
    /\ call' = [call EXCEPT ![c] = [pc |-> "sent", tab |-> t, with |-> jar[Here].access, again |-> FALSE]]
    /\ Rest /\ UNCHANGED <<jar, req, answer, faults, flight, ages, away>>

\* JwtStrategy.validate: the user is looked up by the email of the token.
Serve(c) ==
    /\ call[c].pc = "sent"
    /\ call' = [call EXCEPT ![c].pc =
                 IF \E u \in ByEmail(call[c].with) : users[u].enabled THEN "served" ELSE "refused"]
    /\ Rest /\ UNCHANGED <<jar, req, answer, faults, flight, calls, ages, away>>

Return(c) ==
    /\ \/ call[c].pc = "served"
       \/ call[c].pc = "refused" /\ call[c].again
    /\ call' = [call EXCEPT ![c] = NoCall]
    /\ Rest /\ UNCHANGED <<jar, req, answer, faults, flight, calls, ages, away>>

\* Mutant of RefreshOnce: every call that is refused sends a refresh.
RefreshEach(c) ==
    LET t == call[c].tab IN
    /\ call[c].pc = "refused" /\ ~call[c].again
    /\ call' = [call EXCEPT ![c].pc = "waiting"]
    /\ flight' = [flight EXCEPT ![t] = "asked"]
    /\ \E r \in Reqs : req[r] = Idle /\ Put(r, Refresh(r, Here, t))
    /\ Rest /\ UNCHANGED <<jar, faults, calls, ages, away>>

\* refreshTokensOnce
RefreshOnce(c) ==
    LET t == call[c].tab IN
    /\ call[c].pc = "refused" /\ ~call[c].again
    /\ call' = [call EXCEPT ![c].pc = "waiting"]
    /\ IF flight[t] # "none" THEN UNCHANGED <<flight, req, answer>>
       ELSE /\ flight' = [flight EXCEPT ![t] = "asked"]
            /\ \E r \in Reqs : req[r] = Idle /\ Put(r, Refresh(r, Here, t))
    /\ Rest /\ UNCHANGED <<jar, faults, calls, ages, away>>

Waiting(t) == {c \in Calls : call[c].pc = "waiting" /\ call[c].tab = t}

Resent(t, access) ==
    [c \in Calls |-> IF c \in Waiting(t)
                     THEN [call[c] EXCEPT !.pc = "sent", !.with = access, !.again = TRUE] ELSE call[c]]

\* The answer to a refresh arrives: its cookies are stored, and the calls that
\* have waited for it are sent again.
Refreshed(r) ==
    LET t == req[r].tab IN
    /\ At(r, "answer") /\ t # NoTab
    /\ Answer(r)
    /\ flight' = [flight EXCEPT ![t] = "none"]
    /\ call' = Resent(t, req[r].row.email)
    /\ UNCHANGED <<calls, ages, away>>

Answered(r) == At(r, "answer") /\ req[r].tab = NoTab /\ Answer(r) /\ UNCHANGED web

\* A request of a tab that ends without success, or whose answer is lost, is
\* followed by POST session/abort.
Track ==
    flight' = [t \in Tabs |->
      IF \E r \in Reqs : req[r] # Idle /\ req[r].tab = t /\ req'[r] = Idle THEN "abort" ELSE flight[t]]

Step(r) == Advance(r) /\ Track /\ UNCHANGED <<call, calls, ages, away>>
Trouble == Around /\ Track /\ UNCHANGED <<call, calls, ages, away>>

AnswerLost(r) ==
    /\ At(r, "answer") /\ req[r].tab # NoTab /\ Faulty
    /\ faults' = faults + 1
    /\ End(r, "ok")
    /\ flight' = [flight EXCEPT ![req[r].tab] = "abort"]
    /\ Rest /\ UNCHANGED <<jar, call, calls, ages, away>>

\* Mutant of Abort: the promise of the refresh is dropped, not resolved.
AbortOnly(t) ==
    /\ flight[t] = "abort"
    /\ jar' = [jar EXCEPT ![Here] = NoCookie]
    /\ flight' = [flight EXCEPT ![t] = "none"]
    /\ Rest /\ UNCHANGED <<req, answer, call, faults, calls, ages, away>>

\* abortRemoteSession: the cookies are cleared, whatever they have become, or the
\* call fails, which is ignored; the calls that waited return the 401 they had.
Abort(t) ==
    /\ flight[t] = "abort"
    /\ \/ jar' = [jar EXCEPT ![Here] = NoCookie] /\ UNCHANGED faults
       \/ Faulty /\ faults' = faults + 1 /\ UNCHANGED jar
    /\ flight' = [flight EXCEPT ![t] = "none"]
    /\ call' = [c \in Calls |-> IF c \in Waiting(t) THEN NoCall ELSE call[c]]
    /\ Rest /\ UNCHANGED <<req, answer, calls, ages, away>>

\* Time, and an administrator, between calls.
AccessExpires ==
    /\ Web /\ ages < MaxAges /\ \A c \in Calls : call[c] = NoCall
    /\ jar[Here].access # "none"
    /\ ages' = ages + 1
    /\ jar' = [jar EXCEPT ![Here].access = "old"]
    /\ Rest /\ UNCHANGED <<req, answer, faults, call, flight, calls, away>>

SessionEnds ==
    /\ Web /\ ~away /\ Quiet
    /\ away' = TRUE
    /\ \/ tokens' = {} /\ UNCHANGED users
       \/ users' = [u \in Id |-> IF u \in Ids THEN [users[u] EXCEPT !.enabled = FALSE] ELSE NoUser]
          /\ UNCHANGED tokens
    /\ UNCHANGED <<config, nextToken, revoked, store, nextUser, requests, jar, req, answer, faults, call,
                   flight, calls, ages>>

\* Nobody has registered; or there is a user with a password, signed in, and
\* perhaps linked with Google.
Init ==
    /\ mode \in Modes /\ selfHosted \in BOOLEAN /\ devices \in BOOLEAN /\ redis \in BOOLEAN
    /\ mode # "solo" \/ selfHosted \/ devices => redis
    /\ mode \in {"tab", "tabs", "google"} => ~selfHosted
    /\ mode \in {"shared", "tabs"} \/ selfHosted => ~devices
    /\ \E first \in BOOLEAN, l \in BOOLEAN, m \in Emails :
         /\ mode \in {"tab", "tabs"} => first /\ ~l /\ m = GoogleEmail
         /\ mode = "google" => m = GoogleEmail
         /\ ~first => m = GoogleEmail /\ ~l /\ redis
         /\ l => ~selfHosted /\ ~devices /\ redis
         /\ selfHosted \/ ~redis => m = GoogleEmail
         /\ users = [u \in Id |-> IF first /\ u = 1
              THEN [email |-> m, pass |-> TRUE, verified |-> TRUE, locked |-> FALSE, enabled |-> TRUE,
                    linked |-> l, made |-> "LOCAL", admin |-> selfHosted] ELSE NoUser]
         /\ tokens = IF first THEN {[id |-> 1, user |-> 1]} ELSE {}
         /\ jar = [b \in Browsers |-> IF first /\ b = Here THEN [access |-> m, refresh |-> 1] ELSE NoCookie]
         /\ nextUser = IF first THEN 2 ELSE 1
         /\ nextToken = IF first THEN 2 ELSE 1
    /\ inRedis = {} /\ inMemory = {} /\ nextMail = 1
    /\ req = [r \in Reqs |-> Idle] /\ answer = [r \in Reqs |-> "none"]
    /\ requests = 0 /\ faults = 0 /\ revoked = {} /\ used = {} /\ expired = {}
    /\ call = [c \in Calls |-> NoCall] /\ flight = [t \in Tabs |-> "none"]
    /\ calls = 0 /\ ages = 0 /\ away = FALSE

Next ==
    \/ \E r \in Reqs : (Requests(r) /\ UNCHANGED web) \/ Step(r) \/ Answered(r) \/ Refreshed(r) \/ AnswerLost(r)
    \/ Trouble
    \/ \E c \in Calls : (\E t \in Tabs : Send(c, t)) \/ Serve(c) \/ Return(c) \/ RefreshOnce(c)
    \/ \E t \in Tabs : Abort(t)
    \/ AccessExpires \/ SessionEnds

\* Calls that were sent are answered, and the page goes on with the answer.
Fair ==
    /\ Init /\ [][Next]_all
    /\ \A r \in Reqs : WF_all(Step(r)) /\ WF_all(Answered(r)) /\ WF_all(Refreshed(r))
    /\ \A c \in Calls : WF_all(Serve(c)) /\ WF_all(Return(c)) /\ WF_all(RefreshOnce(c))
    /\ \A t \in Tabs : WF_all(Abort(t))

------------------------------------------------------------------------------
(* Properties.                                                              *)

\* In a single tab a session that nobody ends goes on: whatever calls are
\* refused together, and however often the access token expires, none of them
\* fails, and the browser keeps a refresh token that is good.
SessionKept ==
    mode = "tab" /\ faults = 0 /\ ~away =>
        /\ ~\E c \in Calls : call[c].pc = "refused" /\ call[c].again
        /\ (\A t \in Tabs : flight[t] = "none") => \E t \in tokens : t.id = jar[Here].refresh

\* Every call of a page returns, also of a user whose requests are all refused
\* although the session can be refreshed.
CallsReturn == \A c \in Calls : call[c] # NoCall ~> call[c] = NoCall
==============================================================================
