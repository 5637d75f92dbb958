---------------------------- MODULE ServicePage ----------------------------
(***************************************************************************)
(* The page of a service in a browser, next to the API of ServiceDeploys.  *)
(* The page keeps the service as it last got it, a badge that says whether *)
(* it runs, and forms that save themselves a moment after the last change  *)
(* and are filled again when the text or the environment they came from    *)
(* has changed.  What others do reaches it over a socket: "data" says that *)
(* something was saved and makes it ask again, a runtime message carries   *)
(* the value itself, with a number from Redis.                             *)
(*                                                                         *)
(* Mode "page" edits an application that has no host, "watch" deploys,     *)
(* starts and stops a database; this page and others both do.  In the      *)
(* other modes nobody looks.                                               *)
(***************************************************************************)
EXTENDS ServiceDeploys, Sequences

CONSTANTS
    Typable,     \* what is typed into a form
    MaxTyped     \* bound: changes typed into the forms

ASSUME PageAssumption == Typable \subseteq Version /\ MaxTyped \in Nat

VARIABLES
    cache,      \* the service as the page last got it
    draft,      \* what the forms hold
    dirty,      \* and which of them wait to be saved
    badge,      \* "running on host"
    get, ping,  \* questions under way: for the service, for its runtime state
    asked,      \* requests of this page
    tell,       \* the API finding out the runtime state to tell it to everyone
    seq,        \* the counter in Redis
    seen,       \* the highest number the page has got
    inbox,      \* messages on their way
    sock,
    typed,
    missed,     \* history: a save was not told to the page, nor asked for since
    adrift,     \* history: forms typed in while they were saved, or not filled again
    blurred,    \* history: requests, or runtime states, of "watch" have crossed each other
    clock       \* history: a number was taken from the clock

web == <<cache, draft, dirty, badge, get, ping, asked, tell, seq, seen, inbox, sock>>
history == <<missed, adrift, blurred, clock>>
pageVars == <<vars, web, typed, history>>

Forms == {"nets", "env"}
Shown(r) == [text |-> r.text, env |-> r.env]
InText(c, f) == IF f = "nets" THEN c.text.nets ELSE c.env
HostUp == row.host # NoHost /\ stack[row.host].up

None == [pc |-> "none"]
Asked == [pc |-> "asked"]
NoAsk == [what |-> "none"]
ClockSeq == MaxPage + 1          \* a time is above every number of the counter
Data == [of |-> "data"]

PageTypeOK ==
    /\ TypeOK
    /\ cache \in [text : Text \cup {NoText}, env : Version]
    /\ draft \in [Forms -> Version \cup {0}] /\ dirty \subseteq Forms /\ adrift \subseteq Forms
    /\ badge \in BOOLEAN
    /\ get \in {None, Asked} \cup [pc : {"got"}, row : [text : Text \cup {NoText}, env : Version]]
    /\ ping \in {None, Asked} \cup [pc : {"got"}, up : BOOLEAN]
    /\ asked \in [Procs -> {NoAsk} \cup [what : Forms \cup {"deploy", "start", "shutdown"},
                                         value : Version \cup {0}]]
    /\ tell \in [Procs -> {None} \cup [pc : {"read"}, what : {"deploy", "start", "shutdown"}]
                               \cup [pc : {"send"}, up : BOOLEAN]]
    /\ seq \in 0..MaxPage /\ seen \in 0..ClockSeq
    /\ \A i \in DOMAIN inbox :
         inbox[i] \in {Data} \cup [of : {"runtime"}, up : BOOLEAN, seq : 1..ClockSeq]
    /\ sock \in {"off", "connected", "joined", "refused"}
    /\ typed \in 0..MaxTyped
    /\ missed \in BOOLEAN /\ blurred \in BOOLEAN /\ clock \in BOOLEAN

Saving(f) == \E p \in Procs : asked[p].what = f
Serving(p) == op[p] # Idle \/ tell[p] # None
\* Requests differ in nothing else: the first that is free is taken.
Free(p) ==
    LET free == {x \in Procs : asked[x] = NoAsk /\ ~Serving(x)} IN
    p \in free /\ p = CHOOSE x \in free : TRUE
NothingServed == \A p \in Procs : ~Serving(p)

------------------------------------------------------------------------------
(* Asking, and what is done with the answers.                               *)

\* Mutant of Refetch: a question under way is answer enough.
RefetchJoins ==
    /\ get' = IF mode = "page" /\ get = None THEN Asked ELSE get
    /\ ping' = IF mode = "watch" /\ ping = None THEN Asked ELSE ping

\* invalidateServiceScopedQueries: whatever is under way is cancelled, and the
\* service and its runtime state are asked for again.  Only the one that can
\* have changed is followed: "page" saves, "watch" changes what runs.
Refetch ==
    /\ get' = IF mode = "page" THEN Asked ELSE get
    /\ ping' = IF mode = "watch" THEN Asked ELSE ping

\* Forms are filled from a text, or an environment, that is not the one they
\* were filled from; what was typed and not saved is gone.
Fill(c) ==
    LET renewed == {f \in Forms : c.text # cache.text \/ (f = "env" /\ c.env # cache.env)} IN
    /\ cache' = c
    /\ draft' = [f \in Forms |-> IF f \in renewed THEN InText(c, f) ELSE draft[f]]
    /\ dirty' = dirty \ renewed
    /\ adrift' = adrift \ renewed

GetRead ==
    /\ get = Asked
    /\ get' = [pc |-> "got", row |-> Shown(row)]
    /\ UNCHANGED <<vars, cache, draft, dirty, badge, ping, asked, tell, seq, seen, inbox, sock, typed,
                   history>>

GetAnswer ==
    /\ get.pc = "got"
    /\ Fill(get.row)
    /\ get' = None
    /\ UNCHANGED <<vars, badge, ping, asked, tell, seq, seen, inbox, sock, typed, missed, blurred,
                   clock>>

\* getRuntimeStatus asks Docker on the host, ...
PingRead ==
    /\ ping = Asked
    /\ ping' = [pc |-> "got", up |-> HostUp]
    /\ UNCHANGED <<vars, cache, draft, dirty, badge, get, asked, tell, seq, seen, inbox, sock, typed,
                   history>>

\* ... and says that nothing runs when the host does not answer.
PingTimesOut ==
    /\ ping = Asked /\ faults < MaxFaults
    /\ faults' = faults + 1
    /\ ping' = [pc |-> "got", up |-> FALSE] /\ blurred' = TRUE
    /\ UNCHANGED <<config, row, host, op, answer, push, script, head, saves, requests, moved>>
    /\ UNCHANGED <<cache, draft, dirty, badge, get, asked, tell, seq, seen, inbox, sock, typed, missed,
                   adrift, clock>>

PingAnswer ==
    /\ ping.pc = "got"
    /\ badge' = ping.up /\ ping' = None
    /\ UNCHANGED <<vars, cache, draft, dirty, get, asked, tell, seq, seen, inbox, sock, typed, history>>

\* The window is focused, or 0.7 or 2.5 seconds have passed since an action.
PingAgain ==
    /\ mode = "watch" /\ ping # Asked
    /\ ping' = Asked
    /\ UNCHANGED <<vars, cache, draft, dirty, badge, get, asked, tell, seq, seen, inbox, sock, typed,
                   history>>

------------------------------------------------------------------------------
(* The forms.                                                               *)

Type(f, v) ==
    /\ mode = "page" /\ typed < MaxTyped
    /\ typed' = typed + 1
    /\ draft' = [draft EXCEPT ![f] = v]
    /\ dirty' = dirty \cup {f}
    /\ adrift' = IF Saving(f) THEN adrift \cup {f} ELSE adrift \ {f}
    /\ UNCHANGED <<vars, cache, badge, get, ping, asked, tell, seq, seen, inbox, sock, missed, blurred,
                   clock>>

\* 600 ms after the last rendering that found the form dirty: also while an
\* earlier save of it is under way, and again after one that failed.
Autosave(p, f) ==
    /\ mode = "page" /\ f \in dirty
    /\ Free(p)
    /\ Begin(p, "edit", "store",
             IF f = "nets" THEN PatchNetworks(row, draft[f]) ELSE PatchEnv(row, draft[f]), f)
    /\ asked' = [asked EXCEPT ![p] = [what |-> f, value |-> draft[f]]]
    /\ adrift' = IF Saving(f) THEN adrift ELSE adrift \ {f}
    /\ UNCHANGED <<config, row, host, push, script, head, saves, faults, moved>>
    /\ UNCHANGED <<cache, draft, dirty, badge, get, ping, tell, seq, seen, inbox, sock, typed, missed,
                   blurred, clock>>

\* The form is clean, whatever was typed into it since, and the page asks.
Saved(p) ==
    LET f == asked[p].what IN
    /\ f \in Forms /\ ~Serving(p) /\ answer[p] = "ok"
    /\ asked' = [asked EXCEPT ![p] = NoAsk]
    /\ dirty' = dirty \ {f}
    /\ Refetch /\ missed' = FALSE
    /\ UNCHANGED <<vars, cache, draft, badge, tell, seq, seen, inbox, sock, typed, adrift, blurred,
                   clock>>

NotSaved(p) ==
    /\ asked[p].what \in Forms /\ ~Serving(p) /\ answer[p] # "ok"
    /\ asked' = [asked EXCEPT ![p] = NoAsk]
    /\ UNCHANGED <<vars, cache, draft, dirty, badge, get, ping, tell, seq, seen, inbox, sock, typed,
                   history>>

------------------------------------------------------------------------------
(* Deploy, start and stop.                                                  *)

Request(p, what) ==
    /\ mode = "watch" /\ Free(p)
    /\ IF what = "shutdown" THEN BeginStop(p, what) ELSE BeginDeploy(p, what)
    /\ blurred' = (blurred \/ ~NothingServed)

\* The buttons are disabled while an action of this page is pending, and the
\* badge decides whether there is one to start or one to stop.
Press(p, what) ==
    /\ \A other \in Procs : asked[other] = NoAsk
    /\ what = "start" => ~badge
    /\ what = "shutdown" => badge
    /\ Request(p, what)
    /\ asked' = [asked EXCEPT ![p] = [what |-> what, value |-> 0]]
    /\ UNCHANGED <<cache, draft, dirty, badge, get, ping, tell, seq, seen, inbox, sock, typed, missed,
                   adrift, clock>>

OtherRequest(p, what) ==
    /\ Request(p, what)
    /\ UNCHANGED <<web, typed, missed, adrift, clock>>

\* An action that succeeded sets the badge; that and a deployment, however it
\* ended, make the page ask for everything.
Done(p) ==
    LET what == asked[p].what IN
    /\ what \in {"deploy", "start", "shutdown"} /\ ~Serving(p)
    /\ what = "deploy" \/ answer[p] = "ok"
    /\ asked' = [asked EXCEPT ![p] = NoAsk]
    /\ badge' = IF what = "deploy" THEN badge ELSE what = "start"
    /\ Refetch /\ missed' = FALSE
    /\ blurred' = (blurred /\ (~NothingServed \/ inbox # <<>>))
    /\ UNCHANGED <<vars, cache, draft, dirty, tell, seq, seen, inbox, sock, typed, adrift,
                   clock>>

NotDone(p) ==
    /\ asked[p].what \in {"start", "shutdown"} /\ ~Serving(p) /\ answer[p] # "ok"
    /\ asked' = [asked EXCEPT ![p] = NoAsk]
    /\ UNCHANGED <<vars, cache, draft, dirty, badge, get, ping, tell, seq, seen, inbox, sock, typed,
                   history>>

------------------------------------------------------------------------------
(* What the API tells everyone, and how it reaches the page.                *)

Emit(m) == inbox' = IF sock = "joined" THEN Append(inbox, m) ELSE inbox
Lost == sock # "joined"
Missed(lost) == missed' = (missed \/ (mode = "page" /\ lost))   \* nobody follows the row in "watch"

OtherEdit(p, e) ==
    /\ mode = "page" /\ Free(p)
    /\ BeginEdit(p, e)
    /\ UNCHANGED <<web, typed, history>>

\* A save is told as soon as it is made, before its request is answered.  One
\* that puts back the text the page still has fills no form again.
SaveAndTell(p) ==
    /\ mode = "page"
    /\ Store(p)
    /\ Emit(Data) /\ Missed(Lost)
    /\ adrift' = IF row.text # cache.text /\ row'.text = cache.text THEN Forms ELSE adrift
    /\ UNCHANGED <<cache, draft, dirty, badge, get, ping, asked, tell, seq, seen, sock, typed, blurred,
                   clock>>

TellsOf(p) ==
    tell' = IF mode = "watch" /\ op'[p] = Idle /\ answer'[p] = "ok"
            THEN [tell EXCEPT ![p] = [pc |-> "read", what |-> op[p].what]] ELSE tell

\* A request that changed what runs goes on to find out what runs now; one
\* that failed tells nothing.
Serve(p) ==
    /\ mode = "watch"
    /\ Advance(p)
    /\ TellsOf(p)
    /\ UNCHANGED <<cache, draft, dirty, badge, get, ping, asked, seq, seen, inbox, sock, typed, history>>

\* A deployment has also changed the row, and says so first.
RuntimeRead(p) ==
    /\ tell[p].pc = "read"
    /\ tell' = [tell EXCEPT ![p] = [pc |-> "send", up |-> HostUp]]
    /\ IF tell[p].what = "deploy" THEN Emit(Data) /\ Missed(Lost)
       ELSE UNCHANGED <<inbox, missed>>
    /\ UNCHANGED <<vars, cache, draft, dirty, badge, get, ping, asked, seq, seen, sock, typed, adrift,
                   blurred, clock>>

TellTimesOut(p) ==
    /\ tell[p].pc = "read" /\ faults < MaxFaults
    /\ faults' = faults + 1
    /\ tell' = [tell EXCEPT ![p] = [pc |-> "send", up |-> FALSE]]
    /\ IF tell[p].what = "deploy" THEN Emit(Data) ELSE UNCHANGED inbox
    /\ blurred' = TRUE
    /\ UNCHANGED <<config, row, host, op, answer, push, script, head, saves, requests, moved>>
    /\ UNCHANGED <<cache, draft, dirty, badge, get, ping, asked, seq, seen, sock, typed, missed, adrift,
                   clock>>

Message(p, n) == [of |-> "runtime", up |-> tell[p].up, seq |-> n]

RuntimeTell(p) ==
    /\ tell[p].pc = "send"
    /\ seq' = seq + 1
    /\ Emit(Message(p, seq'))
    /\ tell' = [tell EXCEPT ![p] = None]
    /\ blurred' = (blurred \/ Lost)
    /\ UNCHANGED <<vars, cache, draft, dirty, badge, get, ping, asked, seen, sock, typed, missed,
                   adrift, clock>>

\* Redis does not answer, and the time takes the place of the number.
RuntimeTellClock(p) ==
    /\ tell[p].pc = "send" /\ faults < MaxFaults
    /\ faults' = faults + 1
    /\ Emit(Message(p, ClockSeq))
    /\ tell' = [tell EXCEPT ![p] = None]
    /\ clock' = TRUE /\ blurred' = (blurred \/ Lost)
    /\ UNCHANGED <<config, row, host, op, answer, push, script, head, saves, requests, moved>>
    /\ UNCHANGED <<cache, draft, dirty, badge, get, ping, asked, seq, seen, sock, typed, missed, adrift>>

HearData ==
    /\ inbox # <<>> /\ Head(inbox) = Data
    /\ inbox' = Tail(inbox)
    /\ Refetch /\ missed' = FALSE
    /\ UNCHANGED <<vars, cache, draft, dirty, badge, asked, tell, seq, seen, sock, typed, adrift,
                   blurred, clock>>

\* An older number is not looked at.  A question under way is not cancelled.
HearRuntime ==
    LET m == Head(inbox) IN
    /\ inbox # <<>> /\ m.of = "runtime"
    /\ inbox' = Tail(inbox)
    /\ IF m.seq < seen THEN UNCHANGED <<seen, badge>> ELSE seen' = m.seq /\ badge' = m.up
    /\ blurred' = (blurred \/ ping # None)
    /\ UNCHANGED <<vars, cache, draft, dirty, get, ping, asked, tell, seq, sock, typed, missed, adrift,
                   clock>>

------------------------------------------------------------------------------
(* The socket.                                                              *)

\* Once connected the page asks for the runtime state, and only for that; the
\* API may yet have to look up who it is before it lets it join the room.
Connect ==
    /\ mode \in {"page", "watch"} /\ sock = "off"
    /\ sock' = "connected"
    /\ ping' = IF mode = "watch" THEN Asked ELSE ping
    /\ blurred' = (blurred /\ ~NothingServed)
    /\ UNCHANGED <<vars, cache, draft, dirty, badge, get, asked, tell, seq, seen, inbox, typed, missed,
                   adrift, clock>>

Join ==
    /\ sock = "connected"
    /\ sock' = "joined"
    /\ UNCHANGED <<vars, cache, draft, dirty, badge, get, ping, asked, tell, seq, seen, inbox, typed,
                   history>>

\* Who is refused (a session that has expired) does not try again.
Refuse ==
    /\ sock = "connected" /\ faults < MaxFaults
    /\ faults' = faults + 1
    /\ sock' = "refused"
    /\ UNCHANGED <<config, row, host, op, answer, push, script, head, saves, requests, moved>>
    /\ UNCHANGED <<cache, draft, dirty, badge, get, ping, asked, tell, seq, seen, inbox, typed, history>>

\* Messages under way are lost with the socket.
Cut ==
    /\ sock' = IF sock = "refused" THEN sock ELSE "off"
    /\ inbox' = <<>>
    /\ Missed(\E i \in DOMAIN inbox : inbox[i] = Data)

Disconnect ==
    /\ sock \in {"connected", "joined"} /\ faults < MaxFaults
    /\ faults' = faults + 1
    /\ Cut /\ blurred' = (blurred \/ (mode = "watch" /\ inbox # <<>>))
    /\ UNCHANGED <<config, row, host, op, answer, push, script, head, saves, requests, moved>>
    /\ UNCHANGED <<cache, draft, dirty, badge, get, ping, asked, tell, seq, seen, typed, adrift, clock>>

\* A question fails, after it was tried again: the page keeps what it had.
AskingFails ==
    /\ faults < MaxFaults
    /\ faults' = faults + 1
    /\ \/ get # None /\ get' = None /\ missed' = TRUE /\ UNCHANGED <<ping, blurred>>
       \/ ping # None /\ ping' = None /\ blurred' = TRUE /\ UNCHANGED <<get, missed>>
    /\ UNCHANGED <<config, row, host, op, answer, push, script, head, saves, requests, moved>>
    /\ UNCHANGED <<cache, draft, dirty, badge, asked, tell, seq, seen, inbox, sock, typed, adrift,
                   clock>>

RequestFails(p) ==
    /\ mode \in {"page", "watch"}
    /\ Fails(p)
    /\ TellsOf(p)
    /\ blurred' = (blurred \/ mode = "watch")
    /\ UNCHANGED <<cache, draft, dirty, badge, get, ping, asked, seq, seen, inbox, sock, typed, missed,
                   adrift, clock>>

ApiRestarts ==
    /\ mode \in {"page", "watch"}
    /\ Restart
    /\ tell' = [p \in Procs |-> None]
    /\ Cut /\ blurred' = (blurred \/ mode = "watch")
    /\ UNCHANGED <<cache, draft, dirty, badge, get, ping, asked, seq, seen, typed, adrift, clock>>

------------------------------------------------------------------------------
\* The page is rendered by the server with what is there, and then connects.
PageInit ==
    /\ Init
    /\ cache = Shown(row)
    /\ draft = [f \in Forms |-> IF row.text = NoText THEN 0 ELSE InText(cache, f)]
    /\ dirty = {} /\ adrift = {}
    /\ badge = FALSE
    /\ get = None /\ ping = None
    /\ asked = [p \in Procs |-> NoAsk] /\ tell = [p \in Procs |-> None]
    /\ seq = 0 /\ seen = 0 /\ inbox = <<>> /\ sock = "off"
    /\ typed = 0
    /\ missed = FALSE /\ blurred = FALSE /\ clock = FALSE

Nobody ==
    /\ mode \in {"edit", "solo", "shared"}
    /\ Next
    /\ UNCHANGED <<web, typed, history>>

Browser ==
    \/ GetRead \/ GetAnswer \/ PingRead \/ PingTimesOut \/ PingAnswer \/ PingAgain
    \/ \E f \in Forms, v \in Typable : Type(f, v)
    \/ \E p \in Procs : (\E f \in Forms : Autosave(p, f)) \/ Saved(p) \/ NotSaved(p)
    \/ \E p \in Procs : (\E what \in {"deploy", "start", "shutdown"} : Press(p, what))
                        \/ Done(p) \/ NotDone(p)
    \/ HearData \/ HearRuntime \/ Connect \/ AskingFails

Api ==
    \/ \E p \in Procs : (\E f \in Forms : OtherEdit(p, f)) \/ SaveAndTell(p) \/ RequestFails(p)
    \/ \E p \in Procs : (\E what \in {"deploy", "start", "shutdown"} : OtherRequest(p, what))
                        \/ Serve(p) \/ RuntimeRead(p) \/ TellTimesOut(p)
                        \/ RuntimeTell(p) \/ RuntimeTellClock(p)
    \/ Join \/ Refuse \/ Disconnect \/ ApiRestarts

PageNext == Nobody \/ Browser \/ Api

PageSpec ==
    /\ PageInit /\ [][PageNext]_pageVars
    /\ \A p \in Procs : WF_vars(Advance(p))

------------------------------------------------------------------------------
(* Properties.                                                              *)

\* When nothing is going on the page shows the service as it is saved, and in
\* every form that does not wait to be saved what is in force, however saves
\* overlap: unless a save of somebody else never reached it, or the form was
\* typed in while it was being saved, or a save put back the text the page
\* still had.  After one action at a time, by anybody, the badge says what
\* runs, whatever messages were lost.
PageIsTrue ==
    NothingServed /\ get = None /\ ping = None /\ inbox = <<>> /\ (\A p \in Procs : asked[p] = NoAsk) =>
        /\ mode = "page" /\ ~missed =>
             /\ cache = Shown(row)
             /\ \A f \in Forms \ (dirty \cup adrift) : draft[f] = InText(cache, f)
        /\ mode = "watch" /\ ~blurred /\ ~clock => badge = HostUp
==============================================================================
