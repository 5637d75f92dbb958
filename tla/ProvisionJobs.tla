---------------------------- MODULE ProvisionJobs ----------------------------
(***************************************************************************)
(* The remote-server provision queue: rows of remote_server_provision_jobs *)
(* enqueued by the API, worked off over SSH by the provision-worker        *)
(* process, and deleted under the worker's feet by the retention purge, by *)
(* account deletion and by the dissolution of the organization.            *)
(*                                                                         *)
(* Every await of the code is a step boundary.  A worker process runs one  *)
(* call of processNextPendingJob per timer tick; Slots are the calls that  *)
(* may be alive in one process at once, kept apart only by isProcessing.   *)
(***************************************************************************)
EXTENDS Naturals, FiniteSets

CONSTANTS
    MaxJobs,     \* bound: rows ever enqueued
    MaxLog,      \* bound: chunks of output kept (MAX_LOG_CHARS)
    MaxFaults,   \* bound: worker crashes and failed database calls
    Kinds,       \* the job kinds requested
    Users,       \* members of the organization, or invited ones
    Enqueuers,   \* bound: the users who enqueue jobs and may delete their account
    Servers,     \* remote servers of the organization
    Bootstrap,   \* the self-hosted "This Server" rows among Servers
    BuildServers,\* those whose server_role is "build"
    Workers,     \* provision-worker processes
    Slots,       \* overlapping calls of processNextPendingJob in one process
    Requests     \* concurrent enqueue requests served by the API

AllKinds == {"provision", "docker_purge", "nixpacks_install", "traefik_redeploy"}

ASSUME ProvisionAssumption ==
    /\ MaxJobs \in Nat /\ MaxLog \in Nat \ {0} /\ MaxFaults \in Nat
    /\ Kinds \subseteq AllKinds /\ Servers # {}
    /\ Enqueuers \subseteq Users /\ Enqueuers # {}
    /\ Bootstrap \subseteq Servers /\ BuildServers \subseteq Servers

JobId == 1..MaxJobs
Calls == Workers \X Slots

\* How the workspace runs it: one provision-worker process.
SingleWorker == \A v, w \in Workers : v = w

VARIABLES
    status,      \* column status of each row, "absent" when there is no row
    cols,        \* the columns written at insert: kind, server, owner
    log,         \* column log: how many chunks of the output it holds
    nextId,      \* the id of the next row (createdAt order)
    req,         \* enqueue requests between their check and their insert
    member,      \* users with a membership that may maintain the servers
    account,     \* progress of the deletion of each account
    servers,     \* the rows of remote_servers that exist
    up,          \* the worker processes that are running
    busy,        \* those whose isProcessing is set
    call,        \* the calls of processNextPendingJob
    inflight,    \* log updates sent without await and not applied yet
    faults,      \* faults so far
    asked,       \* history: kind of the enqueue request behind each row
    starts,      \* history: how often the script of a job was started
    ran,         \* history: kind of script last started for a job
    outcome,     \* history: what the last script of a job returned
    abandoned    \* history: jobs a crash or a failed last write left running

table == <<status, cols, log, nextId>>
org == <<member, account, servers>>
worker == <<up, busy, call>>
history == <<asked, starts, ran, outcome, abandoned>>
vars == <<status, cols, log, nextId, req, member, account, servers, up, busy, call,
          inflight, faults, asked, starts, ran, outcome, abandoned>>

Statuses == {"absent", "pending", "running", "done", "error"}
Columns == [kind : AllKinds, server : Servers, owner : Enqueuers]
NoColumns == CHOOSE x \in Columns : x.kind = "provision"   \* before the insert
PCs == {"idle", "find", "recheck", "claim", "kind", "context", "header",
        "connect", "script", "done", "fail"}
CallState == [pc : PCs, job : 0..MaxJobs, kind : AllKinds, buf : 0..MaxLog]
Idle == [pc |-> "idle", job |-> 0, kind |-> "provision", buf |-> 0]
NoRequest == [pc |-> "idle"]

\* A call past its look at the table works on a row.
CallsOK ==
    /\ call \in [Calls -> CallState]
    /\ \A c \in Calls : call[c].pc \notin {"idle", "find"} => call[c].job \in JobId

TypeOK ==
    /\ status \in [JobId -> Statuses]
    /\ cols \in [JobId -> Columns]
    /\ log \in [JobId -> 0..MaxLog]
    /\ nextId \in 1..(MaxJobs + 1)
    /\ req \in [Requests -> {NoRequest} \cup [pc : {"insert"}, cols : Columns]]
    /\ member \subseteq Users
    /\ account \in [Enqueuers -> {"active", "left", "deleted"}]
    /\ servers \subseteq Servers
    /\ up \subseteq Workers
    /\ busy \subseteq Workers
    /\ CallsOK
    /\ inflight \in [JobId -> SUBSET (0..MaxLog)]
    /\ faults \in 0..MaxFaults
    /\ asked \in [JobId -> AllKinds]
    /\ starts \in [JobId -> Nat]
    /\ ran \in [JobId -> AllKinds \cup {"none"}]
    /\ outcome \in [JobId -> {"none", "ok", "failed"}]
    /\ abandoned \subseteq JobId

------------------------------------------------------------------------------
(* Rows and the in-memory state of a call.                                  *)

Exists(j) == status[j] # "absent"
Pending == {j \in JobId : status[j] = "pending"}

\* Repository.update: a row that is gone is not an error, nothing is written.
SetStatus(j, s) == status' = [status EXCEPT ![j] = IF Exists(j) THEN s ELSE @]
SetLog(j, n) == log' = [log EXCEPT ![j] = IF Exists(j) THEN n ELSE @]

\* The rows S are deleted by one statement or transaction.
DeleteRows(S) == status' = [j \in JobId |-> IF j \in S THEN "absent" ELSE status[j]]

Goto(c, pc) == call' = [call EXCEPT ![c].pc = pc]

\* Mutant of Return: no finally block around the call.
ReturnKeepingFlag(c) ==
    /\ call' = [call EXCEPT ![c] = Idle]
    /\ UNCHANGED busy

\* The call returns or throws: finally { isProcessing = false }.
Return(c) ==
    /\ call' = [call EXCEPT ![c] = Idle]
    /\ busy' = busy \ {c[1]}

MinOf(a, b) == IF a < b THEN a ELSE b

\* getSshProvisionContext finds the server and the owner may maintain it.
MayMaintain(u, s) == s \in servers /\ u \in member

------------------------------------------------------------------------------
(* The API process: enqueueProvision, enqueueDockerPurge,                   *)
(* enqueueNixpacksInstall, enqueueTraefikRedeploy.                          *)

\* What each enqueue operation refuses.
Refused(k, s) ==
    \/ k = "docker_purge" /\ s \in Bootstrap
    \/ k = "traefik_redeploy" /\ s \in BuildServers

EnqueueCheck(r, k, s, u) ==
    /\ req[r] = NoRequest
    /\ account[u] # "deleted"
    /\ MayMaintain(u, s)
    /\ ~Refused(k, s)
    /\ req' = [req EXCEPT ![r] = [pc   |-> "insert",
                                  cols |-> [kind |-> k, server |-> s, owner |-> u]]]
    /\ UNCHANGED <<table, org, worker, inflight, faults, history>>

EnqueueInsert(r) ==
    /\ req[r].pc = "insert"
    /\ nextId \in JobId
    /\ status' = [status EXCEPT ![nextId] = "pending"]
    /\ cols' = [cols EXCEPT ![nextId] = req[r].cols]
    /\ log' = [log EXCEPT ![nextId] = 0]
    /\ asked' = [asked EXCEPT ![nextId] = req[r].cols.kind]
    /\ nextId' = nextId + 1
    /\ req' = [req EXCEPT ![r] = NoRequest]
    /\ UNCHANGED <<org, worker, inflight, faults, starts, ran, outcome, abandoned>>

\* The insert fails: the request ends with an error and leaves no row.
EnqueueFails(r) ==
    /\ req[r].pc = "insert"
    /\ req' = [req EXCEPT ![r] = NoRequest]
    /\ UNCHANGED <<table, org, worker, inflight, faults, history>>
------------------------------------------------------------------------------
(* The organization, its members and servers, while jobs are queued.        *)

AddMember(u) ==
    /\ member # {}
    /\ u \in Enqueuers => account[u] # "deleted"
    /\ member' = member \cup {u}
    /\ UNCHANGED <<table, req, account, servers, worker, inflight, faults, history>>

\* leaveOrganizationAsUser: the last member takes the organization, its
\* servers and its job rows along, in one transaction.
Leave(u) ==
    /\ u \in member
    /\ member' = member \ {u}
    /\ IF member = {u}
       THEN /\ DeleteRows(JobId)
            /\ servers' = {}
       ELSE UNCHANGED <<status, servers>>
    /\ UNCHANGED <<cols, log, nextId, req, account, worker, inflight, faults, history>>

\* deleteUserAndRelatedRows: leave every organization until a look finds no
\* membership, then delete the user's job rows and the user in a transaction.
LeftEveryOrganization(u) ==
    /\ account[u] = "active"
    /\ u \notin member
    /\ account' = [account EXCEPT ![u] = "left"]
    /\ UNCHANGED <<table, req, member, servers, worker, inflight, faults, history>>

DeleteUserRows(u) ==
    /\ account[u] = "left"
    /\ account' = [account EXCEPT ![u] = "deleted"]
    /\ DeleteRows({j \in JobId : cols[j].owner = u})
    /\ UNCHANGED <<cols, log, nextId, req, member, servers, worker, inflight, faults, history>>

\* Removing a server leaves its job rows.
RemoveServer(s) ==
    /\ s \in servers \ Bootstrap
    /\ servers' = servers \ {s}
    /\ UNCHANGED <<table, req, member, account, worker, inflight, faults, history>>

\* purgeStaleCompletedJobs: ended rows old enough; any process runs it.
Purge(S) ==
    /\ S # {}
    /\ \A j \in S : status[j] \in {"done", "error"}
    /\ DeleteRows(S)
    /\ UNCHANGED <<cols, log, nextId, req, org, worker, inflight, faults, history>>

------------------------------------------------------------------------------
(* The worker process: one call of processNextPendingJob.                   *)

\* A timer tick.  While another call is in progress it returns at once.
Tick(c) ==
    /\ c[1] \in up
    /\ call[c].pc = "idle"
    /\ c[1] \notin busy
    /\ busy' = busy \cup {c[1]}
    /\ Goto(c, "find")
    /\ UNCHANGED <<table, req, org, up, inflight, faults, history>>

\* Mutant of FindPending: order createdAt DESC.
FindNewestPending(c) ==
    /\ call[c].pc = "find"
    /\ IF Pending = {}
       THEN Return(c)
       ELSE /\ \E j \in Pending :
                 /\ \A i \in Pending : j >= i
                 /\ call' = [call EXCEPT ![c] = [@ EXCEPT !.pc = "recheck", !.job = j]]
            /\ UNCHANGED busy
    /\ UNCHANGED <<table, req, org, up, inflight, faults, history>>

FindPending(c) ==
    /\ call[c].pc = "find"
    /\ IF Pending = {}
       THEN Return(c)
       ELSE /\ \E j \in Pending :
                 /\ \A i \in Pending : j <= i
                 /\ call' = [call EXCEPT ![c] = [@ EXCEPT !.pc = "recheck", !.job = j]]
            /\ UNCHANGED busy
    /\ UNCHANGED <<table, req, org, up, inflight, faults, history>>

\* runProvisionJob reads the row again ...
Recheck(c) ==
    /\ call[c].pc = "recheck"
    /\ IF status[call[c].job] # "pending"
       THEN Return(c)
       ELSE Goto(c, "claim") /\ UNCHANGED busy
    /\ UNCHANGED <<table, req, org, up, inflight, faults, history>>

\* Mutant of Claim: save({ id, status, log }) writes the default job_kind.
ClaimBySave(c) ==
    LET j == call[c].job IN
    /\ call[c].pc = "claim"
    /\ SetStatus(j, "running")
    /\ SetLog(j, 0)
    /\ cols' = [cols EXCEPT ![j].kind = "provision"]
    /\ Goto(c, "kind")
    /\ UNCHANGED <<nextId, req, org, up, busy, inflight, faults, history>>

\* ... and then updates it whatever its status has become.
Claim(c) ==
    LET j == call[c].job IN
    /\ call[c].pc = "claim"
    /\ SetStatus(j, "running")
    /\ SetLog(j, 0)
    /\ Goto(c, "kind")
    /\ UNCHANGED <<cols, nextId, req, org, up, busy, inflight, faults, history>>

\* resolveJobKindFromDb: a row that is gone counts as "provision".
ResolveKind(c) ==
    LET j == call[c].job IN
    /\ call[c].pc = "kind"
    /\ LET k == IF Exists(j) THEN cols[j].kind ELSE "provision" IN
       call' = [call EXCEPT ![c] = [@ EXCEPT !.pc = "context", !.kind = k]]
    /\ UNCHANGED <<table, req, org, up, busy, inflight, faults, history>>

\* Server, permission, key, Traefik settings and script text.
LoadContext(c) ==
    LET j == call[c].job IN
    /\ call[c].pc = "context"
    /\ \/ MayMaintain(cols[j].owner, cols[j].server) /\ Goto(c, "header")
       \/ Goto(c, "fail")
    /\ UNCHANGED <<table, req, org, up, busy, inflight, faults, history>>

WriteHeader(c) ==
    /\ call[c].pc = "header"
    /\ SetLog(call[c].job, 1)
    /\ call' = [call EXCEPT ![c] = [@ EXCEPT !.pc = "connect", !.buf = 1]]
    /\ UNCHANGED <<status, cols, nextId, req, org, up, busy, inflight, faults, history>>

\* execSshBashScript: connect, pin the host key, start bash on the host.
StartScript(c) ==
    LET j == call[c].job IN
    /\ call[c].pc = "connect"
    /\ Goto(c, "script")
    /\ starts' = [starts EXCEPT ![j] = @ + 1]
    /\ ran' = [ran EXCEPT ![j] = call[c].kind]
    /\ UNCHANGED <<table, req, org, up, busy, inflight, faults, asked, outcome, abandoned>>

ConnectFails(c) ==
    /\ call[c].pc = "connect"
    /\ Goto(c, "fail")
    /\ UNCHANGED <<table, req, org, up, busy, inflight, faults, history>>

\* Mutant of Output: the buffer is not cut to MAX_LOG_CHARS.
OutputWithoutSlice(c) ==
    /\ call[c].pc = "script"
    /\ call' = [call EXCEPT ![c].buf = @ + 1]
    /\ UNCHANGED <<table, req, org, up, busy, inflight, faults, history>>

\* appendLog without await: the buffer grows at once, the row later.
Output(c) ==
    LET n == MinOf(call[c].buf + 1, MaxLog) IN
    /\ call[c].pc = "script"
    /\ call' = [call EXCEPT ![c].buf = n]
    /\ inflight' = [inflight EXCEPT ![call[c].job] = @ \cup {n}]
    /\ UNCHANGED <<table, req, org, up, busy, faults, history>>

\* Mutant of ScriptExits: the exit code of the script is not looked at.
ScriptExitsIgnoringCode(c) ==
    /\ call[c].pc = "script"
    /\ \E ok \in BOOLEAN :
         /\ Goto(c, "done")
         /\ outcome' = [outcome EXCEPT ![call[c].job] = IF ok THEN "ok" ELSE "failed"]
    /\ UNCHANGED <<table, req, org, up, busy, inflight, faults, asked, starts, ran, abandoned>>

ScriptExits(c) ==
    /\ call[c].pc = "script"
    /\ \E ok \in BOOLEAN :
         /\ Goto(c, IF ok THEN "done" ELSE "fail")
         /\ outcome' = [outcome EXCEPT ![call[c].job] = IF ok THEN "ok" ELSE "failed"]
    /\ UNCHANGED <<table, req, org, up, busy, inflight, faults, asked, starts, ran, abandoned>>

\* The last write of a call: status and log; then the flag is released.
EndWith(c, s) ==
    /\ SetStatus(call[c].job, s)
    /\ SetLog(call[c].job, call[c].buf)
    /\ Return(c)
    /\ UNCHANGED <<cols, nextId, req, org, up, inflight, faults, history>>

WriteDone(c) == call[c].pc = "done" /\ EndWith(c, "done")
\* Mutant of WriteError: the catch block only logs.
ErrorOnlyLogged(c) ==
    /\ call[c].pc = "fail"
    /\ Return(c)
    /\ UNCHANGED <<table, req, org, up, inflight, faults, history>>

WriteError(c) == call[c].pc = "fail" /\ EndWith(c, "error")

\* Mutant of ApplyAppend: appendLog saves the entity it loaded, status included.
ApplyAppendBySave(j, n) ==
    /\ n \in inflight[j]
    /\ SetLog(j, n)
    /\ SetStatus(j, "running")
    /\ inflight' = [inflight EXCEPT ![j] = @ \ {n}]
    /\ UNCHANGED <<cols, nextId, req, org, worker, faults, history>>

\* A log update sent earlier reaches the database, in any order.
ApplyAppend(j, n) ==
    /\ n \in inflight[j]
    /\ SetLog(j, n)
    /\ inflight' = [inflight EXCEPT ![j] = @ \ {n}]
    /\ UNCHANGED <<status, cols, nextId, req, org, worker, faults, history>>

\* A database call of the worker throws.  Before the try block the call ends
\* and the row stays as it is; inside it the catch block runs; in the catch
\* block the row is left "running".
DatabaseFails(c) ==
    /\ faults < MaxFaults
    /\ faults' = faults + 1
    /\ \/ /\ call[c].pc \in {"find", "recheck", "claim"}
          /\ Return(c)
          /\ UNCHANGED abandoned
       \/ /\ call[c].pc \in {"kind", "context", "done"}
          /\ Goto(c, "fail")
          /\ UNCHANGED <<busy, abandoned>>
       \/ /\ call[c].pc = "header"      \* the buffer has grown already
          /\ call' = [call EXCEPT ![c] = [@ EXCEPT !.pc = "fail", !.buf = 1]]
          /\ UNCHANGED <<busy, abandoned>>
       \/ /\ call[c].pc = "fail"
          /\ Return(c)
          /\ abandoned' = abandoned \cup {call[c].job}
    /\ UNCHANGED <<table, req, org, up, inflight, asked, starts, ran, outcome>>

\* Crash, SIGKILL, SIGTERM (process.exit does not wait for the job), or an
\* unhandled rejection: of an append sent without await, or of the pinning of
\* the host key, whose .then() has no .catch().
Crash(w) ==
    /\ w \in up
    /\ faults < MaxFaults
    /\ faults' = faults + 1
    /\ up' = up \ {w}
    /\ busy' = busy \ {w}
    /\ call' = [c \in Calls |-> IF c[1] = w THEN Idle ELSE call[c]]
    /\ abandoned' = abandoned \cup {call[c].job : c \in {d \in Calls :
                          d[1] = w /\ call[d].pc \notin {"idle", "find", "recheck", "claim"}}}
    /\ UNCHANGED <<table, req, org, inflight, asked, starts, ran, outcome>>

\* A new process polls; nothing looks for rows left "running".
Restart(w) ==
    /\ w \notin up
    /\ up' = up \cup {w}
    /\ UNCHANGED <<table, req, org, busy, call, inflight, faults, history>>

------------------------------------------------------------------------------

Init ==
    /\ status = [j \in JobId |-> "absent"]
    /\ cols = [j \in JobId |-> NoColumns]
    /\ asked = [j \in JobId |-> NoColumns.kind]
    /\ log = [j \in JobId |-> 0]
    /\ nextId = 1
    /\ req = [r \in Requests |-> NoRequest]
    /\ member = Users
    /\ account = [u \in Enqueuers |-> "active"]
    /\ servers = Servers
    /\ up = Workers
    /\ busy = {}
    /\ call = [c \in Calls |-> Idle]
    /\ inflight = [j \in JobId |-> {}]
    /\ faults = 0
    /\ starts = [j \in JobId |-> 0]
    /\ ran = [j \in JobId |-> "none"]
    /\ outcome = [j \in JobId |-> "none"]
    /\ abandoned = {}

EnqueueNext ==
    \E r \in Requests :
        \/ \E k \in Kinds, s \in Servers, u \in Enqueuers : EnqueueCheck(r, k, s, u)
        \/ EnqueueInsert(r)
        \/ EnqueueFails(r)

OrgNext ==
    \/ \E u \in Users : AddMember(u) \/ Leave(u)
    \/ \E u \in Enqueuers : LeftEveryOrganization(u) \/ DeleteUserRows(u)
    \/ \E s \in Servers : RemoveServer(s)
    \/ \E S \in SUBSET JobId : Purge(S)

\* The steps the running process takes by itself, once a call has begun.
Advance(c) ==
    \/ FindPending(c) \/ Recheck(c) \/ Claim(c) \/ ResolveKind(c) \/ LoadContext(c)
    \/ WriteHeader(c) \/ StartScript(c) \/ ConnectFails(c) \/ WriteDone(c) \/ WriteError(c)

CallNext ==
    \E c \in Calls :
        Tick(c) \/ Advance(c) \/ Output(c) \/ ScriptExits(c) \/ DatabaseFails(c)

ProcessNext ==
    \/ \E w \in Workers : Crash(w) \/ Restart(w)
    \/ \E j \in JobId, n \in 0..MaxLog : ApplyAppend(j, n)

Next == EnqueueNext \/ OrgNext \/ CallNext \/ ProcessNext

Spec == Init /\ [][Next]_vars

\* setInterval keeps ticking and awaited calls settle; external: the deployment
\* restarts the process, and a script started on a host ends.  Users, the
\* purge, crashes and the delivery of unawaited log updates are not fair.
Fairness ==
    /\ \A w \in Workers :
         /\ WF_vars(\E s \in Slots : Tick(<<w, s>>))
         /\ WF_vars(Restart(w))
    /\ \A c \in Calls : WF_vars(Advance(c)) /\ WF_vars(ScriptExits(c))

FairSpec == Spec /\ Fairness

------------------------------------------------------------------------------
(* Properties.                                                              *)

\* The script of a job is started at most once, however ticks, crashes,
\* restarts and deletions of its row interleave (processNextPendingJob).
ScriptStartsAtMostOnce == \A j \in JobId : starts[j] <= 1

\* A row says "done" only if its own script ran and exited with 0.
DoneMeansSucceeded == \A j \in JobId : status[j] = "done" => outcome[j] = "ok"

\* As long as its row exists, a job runs the kind of script it was enqueued
\* for: no write of the worker wipes job_kind, and only a row deleted in mid
\* run makes resolveJobKindFromDb fall back to "provision".
KindIsKeptWhileRowExists ==
    \A j \in JobId : Exists(j) /\ ran[j] # "none" => ran[j] = asked[j]

\* Scripts start in the order their jobs were enqueued.
NoOvertaking ==
    [][\A i, j \in JobId : i < j /\ starts'[j] # starts[j] => status[i] # "pending"]_vars

\* An ended row keeps its status until it is deleted, whatever late log
\* updates, other calls and restarts do.
EndedStaysEnded ==
    [][\A j \in JobId : status[j] \in {"done", "error"} => status'[j] \in {status[j], "absent"}]_vars

\* The queue is the ledger its users see: a numbered job whose row is not
\* there was deleted.
PhaseOf(j) ==
    IF Exists(j) THEN status[j] ELSE IF j < nextId THEN "gone" ELSE "none"

Ledger == INSTANCE JobLedger WITH
    phase <- [j \in JobId |-> PhaseOf(j)],
    runs <- starts
ImplementsLedger == Ledger!LedgerSpec

\* Every pending job is taken up, unless its row is deleted first.
PendingIsServed == \A j \in JobId : status[j] = "pending" ~> status[j] # "pending"

\* Nothing but a crash or a failed last write leaves a job "running" for good.
RunningSettles ==
    \A j \in JobId : status[j] = "running" ~> (status[j] # "running" \/ j \in abandoned)
==============================================================================
