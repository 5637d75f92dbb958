------------------------------ MODULE CronSync ------------------------------
(***************************************************************************)
(* Cron jobs: rows of cron_jobs edited through the API, and the crontabs   *)
(* and script files of the deploy hosts that are made to follow them over  *)
(* SSH.  Creating and updating answer before the hosts are touched; the    *)
(* rest runs in the background, with the row as it was saved.  Removing    *)
(* cleans the host first.  Nothing orders the syncs of one job, nor two    *)
(* rewrites of one crontab, which are a read and a write.                  *)
(*                                                                         *)
(* Procs are the requests in progress, each with the sync it started.      *)
(***************************************************************************)
EXTENDS Naturals

CONSTANTS
    JobId,       \* the ids this organization's jobs may get; others take the rest
    MaxRev,      \* bound: versions of a schedule, script or notification
    MaxFaults,   \* bound: scripts and database calls that fail
    Servers,     \* remote servers of the organization
    NoServer,
    Convertible, \* the servers whose server_role may be changed
    Procs

ASSUME CronAssumption ==
    /\ JobId \subseteq Nat \ {0} /\ MaxRev \in Nat /\ MaxFaults \in Nat
    /\ Convertible \subseteq Servers /\ NoServer \notin Servers

Rev == 1..MaxRev

VARIABLES
    row,         \* rows of cron_jobs
    given,       \* the ids given to jobs so far
    lastRev,     \* the last version of a content used
    servers,     \* rows of remote_servers
    build,       \* those whose server_role is "build"
    dissolved,   \* the organization is gone
    line,        \* crontab of each host: the version scheduled for a job, or 0
    script,      \* script file of a job on each host: its version, or 0
    proc,        \* the requests in progress
    faults,
    failed       \* history: a sync or a removal has ended with an error, or
                 \* went on without noticing one

tables == <<row, given, lastRev>>
org == <<servers, build, dissolved>>
hosts == <<line, script>>
errors == <<faults, failed>>
vars == <<tables, org, hosts, proc, errors>>

Row == [active : BOOLEAN, server : Servers, rev : Rev]
NoRow == [server |-> NoServer]
Crontab == [JobId -> 0..MaxRev]
EmptyCrontab == [j \in JobId |-> 0]

\* The jobs whose lines `grep -F -v WEEHAWK_CRON_JOB:<id>` drops: the marker is
\* not anchored, so every id that begins with the digits of this one is taken.
Marks(id) == {j \in JobId : j = id \/ \E k \in 1..9 : j \div 10^k = id}

\* job: the entity in memory; prev: its server before an update; at: the host
\* a script runs on; table: what the script has read of the crontab there;
\* why: what it rewrites the crontab for.
Idle == [pc |-> "idle"]
Busy == [pc : {"check", "save", "resolve", "resolveNext", "upsert", "clean", "writeScript",
               "read", "write", "rmScript", "delete"},
         op : {"create", "update", "remove"}, id : JobId \cup {0}, job : Row,
         prev : Servers \cup {NoServer}, at : Servers \cup {NoServer},
         why : {"none", "move", "unlist", "install"}, table : Crontab]

\* Only a new job that is not yet saved has no id, and a script has its host.
Located(q) ==
    /\ q.pc \notin {"idle", "check", "save"} => q.id \in JobId
    /\ q.pc \in {"writeScript", "read", "write", "rmScript"} => q.at \in Servers
    /\ q.pc \in {"check", "save"} /\ q.op = "update" => q.id \in JobId
    /\ q.pc = "resolveNext" => q.prev \in Servers

TypeOK ==
    /\ row \in [JobId -> Row \cup {NoRow}]
    /\ given \subseteq JobId
    /\ lastRev \in 0..MaxRev
    /\ servers \subseteq Servers
    /\ build \subseteq Convertible
    /\ dissolved \in BOOLEAN
    /\ line \in [Servers -> Crontab]
    /\ script \in [Servers -> Crontab]
    /\ proc \in [Procs -> {Idle} \cup Busy]
    /\ \A p \in Procs : Located(proc[p])
    /\ faults \in 0..MaxFaults
    /\ failed \in BOOLEAN

Rows == {j \in JobId : row[j] # NoRow}

\* assertDeployServerById accepts the server.
Deployable(s) == s \in servers \ build

Start(p, op, pc, j, job) ==
    proc' = [proc EXCEPT ![p] = [pc |-> pc, op |-> op, id |-> j, job |-> job,
                                 prev |-> NoServer, at |-> NoServer, why |-> "none",
                                 table |-> EmptyCrontab]]
Goto(p, pc) == proc' = [proc EXCEPT ![p].pc = pc]
On(p, s, pc, why) == proc' = [proc EXCEPT ![p] = [@ EXCEPT !.pc = pc, !.at = s, !.why = why]]

\* The request has been answered, or has failed, and its sync is over.
Finish(p) == proc' = [proc EXCEPT ![p] = Idle]

\* A sync throws and is logged, a removal throws and is refused.
Throw(p) == Finish(p) /\ failed' = TRUE

\* removeCrontabEntry has no host to clean; only a removal has more to do.
Skip(p) == IF proc[p].op = "remove" THEN Goto(p, "delete") ELSE Finish(p)

------------------------------------------------------------------------------
(* create and update: the row.                                              *)

BeginCreate(p, s) ==
    /\ proc[p] = Idle
    /\ lastRev < MaxRev
    /\ Deployable(s)
    /\ lastRev' = lastRev + 1
    /\ Start(p, "create", "check", 0, [active |-> TRUE, server |-> s, rev |-> lastRev + 1])
    /\ UNCHANGED <<row, given, org, hosts, errors>>

\* Read the row, merge the request into it; the new server must be deployable.
BeginUpdate(p, j, active, s, newRev) ==
    /\ proc[p] = Idle
    /\ j \in Rows
    /\ newRev => lastRev < MaxRev
    /\ Deployable(s)
    /\ lastRev' = IF newRev THEN lastRev + 1 ELSE lastRev
    /\ proc' = [proc EXCEPT ![p] =
         [pc |-> "check", op |-> "update", id |-> j,
          job |-> [active |-> active, server |-> s, rev |-> IF newRev THEN lastRev' ELSE row[j].rev],
          prev |-> row[j].server, at |-> NoServer, why |-> "none", table |-> EmptyCrontab]]
    /\ UNCHANGED <<row, given, org, hosts, errors>>

\* saveScoped looks for the row, or for the membership of a new one, ...
Check(p) ==
    /\ proc[p].pc = "check"
    /\ IF dissolved \/ (proc[p].op = "update" /\ proc[p].id \notin Rows)
       THEN Finish(p)
       ELSE Goto(p, "save")
    /\ UNCHANGED <<tables, org, hosts, errors>>

\* ... and saves the whole entity, inserting it again if it is gone.
Save(p) ==
    LET q == proc[p] IN
    /\ q.pc = "save"
    /\ \E j \in JobId :
         /\ IF q.op = "create" THEN \A i \in given : i < j ELSE j = q.id
         /\ row' = [row EXCEPT ![j] = q.job]
         /\ given' = given \cup {j}
         /\ proc' = [proc EXCEPT ![p] = [@ EXCEPT
               !.id = j, !.pc = IF q.op = "create" THEN "upsert" ELSE "resolve"]]
    /\ UNCHANGED <<lastRev, org, hosts, errors>>

------------------------------------------------------------------------------
(* The background sync.                                                     *)

\* Mutant of Resolve: the host a job moved away from is not cleaned.
ResolveNextOnly(p) ==
    /\ proc[p].pc = "resolve"
    /\ Goto(p, "upsert")
    /\ UNCHANGED <<tables, org, hosts, errors>>

\* tryResolveCronRemoteServerId of the previous job, ...
Resolve(p) ==
    LET q == proc[p] IN
    /\ q.pc = "resolve"
    /\ Goto(p, IF Deployable(q.prev) THEN "resolveNext" ELSE "upsert")
    /\ UNCHANGED <<tables, org, hosts, errors>>

\* ... and of the saved one: a host that is not the new one's is cleaned.
ResolveNext(p) ==
    LET q == proc[p] IN
    /\ q.pc = "resolveNext"
    /\ IF Deployable(q.job.server) /\ q.job.server = q.prev
       THEN Goto(p, "upsert")
       ELSE On(p, q.prev, "read", "move")
    /\ UNCHANGED <<tables, org, hosts, errors>>

\* tryResolveCronRemoteServerId takes any error of the database for no server.
LookupFails(p) ==
    LET q == proc[p] IN
    /\ faults < MaxFaults
    /\ \/ q.pc = "resolve" /\ Goto(p, "upsert")
       \/ q.pc = "resolveNext" /\ On(p, q.prev, "read", "move")
       \/ q.pc = "clean" /\ Skip(p)
    /\ faults' = faults + 1
    /\ failed' = TRUE
    /\ UNCHANGED <<tables, org, hosts>>

\* Mutant of Upsert: the script file is not written before the crontab.
UpsertLineOnly(p) ==
    LET q == proc[p] IN
    /\ q.pc = "upsert"
    /\ \/ ~q.job.active /\ Goto(p, "clean")
       \/ q.job.active /\ Deployable(q.job.server) /\ On(p, q.job.server, "read", "install")
    /\ UNCHANGED <<tables, org, hosts, errors>>

\* Mutant of Upsert: goes on with the null of tryResolveCronRemoteServerId.
UpsertUnresolved(p) ==
    LET q == proc[p]
        s == IF Deployable(q.job.server) THEN q.job.server ELSE NoServer IN
    /\ q.pc = "upsert"
    /\ IF q.job.active THEN On(p, s, "writeScript", "none") ELSE Goto(p, "clean")
    /\ UNCHANGED <<tables, org, hosts, errors>>

\* upsertCrontabEntry of the job as it was saved.
Upsert(p) ==
    LET q == proc[p]
        s == q.job.server IN
    /\ q.pc = "upsert"
    /\ \/ ~q.job.active /\ Goto(p, "clean") /\ UNCHANGED failed
       \/ q.job.active /\ Deployable(s) /\ On(p, s, "writeScript", "none") /\ UNCHANGED failed
       \/ q.job.active /\ ~Deployable(s) /\ Throw(p)
    /\ UNCHANGED <<tables, org, hosts, faults>>

\* removeCrontabEntry, of a paused job and of one to be removed.
Clean(p) ==
    LET s == proc[p].job.server IN
    /\ proc[p].pc = "clean"
    /\ IF Deployable(s) THEN On(p, s, "read", "unlist") ELSE Skip(p)
    /\ UNCHANGED <<tables, org, hosts, errors>>

\* writeRemoteScriptFile.  Every script looks its server up before it starts.
WriteScript(p) ==
    LET q == proc[p] IN
    /\ q.pc = "writeScript"
    /\ IF q.at \in servers
       THEN /\ script' = [script EXCEPT ![q.at][q.id] = q.job.rev]
            /\ On(p, q.at, "read", "install")
            /\ UNCHANGED failed
       ELSE Throw(p) /\ UNCHANGED script
    /\ UNCHANGED <<tables, org, line, faults>>

\* What `( crontab -l | grep -F -v marker )`, and the new line of an install,
\* make of the lines they are given.
Rewritten(q, lines) ==
    [j \in JobId |-> IF j = q.id /\ q.why = "install" THEN q.job.rev
                     ELSE IF j \in Marks(q.id) THEN 0 ELSE lines[j]]

ReadCrontab(p) ==
    LET q == proc[p] IN
    /\ q.pc = "read"
    /\ IF q.at \in servers
       THEN /\ proc' = [proc EXCEPT ![p] = [@ EXCEPT
                           !.pc = "write", !.table = Rewritten(q, line[q.at])]]
            /\ UNCHANGED failed
       ELSE Throw(p)
    /\ UNCHANGED <<tables, org, hosts, faults>>

\* `crontab -l || true`: a crontab that cannot be read is taken for an empty one.
ReadFails(p) ==
    LET q == proc[p] IN
    /\ q.pc = "read" /\ q.at \in servers
    /\ faults < MaxFaults
    /\ faults' = faults + 1
    /\ failed' = TRUE
    /\ proc' = [proc EXCEPT ![p] = [@ EXCEPT
                   !.pc = "write", !.table = Rewritten(q, EmptyCrontab)]]
    /\ UNCHANGED <<tables, org, hosts>>

\* crontab tmp.
WriteCrontab(p) ==
    LET q == proc[p] IN
    /\ q.pc = "write"
    /\ line' = [line EXCEPT ![q.at] = q.table]
    /\ \/ q.why = "move" /\ Goto(p, "upsert")
       \/ q.why = "unlist" /\ Goto(p, "rmScript")
       \/ q.why = "install" /\ Finish(p)
    /\ UNCHANGED <<tables, org, script, errors>>

\* removeRemoteScriptFile.
RmScript(p) ==
    LET q == proc[p] IN
    /\ q.pc = "rmScript"
    /\ IF q.at \in servers
       THEN /\ script' = [script EXCEPT ![q.at][q.id] = 0]
            /\ Skip(p)
            /\ UNCHANGED failed
       ELSE Throw(p) /\ UNCHANGED script
    /\ UNCHANGED <<tables, org, line, faults>>

------------------------------------------------------------------------------
(* remove: the host first, then the row.                                    *)

BeginRemove(p, j) ==
    /\ proc[p] = Idle
    /\ j \in Rows
    /\ Start(p, "remove", "clean", j, row[j])
    /\ UNCHANGED <<tables, org, hosts, errors>>

DeleteRow(p) ==
    /\ proc[p].pc = "delete"
    /\ row' = [row EXCEPT ![proc[p].id] = NoRow]
    /\ Finish(p)
    /\ UNCHANGED <<given, lastRev, org, hosts, errors>>

------------------------------------------------------------------------------
(* Around the requests.                                                     *)

\* Mutant of Fails: remove only logs that the host was not cleaned.
FailsButRemoves(p) ==
    /\ proc[p] # Idle
    /\ faults < MaxFaults
    /\ faults' = faults + 1
    /\ failed' = TRUE
    /\ IF proc[p].op = "remove" THEN Goto(p, "delete") ELSE Finish(p)
    /\ UNCHANGED <<tables, org, hosts>>

\* A script or a database call fails, or the API process stops: a sync is
\* logged and forgotten, a removal is refused; nothing is tried again.
Fails(p) ==
    /\ proc[p] # Idle
    /\ faults < MaxFaults
    /\ faults' = faults + 1
    /\ Throw(p)
    /\ UNCHANGED <<tables, org, hosts>>

\* RemoteServersService.update and remove look at services, not at cron jobs.
ChangeRole(s) ==
    /\ s \in servers \cap Convertible
    /\ build' = IF s \in build THEN build \ {s} ELSE build \cup {s}
    /\ UNCHANGED <<tables, servers, dissolved, hosts, proc, errors>>

RemoveServer(s) ==
    /\ s \in servers
    /\ servers' = servers \ {s}
    /\ build' = build \ {s}
    /\ UNCHANGED <<tables, dissolved, hosts, proc, errors>>

\* deleteOrganizationAndScopedResources deletes rows and touches no host.
Dissolve ==
    /\ ~dissolved
    /\ dissolved' = TRUE
    /\ row' = [j \in JobId |-> NoRow]
    /\ servers' = {}
    /\ build' = {}
    /\ UNCHANGED <<given, lastRev, hosts, proc, errors>>

Init ==
    /\ row = [j \in JobId |-> NoRow]
    /\ given = {}
    /\ lastRev = 0
    /\ servers = Servers
    /\ build = {}
    /\ dissolved = FALSE
    /\ line = [s \in Servers |-> EmptyCrontab]
    /\ script = [s \in Servers |-> EmptyCrontab]
    /\ proc = [p \in Procs |-> Idle]
    /\ faults = 0
    /\ failed = FALSE

Begin(p) ==
    \/ \E s \in Servers : BeginCreate(p, s)
    \/ \E j \in JobId, active, newRev \in BOOLEAN, s \in Servers :
         BeginUpdate(p, j, active, s, newRev)
    \/ \E j \in JobId : BeginRemove(p, j)

Advance(p) ==
    \/ Check(p) \/ Save(p) \/ Resolve(p) \/ ResolveNext(p) \/ Upsert(p) \/ Clean(p)
    \/ WriteScript(p) \/ ReadCrontab(p) \/ WriteCrontab(p) \/ RmScript(p) \/ DeleteRow(p)

Next ==
    \/ \E p \in Procs : Begin(p) \/ Advance(p) \/ Fails(p) \/ LookupFails(p) \/ ReadFails(p)
    \/ \E s \in Servers : ChangeRole(s) \/ RemoveServer(s)
    \/ Dissolve

Spec == Init /\ [][Next]_vars

------------------------------------------------------------------------------
(* Properties.                                                              *)

Quiet == \A p \in Procs : proc[p] = Idle

\* The line of a job may be missing when another job was given an id it begins
\* with: JobsRunOnTheirServer shows how it goes.
Shadowed(j) == \E i \in given \ {j} : j \in Marks(i)

Synced(s, j) ==
    IF row[j] # NoRow /\ row[j].active /\ row[j].server = s
    THEN /\ script[s][j] = row[j].rev
         /\ line[s][j] = row[j].rev \/ (line[s][j] = 0 /\ Shadowed(j))
    ELSE line[s][j] = 0

\* With syncs one after the other, none failing or missing an error, every host
\* that has always been a deploy host schedules active jobs of its own only, in
\* their last version, and all of them but those a rewrite for an id with the
\* same first digits drops, through moves, pauses, removals and lost servers.
HostsFollowRows ==
    Quiet /\ ~failed => \A s \in servers \ Convertible, j \in JobId : Synced(s, j)

\* A crontab never names a script file that is not there, whatever fails
\* in between (the file is written first and removed last).
LineHasScript == \A s \in Servers, j \in JobId : line[s][j] # 0 => script[s][j] # 0

\* A job is deleted by request only when its host has been cleaned: a removal
\* that failed half way can be asked for again.  Only when its server could not
\* be looked up, or is no deploy server, is a job deleted that may still run.
CleanedBeforeDeleted ==
    [][\A p \in Procs : DeleteRow(p) /\ proc[p].id \in Rows =>
         LET s == row[proc[p].id].server IN
         \/ line[s][proc[p].id] = 0
         \/ proc[p].at = NoServer /\ (faults > 0 \/ s \notin servers \ Convertible)]_vars

\* Said of the deletion of jobs: what was deleted stops running.
DeletedJobsStop ==
    Quiet /\ ~failed =>
        \A s \in servers, j \in JobId : j \notin Rows => line[s][j] = 0

\* Said of remote_server_id: the crontab of that host runs the job.
JobsRunOnTheirServer ==
    Quiet /\ ~failed =>
        \A j \in Rows : row[j].active /\ row[j].server \in servers => line[row[j].server][j] # 0
==============================================================================
