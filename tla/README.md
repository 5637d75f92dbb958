# Weehawk in TLA+

Weehawk is a self-hostable deployment platform: a NestJS API, a Next.js web application, two
background processes and a small Go agent. It keeps its state in Postgres (TypeORM), optionally in
Redis, and on the remote Docker Swarm hosts it manages over SSH. This directory holds TLA+ models of
the parts whose correctness depends on interleaving, failure and order, the TLC runs that check them
on small instances, and TLAPS proofs about some of them.

Paths below are relative to `src/apps/api/src/` unless they start with `src/`.

## 1. The system

Three processes load the same `AppModule`: the API (`main.ts`), the provision worker
(`provision-worker.ts`, a timer every 5 s) and the cron worker (`cron-worker.ts`, whose poll is a
no-op). Every one of them runs the start-up hooks of every service. There is no message queue: the
processes meet in the database. Hardly any operation uses a transaction; a request is a chain of
awaited calls, and the next request may run between any two of them.

| Component | State | Operations | What is hard | What makes it correct |
|---|---|---|---|---|
| Provision queue: `remote-servers/remote-server-provision.service.ts`, `provision-worker.ts` | rows of `remote_server_provision_jobs`; `isProcessing` and the log buffer of the worker | four enqueue operations, poll, claim, run over SSH, un-awaited log updates, last update, daily purge | overlapping ticks, crash or failed call between two updates, rows deleted under the worker, late updates | a script starts at most once, in order, of the right kind; ended jobs stay ended; pending jobs are served |
| Organizations: `organizations/organizations.service.ts`, `organization-invite.service.ts`, `user/user.service.ts` | `organizations` (with the legacy `owner_id`), `organization_memberships`, users, invitations in the token store | create, rename, invite, join, leave, promote, demote, remove, delete account; backfill of roles at start | checks and writes without a transaction, succession in three writes, a derived column that is granted as a role again | an owner for whoever has members; no orphan rows; everybody keeps an owned organization; account deletion ends |
| Cron jobs: `cron-jobs/cron-jobs.service.ts` | rows of `cron_jobs`; crontab and script file on each host | create, update, remove, background sync, manual trigger | syncs after the answer, unordered, never retried; read-modify-write of a crontab; a marker that occurs in the lines of other jobs; look-ups whose errors are taken for "no server" | each host schedules exactly the jobs of its own |
| Services: `services/services.service.ts`, `executor/executor.service.ts`, `common/on-host-redeploy-script.ts` | rows of `services` (stack file and environment as text), the mirror of both on the deploy host, the checkout, the image, the running stack | edit forms, deploy, redeploy, start, shutdown, remove, webhook redeploy, background push, on-host script | settings are read back from the text, pushes after the answer, images of one name, errors that are printed and ignored, requests that overlap | a success runs what is saved; an edit loses nothing else; a redeploy is fresh; a removed service leaves nothing |
| Auto-deploy and webhooks: `webhooks/`, `services/services.service.ts`, `git/git.service.ts`, the Go agent | rows of `webhooks`, script files and the agent's Swarm service on each host, a promise chain per server, hooks at Git providers | create, update, delete, replace; configure and resync auto-deploy; regenerate scripts; remove with the service | background tasks after the answer, remove-and-create of the agent, two providers, best-effort deletion, a registered URL that nothing updates | every webhook answers and nothing else does; the provider has the hook the row names; changes of the agent do not meet |
| Accounts: `auth/`, `user/`, `token/`, `email/` | users, refresh tokens, one-time tokens in Redis or memory, two cookies per browser | register, log in and out, Google, refresh, mails and their links, edits, deletion, administration | check-then-insert, whole-row saves, a store that changes sides, steps without a transaction | what is revoked stays revoked; the token of a mail works once; Google logins agree |
| `authFetch` of the web application: `src/apps/web/app/lib/auth-fetch.ts` | the refresh in flight of each tab | call, refresh on 401, abort | calls refused together, a refresh token that works once | a session nobody ends goes on; every call returns |
| Remote servers: `remote-servers/remote-servers.service.ts` | `remote_servers` with pinned host keys, pending keys in memory, the hosts of services | add, edit, remove, restore "This Server", SSH sessions, pointing a service at hosts | pins against edits of address, checks against other tables, whole-row saves | rows fit each other and the machines |
| Backups: `s3/s3.service.ts`, `executor/executor-structured-db-*.ts` and the two services above | data on hosts, staging directories, objects in buckets, `s3_profiles` | backup to a bucket, import from a bucket or an upload, profiles, deletion of objects | a dozen scripts each in its own session, pipes that break off, hosts that change meanwhile | a success is a whole archive of what there was; no staging directory stays |
| Start of a process on an old database: `app.module.ts`, `database/`, `ee/audit/`, `s3/s3.service.ts` | columns `user_id` and `organization_id` of ten tables, settings of Git and registries, the old file of S3 profiles, addresses in audit entries | backfill, copies for every organization, dropped columns, synchronization of the schema, import of the file | three processes start together without a lock, statements without a transaction, a start that throws is tried again from the beginning, errors taken for "no rows" | what a user had goes to the user's organizations before the column that names the user goes |
| Rights of members: `organizations/organization-workspace-permissions.ts`, `ee/permissions/`, the page of members in `src/apps/web/app` | the column `permissions` of a membership; what a page has been told, its boxes and its calls | save, toggle, change a role, remove, refresh | read, merge and write of a whole column; a page that patches one box and refreshes the rest | a page at rest shows what the API enforces; what is stored is what owners asked for |
| The page of a service: `service-details-client.tsx`, `hooks/use-services.ts`, `lib/invalidate-service-queries.ts`, `org-realtime-sync.tsx`; `org-realtime/` of the API | the row and the runtime state as last got, forms with a flag "to be saved", numbers of messages; rooms, a counter in Redis | type, save by itself, deploy, start, stop, hear, ask again, connect | saves, answers, messages and typing cross each other; messages lost with the socket; a number that falls back to the clock | a page at rest shows the row, its forms what is in force, its badge what runs |
| Throttling, projects, registry, Traefik settings, secrets, notifications, audit, license token, backup of the API | rows, pure functions or calls to external services | CRUD, pass-through | little | – |
| Other pages of `src/apps/web` | client-side caches | pages | – | their texts promise what the API must do |

Interaction: dissolving an organization deletes the job rows, cron rows and servers of the other
components in one transaction; account deletion leaves every organization, then deletes the user's
job rows; both happen while a worker or a sync is half way. The worker asks the server and
membership tables for permission when it *runs* a job, the API when it *enqueues* one. Cron jobs ask
the server table whether a host is deployable each time they touch it. A service names its deploy
and build host; each deployment, webhook, backup and import looks the service and then the server
up again, and runs on whatever machine the row names by then. A saved service pushes its bundle to
the host, where webhooks deploy from it without the API. Auto-deploy ties a service, the webhooks
of its host and the hook at the Git provider together.

`PROJECT.json` lists the hazards one by one, each at its line, with the property that watches it or
the reason why none does.

## 2. Modules

| Module | Models |
|---|---|
| `JobLedger` | abstract: what the provision queue promises its users |
| `ProvisionJobs` | the provision queue, its worker processes, and what deletes rows under them |
| `ProvisionJobs_proofs` | theorems about `ProvisionJobs` |
| `Organizations` | membership, ownership, `owner_id`, the start of a process |
| `Organizations_proofs` | theorems about `Organizations` |
| `OrgScope` | extends it: the start of a process on a database from before organizations owned anything |
| `MembersPage` | extends it: the rights of members, and the page that shows and changes them |
| `MembersPage_proofs` | theorems about `MembersPage` and, through it, `OrgScope` |
| `CronSync` | cron rows against the crontabs and script files of the hosts |
| `CronSync_proofs` | theorems about `CronSync` |
| `StackConfig` | the stack file of an application: what is written, read back and kept by each form |
| `ServiceDeploys` | extends it: one service from its row to what runs on its host |
| `ServicePage` | extends it: the page of the service in a browser, and the messages that reach it |
| `ServicePage_proofs` | theorems about `ServiceDeploys` and `ServicePage` |
| `Accounts` | users, refresh tokens, tokens of mails, cookies |
| `Sessions` | extends it: `authFetch` in the tabs of a browser |
| `Sessions_proofs` | theorems about `Accounts` and `Sessions` |
| `ServiceHooks` | the webhooks of a service, the agents on the hosts, the hook at the Git provider |
| `ServiceHooks_proofs` | theorems about `ServiceHooks` |
| `Hosts` | remote servers, pinned keys, "This Server", the hosts of a service |
| `Backups` | extends it: backups and imports of what a service keeps on its host |
| `Backups_proofs` | theorems about `Hosts` and `Backups` |

The runs' configurations stand beside the modules; the constants are small enough to be given there
directly, so no separate MC modules are needed. In all modules an `await` is a step boundary and a
handler keeps its order of checks and writes. Each module starts with a comment on what its state
stands for; each action names the function it comes from; definitions whose comment begins with
"Mutant of" are plausible bugs kept to show that a property notices them, and no specification
uses them.

### 2.1 `ProvisionJobs`

`status`, `cols`, `log`, `nextId` are the table; `up`, `busy`, `call` the worker processes
(`isProcessing` and the call of `processNextPendingJob`, one per `Slot`); `inflight` the log updates
sent with `void appendLog(s)` and not yet applied; `req` the enqueue requests between their check and
their insert; `member`, `account`, `servers` the organization. Steps of a call:
`Tick → FindPending → Recheck → Claim → ResolveKind → LoadContext → WriteHeader → StartScript/ConnectFails
→ Output* → ScriptExits → WriteDone/WriteError`. `DatabaseFails` is a rejected call at each of these
places: before the `try` the call just ends, inside it the `catch` runs, in the `catch` the row stays
`running`. `Crash` is also SIGTERM (`process.exit` waits for nothing) and the unhandled rejections
of the two promises nobody catches. `asked`, `starts`, `ran`, `outcome`, `abandoned` are history.

Abstractions: the script text and the SSH session are a step; a log is the number of chunks it
holds, cut at `MaxLog` as the buffer is at `MAX_LOG_CHARS` (the trimming for persistence is left
out: it bounds the text and decides nothing); ids are numbered in `createdAt` order, ties ignored;
audit events are left out. A connection lost while a script runs is `ScriptExits` without success.

### 2.2 `Organizations`

`role[o][u]` is the membership table, `ownerId` and `root` the columns of an organization the code
reads back (`root`: its name is "Root Org", which self-hosted mode protects). A request `req[r]` is
at one of the awaited calls of its handler; `seen` and `row` are what it read and still uses. The
three removals, the two role changes and account deletion share `leaveOrganizationAsUser`'s steps
and `assertKeepsAtLeastOneOwnedOrganizationAfterLosingOwnerHere`, as in the code. `Boot` is
`onModuleInit` of any process. `Abort` cuts a request short at any call. `SaveRow` inserts the row
again if it is gone, as `repository.save` of a loaded entity does.

Abstractions: which member is the successor and which organization an account deletion takes first
is left open (the code orders both by `createdAt`); invitations never expire; several reads that
decide together are one step where nothing the model contains changes the outcome; workspace
permissions are in `MembersPage`, audit events left out. `SelfHosted = FALSE` is the cloud mode.

### 2.3 `OrgScope`

The data source factory of `app.module.ts`, which every process runs before it serves anything. `proc[p]` is a
start: `todo` its remaining steps in the order of the code, `rows`, `last`, `extra`, `left`, `found` what it has read and
still uses. `holder` and `bringer` are the columns `user_id`, `legacy` the tables that still have one, `org`, `key`, `jobOrg`,
`settings` what the migrations write. A statement is a step; `StartFails` throws at any of them, and where the code catches
what a statement throws, goes on instead. Memberships are those of `Organizations`, and a start ends with
its `Boot`. `mode`, fixed in the first state, is the kind of old data: `rows` (one organization per row), `git` and `registry` (a copy
for every organization; public ids), `profiles` (the file), `entries` (the audit log), `serving`, a database
that is up to date and on which the requests of `Organizations` run, or `members`, such a database with a page open (below).

Abstractions: Postgres; one row for each table of `rows`, two for settings; whatever SQL is not about
moving data (sequences, indexes nobody violates) is left out; encryption of old secrets is left out. What is lost after a query that
failed and was taken for no rows (`unread`) is excepted from the property, and copies for further organizations
are asked for only of a start that nothing interrupts: the code loses them otherwise, and says so nowhere.

### 2.4 `MembersPage`

In mode `members`, user 1 has the page of members of organization 1 open. `denied[u]` is the column `permissions` of a
membership: what is blocked, of an area and its two parts. `Allowed` derives from it what is allowed, `Merge` is what a
request makes of the column. `save[c]` is a request that saves rights, from the page or from another owner or
tab: `context → membership → write → audit`; `seen` is the column as it was read. `page` is what React holds: `rows` (the members
as last told, with the box that was changed since), `canEdit` and `show`, `busy` and `change` (the calls under
way), `queue` and `load` (refreshes asked for and the one that is going on), `next` (what it has fetched). A refresh is
three answers of the server, `RefreshShell → RefreshPage → RefreshShow`, one after the other, and between them anything
happens. Roles change through the requests of `Organizations`, from the page (`Change`) or
by others (`ByOther`); `Handles` adds to each of their steps what it does to rights and page. `asked`, `overlapped` and
`behind` are history: what owners asked for, that two saves overlapped, that something changed behind the page.

Abstractions: all areas work alike, `management` is the one that guards this page as well; the queue of `router.refresh`
is Next's and external; a page that loses its rights is closed and stays so; it waits for one change of a role before the next;
invitations, accounts and other organizations stay as they are in this mode. What others do is not shown before the next
refresh (`behind`: no message tells the page), and a call that failed after it wrote, its answer lost or its audit event
refused, is reported as a failure and counts as done by somebody else.

### 2.5 `CronSync`

`row` is the table; `line[s][j]` and `script[s][j]` are the version of job `j` in the crontab and in
the script file on host `s` (0: none); a version stands for the expression, the script and the
notification settings together. `proc[p]` is a request followed by the sync it started:
`Check → Save → Resolve → ResolveNext → Upsert → WriteScript → ReadCrontab → WriteCrontab`, with `Clean → ReadCrontab →
WriteCrontab → RmScript (→ DeleteRow)` for a paused or removed job.
The rewriting of a crontab is one shell script but two steps, because crontab itself offers
nothing between `crontab -l` and `crontab file`. What it keeps is `Rewritten`: `grep -F -v` drops every line in which
the marker `WEEHAWK_CRON_JOB:<id>` occurs, which are those of all ids that begin with the same digits (`Marks`), so the ids
are numbers here. `Fails` ends a request or a sync anywhere; two failures go unnoticed in the code and have actions of their own:
`ReadFails` (`crontab -l || true`: an empty crontab) and `LookupFails` (`tryResolveCronRemoteServerId`
takes every error for no server: a move leaves the old line, a removal skips the host and deletes the row).
`ChangeRole`, `RemoveServer`, `Dissolve` are other components acting on the tables.

What the properties except is what the code does: a line that a rewrite for an id with the same first digits has dropped
(`Shadowed`; `cron_prefix` shows one), hosts whose role ever changes (`Convertible`: a job moved off a server that was
turned into a build server, which `RemoteServersService.update` allows after counting services only, keeps its line there and runs on both),
and everything after a failure, noticed or not.

Abstractions: validation, permissions and audit; the manual trigger and the read-only endpoints,
which change none of this state; an edited `host` of a server row.

### 2.6 `StackConfig`, `ServiceDeploys`, `ServicePage`

`StackConfig` has no state: a *text* is a record of what can be told apart in a stack file and its
headers, `Write` composes one (`composeApplicationDockerConfig`), `Read` gets the settings back
(`extractApplicationComposeRegenerationArgs`), and the forms are operators on texts. The two are not inverse, which is
the point of it: a port that is not published is not in the text, only in the router's label
(`Unwritten`), and volumes are written as `source:target` and read by `^([^:]+):([^:]+)(:ro)?$`, which
drops those with another colon, like a target `/data:rw` that the form accepts (`colon`, `ReadVolumes`).

In `ServiceDeploys`, `row` is the service's row; `mirror`, `tree`, `image`, `stack` are, for each host, the
bundle in `/opt/weehawk-deployments`, the git checkout, the image and what Docker runs. `op[p]` is
a request: its place, the entity it loaded (`row`), what it is (`what`, `edit`), the commit of the
branch when it began (`seen`). `push` are background mirrors, `script` is the script a webhook runs on the
host. A deployment goes `read → target → (clone → build → tag →) stack → copy → copyEnv (→ force) →
verify → mark`, one of a compose service `read → target → yml (→ stop) → up → verify → mark`; a redeploy
by webhook resolves the ref, reads the row, regenerates the text, saves, awaits the mirror and then
deploys without the last check. `Fails`, `PushFails`, `ScriptFails`, `TasksFail`, `Restart` go wrong at any of these.
Two scripts end in `|| true`: the forced update of a redeploy and the scaling to 0 of a shutdown. When they fail, the API
answers with a failure only if Docker's message is one it looks for, and with a success otherwise; `Fails` has both (`Unforced`).
`FreshImage` says so of the first: a redeploy whose own forced update failed unnoticed (`seen` becomes 0) promises nothing.

Abstractions: a version stands for a set of variables, volumes or networks; the names of the variables
(`keys`, in the text) and their values (`env`, in the row) are the two halves `SavedTogether` compares; an
image is the commit it was built from; one branch, one builder host; Docker deploys what it is
given, with the image there is at that moment. Secrets, uploads, a second build host and creation
are left out.

`ServicePage` adds a browser. `cache` and `badge` are the answers of the two queries it follows, `get` and
`ping` questions under way (asking again cancels them, `Refetch`); `draft` and `dirty` the forms, which are filled
anew when the text or the environment changed (`Fill`) and save themselves (`Autosave`); `asked[p]` the request of this page that
process `p` of the API serves. `SaveAndTell` and `RuntimeRead`, `RuntimeTell` send what the API tells the room of the organization;
`inbox` carries it in order while `sock` is "joined". `missed`, `blurred`, `adrift` and `clock` are history: they name
what `PageIsTrue` excepts. Two of the exceptions are what the code does and a user may notice: a form typed in while
its save is unanswered is taken for saved when the answer comes (`setEnvDirty(false)`); and a save that puts back
exactly the text the page still has (somebody else's came in between and is undone before the page asked) fills no
form again, since the form is filled only when the text differs, and what was typed stays shown though not saved. The
second one takes four requests; the attempt to prove `PageIsTrue` found it where the bounds of the run do not reach.

Abstractions: a form holds one version; the volumes form works like the networks form and is left out; in
mode `page` only the row is followed and in mode `watch` only the runtime state, since neither query
reads the other; the delays (0.6, 0.7, 2.5 seconds) are any time.

### 2.7 `Accounts`, `Sessions`

`users`, `tokens`, `inRedis`, `inMemory` are the tables and the token store; `jar[b]` the two cookies
of a browser; an access token is the e-mail it names, as the code looks the user up by it. A request is a
record with `todo`, the awaited calls it still has before it: registration is
`taken, insert, mail, purge, issue, answer`, a refresh `validate, drop, purge, issue, answer`. Every step is
one action; `Head(todo)` says which. `row` is the user as it was read, and `Save` writes all of it back.
`selfHosted` and `devices` are the two configuration switches the handlers branch on.

`Sessions` adds `call`, the `authFetch` calls of a page, and `flight[t]`, the variable `refreshInFlight`
of a tab. A call is `sent`, `served` or `refused`; the first refused one sends the refresh, the others
wait for it, and all are sent again or return their 401 after `session/abort`, which clears the cookies or fails
(the page ignores that).

Abstractions: passwords and codes are right (a wrong one ends a request before it does
anything); one Google account; expiry of a token is an action instead of a clock; a user's profile fields are
left out, the saving of the row is not. `users[u].made` is the provider the account was created with.

### 2.8 `ServiceHooks`

`hooks` and `service` are the tables; `files[s]`, `agent[s]`, `swarm[s]` a host: scripts by token (the id of
the webhook), the agent with the host names routed to it, and whether Docker answers; `chain[s]` is
`webhookSwarmRecreateChainByServerId` as the queue of the tasks whose promises it chains; `git` are hooks at the
provider. A task is a request with its background: `todo` is put together from the branches of the
handler (`Follow` for an update), and the steps find hosts and names anew where the code does
(`Collect`). A change of the agent is an operation within one of these steps, which `op` follows: `enqueue, drop,
create`; `drop` waits for its turn, fails when Docker is down and is then tried again at the end of the chain, three
times in all. `Register` and `Unregister` are the calls of the Git provider, of GitHub or GitLab; a hook keeps the URL it was registered
with, which is the webhook's host name, or else the address of its server, and its token (`Address`). Two variables are history:
`astray`, the hooks whose webhook was given another name or server, lost its script or was deleted since, which
nothing tells the provider; and `torn`, that a request ended by a failure or restart after the deletion of a hook or before its
number was saved, or that a configuration was rolled back to the number of a hook that was gone (`RollBack`).
`ProviderFollowsRow` excepts both; otherwise it holds through failures.

Abstractions: a token, its path and its row are one id; `canon` is the generated script of the service, "old" or "new"
after the service changed; a script's repository stands for what is generated into it; two columns `gh`, `gl` for the
hook ids as in the row. Deletion at a provider is best effort and may do nothing; any other call that fails has done nothing. The scheme
of a URL and the address of a server's row do not change here.

### 2.9 `Hosts`, `Backups`

`servers` are the rows (address, name, role, pin and the marker that makes a row "This Server"), `service`
the two foreign keys of a service, `pending` the keys of handshakes not yet written. A request's
`todo` are the checks it awaits, then the save or the deletion. `reached` remembers rows that had a session since
their address changed. A machine stands for an address, host and port; its host key is called like the machine.

`Backups` adds what is on the machines: `data` (the versions of two items, which are files, tables or
collections), `staging` directories with the file in them, `bucket`, `profiles`. A backup is
`container, target, alloc, dump, copy, presign, put, rm, report` (a volume: `target, archive, copy, ...`), an import
`target, alloc, presign, fetch | upload, same, ...`. Each script on a host is a session: it looks the row up, may be
refused by the pin, and leaves one. Archives of volumes and of `mongodump` are copied item by item, those of
the other databases at one moment; a restore replaces item by item, and tolerates a broken archive
where `psql` and `mysql` do. An error goes to the removal of the directory, but for the places where the code has none
(`Leaves`, `Abandon`): before an upload is passed on, the server is looked up and its key decrypted after the directory was made and
outside the `try` that removes it. `spoilt` marks a fault in that look-up or the one after it, inside a script that makes directory and
archive in one, in the removal itself, or a restart: nothing removes the directory then.

## 3. Runs

| Run | Module | Bounds | Shows |
|---|---|---|---|
| `provision_jobs` | `ProvisionJobs` | 2 jobs, 1 worker with 2 slots, 1 fault, log of 1 chunk, 1 enqueuer and 1 other member, 1 server | passes, about 163,000 states |
| `provision_two_workers` | `ProvisionJobs` | 1 job, 2 workers, no fault | `ScriptStartsAtMostOnce` fails |
| `organizations` | `MembersPage` | 2 users, 3 organizations (two of which send out invitations), 1 fault, self-hosted with one Root Org, 1 request at a time; old data of 2 users with up to 2 organizations, 2 processes that start; a page with 2 clicks, 1 request of others, 3 rights | passes, about 624,000 states |
| `organizations_race` | `Organizations` | 2 users, 2 organizations, 2 requests | `NeverTheLastOwner` fails |
| `organizations_owner_id` | `Organizations` | 2 users, 2 organizations, 1 request | `OwnerIdAligned` fails |
| `cron_sync` | `CronSync` | 2 jobs (1 and 10), 2 versions, 2 hosts (one convertible), 1 failure, 1 sync at a time | passes, about 1,329,000 states |
| `cron_delete_overlap` | `CronSync` | 2 jobs, 1 host, 2 requests | `DeletedJobsStop` fails |
| `cron_prefix` | `CronSync` | 2 jobs (1 and 10), 1 host, 1 request at a time, no failure | `JobsRunOnTheirServer` fails |
| `service_deploys` | `ServicePage` | 2 ports, 4 saved versions, application, database and compose service, 2 hosts, 2 commits; 3 requests one after the other or 2 at a time; a page with 2 requests of its own or of others and 2 changes typed; 1 fault | passes, about 453,000 states |
| `sessions` | `Sessions` | 2 e-mails, 2 users, 4 refresh tokens, 2 mails, 2 browsers; 3 requests and faults one after the other or 2 requests at a time; 2 tabs with 3 calls, 2 expiries; 1 fault | passes, about 447,000 states |
| `service_hooks` | `ServiceHooks` | 2 hosts, 2 host names, a GitHub and a GitLab repository, 2 webhooks, 3 provider hooks; 3 requests one after the other or 2 at a time; 1 fault | passes, about 420,000 states |
| `backups` | `Backups` | 3 machines (one is the API's), 2 server rows, 2 items of 2 versions, 6 kinds, 2 profile names with a limit of 1, 2 staging directories; 4 requests and faults one after the other or 2 at a time; 1 fault | passes, about 772,000 states |

Why the bounds are enough. Provision: order, overtaking and a stale last update need two jobs; the
overlap the flag must prevent needs two calls in a process; one fault is a crash or failed call at
every possible place, and the model does not bound how often a process is restarted after it; the second
member lets the organization survive the enqueuer. Organizations: succession, last owner and
keep-one-owned need a second user; moving through a second owned organization and dissolving a third
need three. Starts: the second organization
is the one a copy is made for, the second user may be in none or in another one, two processes are every overlap of two starts.
Page: two clicks are a box and one that depends on it, or a box and a role; the request of others overlaps either. Cron: two jobs share a crontab, two hosts allow a move each way, two versions tell an
old line from a new one; the ids 1 and 10 are the two ways round a rewrite can drop another's line or not;
the convertible host is excused from `HostsFollowRows` (2.5). Services: three versions are a first text, one that was
overtaken and the last, and a fourth one an edit after edits of everything else; deploy, edit and redeploy in a row, with something failing in between, is the
shortest history in which an old image, text or environment can survive; two requests are every pair
that can overlap. Page of a service: a save of one's own and one of another user, or two of one's own, with one change typed before and one
after; two actions give two messages that can change places. Sessions: log in, change, log out by two users, or one user and two browsers; the
second tab and the third call show refreshes that meet. Webhooks: the second webhook shares or
does not share the host and the name of the first; configure, change and remove are three requests; three
provider hooks are one for each of them. Backups: changing the data, a backup, and an import with a fault in one
of them are four; the second machine is where a service or an address moves to.
Deadlock is not checked: with its bounds used up, a model may rest, and so may an idle system.

The four larger models, besides `OrgScope` and `MembersPage`, have a variable `mode` fixed in the first state: `solo` starts a request only
when nothing else is going on (requests still fail or are cut short at every call), `shared` starts
any request at any time; `ServiceDeploys` adds `edit` (an application without a host, edited through
every form), `ServicePage` adds `page` and `watch`, `Sessions` adds `google` (logins with one Google account at the same time), `tab` and
`tabs`. A property that the code can only keep one request at a time says `mode = "solo"`; the
types, `SavedTogether`, `SwarmOpsDoNotMeet`, the answers' half of `SuccessIsTrue` and the liveness
properties hold for overlapping requests as well.

Where a passing run limits concurrency (one worker, one request, one sync), the limit is part of
the statement, and the violation run beside it shows what happens without it.

**Fairness.** `ProvisionJobs!FairSpec`: `setInterval` keeps ticking (`Tick`), an awaited call
settles (`Advance`); two assumptions concern the surroundings: a worker that died is started again
(`Restart`) and a script started on a host ends (`ScriptExits`; the code sets no time limit, so
without this assumption one hanging script blocks the queue). Users, purge, faults and the delivery of
un-awaited log updates are not fair. `Organizations!FairSpec`, `OrgScope!ScopeSpec`, `MembersPage!PageSpec`: a request in progress goes on.
`CronSync` has no liveness property: nothing retries a failed sync. `ServicePage!PageSpec`, like `ServiceDeploys!Fair`: a request goes on
(`Advance`); the pushes in the background and a script on the host need not, since no request waits for them. `Sessions!Fair`:
requests go on and calls of a page are served and returned. `ServiceHooks!Spec`: tasks go on
(`Advance`); Docker of a host may be down for good, which is why the retries have to end by
themselves. In none of them are users, faults or time fair; `Backups` states no liveness, since
how long a dump or an upload may take is nowhere bounded.

## 4. Disagreements found

1. Two provision workers start one job's script twice: the claim is a read followed by an
   unconditional update (`provision_two_workers`). With a single worker, as the workspace's scripts
   run it, the queue is correct.
2. Two owners demoted at the same moment leave an organization with members and no owner
   (`organizations_race`), against "never the last owner".
3. After the succession `owner_id` may go on naming the user who left (`organizations_owner_id`);
   every process start grants the owner role by that column.
4. The crontab line of a deleted job may survive or come back when requests overlap
   (`cron_delete_overlap`), against "will be removed and will stop running".
5. An edit, pause, move or removal of job 1 takes the crontab lines of jobs 10 to 19, 100 and so on of the
   same host with it (`cron_prefix`), against "Deploy host where the script is installed and crontab runs".

`PROJECT.json` quotes each line. What other properties except, because the code does it, is said where the
module is described: stale crontab lines after a swallowed error or a change of role (2.5), volumes with a colon and an unnoticed
failure of a forced update (2.6), a provider that calls an old URL (2.8), a directory left by a failed look-up (2.9).

## 5. Proofs

`ProvisionJobs_proofs` proves, for every value of the constants that satisfies
`ProvisionAssumption` (any number of jobs, slots, requests, users, servers and faults):

- `TypeCorrect`: `Spec => []TypeOK`, without a further assumption;
- under `SingleWorker` (at most one worker process): `AtMostOnce`, `KindIsKept`, `InOrder`,
  `EndedStays`, and `Refinement`, that the queue implements `JobLedger`.

None of these safety properties is inductive. That a script starts once needs to be known of a call
*before* it starts it: that nobody else is between claim and start. `IInv` therefore adds three
parts to `TypeOK`. `FlagInv`: a process has at most one call that is not idle, and `busy` tells which;
with a single process this call is the only one. `Stage(c)`: what the call knows at each place of its
path and nobody may have taken away: from `Recheck` on no older job is pending; from `Claim` on its row is
`pending` (then `running`) or deleted; until `StartScript` the script has not been started; after
`ResolveKind` the kind is the one asked for as long as the row is there. `Row(j)`: what a row shows
to nobody in particular: a pending row's script was never started, `done` means success, a row not yet
numbered is absent. Lemmas carry the parts through the steps that leave most of it alone
(`SurroundingsInv`: the organization and purge only delete rows; `MoveInv`, `ReturnInv`: the step of
one active call), and one lemma per group of actions does the rest. The action properties and the
refinement then follow step by step from `IInv`; a crash, a restart, a late log update map to
stuttering of the ledger, a deletion to `Forget`, a failed last write to nothing at all.

`CronSync_proofs` proves for any jobs, servers, processes and failures, from `CronSyncAssumption` alone,
`TypeCorrect`; and with `SingleProc`, one sync at a time (`cron_delete_overlap` shows that two at a time leave
lines behind), `CrontabsNameScripts` (a line never names a script that is not there), `HostsFollow` (a host that keeps its role has
the lines and scripts its rows call for when nothing is going on and nothing failed, noticed or not, but for the lines of shadowed
ids) and `DeletedWhenCleaned` (a request deletes the row of a job only when the host of the job no longer schedules it, or
when its look-up failed or found no deploy server). The
inductive invariant `SyncInv` says what a sync knows at each of its places: which hosts it has left behind it
already, that their lines and scripts are those of the row it loaded, that the script of the line it is about to write is there, and
that everything about the other jobs is as it was, or a line less if the job shadows it. The rewriting of a crontab in two steps is where this is
needed: between them the line that is read must still be the one that is replaced.

`ServiceHooks_proofs` proves for any servers, names, repositories, tasks and faults, from `ServiceHooksAssumption`
alone, `TypeCorrect` and `AgentOpsDoNotMeet`: two tasks never remove or create the agent of one server at
the same time. `HookInv` adds `TasksOK` to the types, that what a task still has to do is put together from the steps of its kind, and
`ChainInv`: a task stands in the chain of a server exactly while it waits for its turn there or has it; a task
that has removed the agent and is about to create it is the head of that chain, and a chain has one head. A
restart empties the chains together with the tasks, a retry leaves the chain before it enqueues again.
`ProviderHookFollowsRow` is about requests one at a time, whatever fails but between the provider and the row (`torn`); the task a `create` leaves in the
background may still run. `ProviderInv` adds to `HookInv` what is true at each step of a request (`Stage`): the row it is
about to save and the hooks there are agree (`Agree`) except between the deletion of a hook and the save
that forgets its number, and between the registration of one and the save that names it. Which step comes next is
`StepsTo`, a relation every list of steps is a path of (`PathTo`), so that no proof takes a list apart; a failure
jumps to a later place of the path (`FromPath`) or ends a task that is not halfway (`NotHalfway`). `UrlInv` is about the
URL: each hook that is not astray calls a webhook as its row has it (`CallsHook`), a row that a task
carries and will save is the one in the table, and the hooks of a webhook about to be deleted are astray already (`Rows`): a
save of a stale row would change the URL unseen.
`WebhooksAnswer` is the same for the hosts, without failures. `HostInv` says of every webhook that its host name is routed (`Routed`) and
its script there as it should be (`Filed`), or that a task still has the step to do that makes it so (`Routes`,
`Refiles`), and of every script on a host that a webhook owns it or a task is about to remove it (`Unfiles`). For that to be inductive a
task must be right about what it does (`Knows`): the row it carries is the one in the table, the names it
collected include those of every webhook of its server, the generated script it is about to write is that of
the service *now*, each webhook it still has to visit is as it was listed, and the webhook it is about to delete
has no script left anywhere. Only the page that replaces a webhook has two tasks at work (`Pair`), about two different webhooks, and
neither disturbs what the other knows (`KnowsStill`).

`Organizations_proofs` proves `OrganizationsTypes` with any number of requests under way, and under
`SingleRequest`, one request at a time, `MembershipsFitAlone` (an organization with members has an owner, a
membership belongs to a user and an organization there are) and `OwnersKeepAnOrganization` (the action
property). The assumption is needed: `organizations_race` shows two demotions that meet. Requests may be cut
short anywhere and processes may start in between. `Alone` says with `Knows(q)` what a request knows at each
place between its reads and its write: the members it read are the members; the one it counted beside the
target still owns; the successor is a member already promoted; the membership about to be deleted is not the
last owner's. `InvitedToOwned` and `IdsAreNew` carry the organizations yet to come.

`MembersPage_proofs` shows that every step of the composition is one of `Organizations` or leaves its rows
and requests alone (`PageStep`), so that both facts hold behind the page as well (`MembershipsFitBehindPage`,
`OwnersKeepBehindPage`), and proves `PageTellsTheTruth`: a page at rest shows the roles and rights the API
enforces. `PageHolds` is its invariant. A change by the page is *owed* (`Owed`) from the write in the database
until the refresh that starts after it; while nothing is owed, what is shown and what the refresh under way
has read so far is true (`Shown`). `ClicksCounted` bounds the refreshes in the queue.

The same module proves `OldDataMoves`, that `OldDataFollowsUsers` holds for any number of organizations and processes, with any
number of them starting together, and `PageTypes`, the type invariant of database, starts and page. `MoveHold` is the invariant.
What a start still has to do is always the end of the one list of its mode (`Way`, `OnWay`), so that where it stands is
a number (`AtPlace`, `Past`), and the parts say what is true of the data *before* and *after* each place. `RowsHold`: a
table keeps its column until each of its rows that can have an organization has that of its user (`OrgsFit`), also with a second
start between the read and the write of the first. `SettingsHold`: the first row of each datum stays, belongs to an organization of
who brought it, and none without one is left when the column goes (`SettingsFit`, `NoZero`); `Bounded` gives the new
ids room. `CopiesHold` adds, for a start that nothing interrupts, that every copy is there or among those it has yet to make (`Coming`).
`ProfilesHold` and `EntriesHold` are about the old file and the column of the audit entries, which go only when all of them is imported or noted. That copies are asked for only of starts
one at a time and without a fault is part of the property, not an assumption of the theorem: `OneStarts` and `Complete` are claimed just for these.
The proof asked for one change of the model: ids of copied rows are now any numbers, where a bound had stood that only
the small instance justified.

`Sessions_proofs` proves of `Accounts` and `Sessions`, with no assumption but those of the modules:
`AccountsTypes` (with it the unique columns of `users`, with any requests overlapping), `RevokedTokens`,
`MailLinks`, `GoogleLogins` and `TabKeepsSession`. What a request still has to do is always the rest of one
path (`OnPath`, with `Then` the step that follows a step), and `Has` what it has with it by then; this is what
an induction over lists would give, stated of each step and the next, which needs none. To it are added `Gone`
(which tokens a request that ends sessions has done away with by each step), `OneTime` (the token of each
mail is in one store exactly from when it is sent until it is used or too old), `GoogleHolds` (logins with one
account find or make one row and never an error, however they overlap) and `TabHolds` (the cookie of a single
tab names a token that is there, or the refresh under way is about to replace it).

`Backups_proofs` proves `BackupsTypes`, `ReportsAreTrue`, `DirectoriesRemoved` and `RowsOfHostsFit`, for any
machines, rows, items, works and faults. `OnPath`, `Then` and `Has` are as above for the stages of backups and
imports. `Copies` says what a backup has made at each stage, also when everything overlaps: its file is on the
machine it copies, what is uploaded is whole, and so is the object it is about to report. For works one
at a time, `AtHome` adds that the directory is on the host the service is deployed on, and `Alone` that the items
already copied are those of the service, and the items already loaded those of the archive; both need that
a session changes nothing of a row but its pin (`WhereStays`). For requests about rows one at a time,
`FitsHold` states what an edit, an assignment and a first session have yet to find (`Fits`): a change of role
is in order unless the check that forbids it is still awaited; the key a session left is that of the machine the row
names.

`ServicePage_proofs` proves of `ServiceDeploys` and of the page over it, for any servers, requests, saves, ports
and faults, every safety property their run checks: `PageTyped` (the types of everything), `OneSave`, `RestKept`, `SuccessRuns`,
`ImageIsFresh`, `HostHolds` and `PageTrue`. `Core` is the invariant of the
API, in named parts: `RowOK`, `OpsOK` (`OpGood(q, ...)`: what a request knows at each place, that a text is there and well written, that it has a
host where it needs one, and that its mirror has a stack file before Compose is started in it), `PushOK`, `ScriptOK`,
`HostsOK`, `CountsOK`. Each action has a lemma that it keeps `Core`, resting on lemmas about the operators of `StackConfig` (what
`Write`, `Patch`, `Generate`, `SetImage` keep of a text). `OneSave` is then one look at each action that changes what runs: the names in the text
and the values beside it are of one save in whatever a request has read (`Keyed`), and only the on-host script takes them apart.
`RestKept` needs that edits come one at a time (`EditInv`): what is about to be saved has all the rest of the text that is
saved *now*. `PageInv` adds the browser: what is shown, asked and told has its type because numbers are handed out once per request
(`SeqHolds`: the counter and the requests still served are together no more than the requests made).

Three of the properties are about requests one at a time (mode `solo`). `Then(q, n)` says which place follows which, once, so that
no proof walks the path of a deployment again. `SoloInv` adds that there is one request, that the row it has read is the
one saved, and what has been done by each place: the bundle Swarm is given is that row, what runs afterwards is that bundle, the
checkout is no older than the head it began with, the image no older than the checkout. `HomeInv` adds, of a service that was not
moved and with nothing failed, that the mirror of its host is what is saved or a sync or push that makes it so is still to
come. `FreshImage` asks that the text names the repository: a redeploy of one that lost it deploys
the image that is there, and the attempt to prove the property without this asked for it.

`PageTrue` joins two invariants. `EditorInv` (mode `page`, requests overlapping at will): the page has the saved service, or an answer that has, or a
question or a message that will make it ask (`Reaches`); the names and values in what is shown are of one save
(`ShownKeyed`); a form that is neither dirty nor adrift holds what is shown or will be filled (`FormsHold`), and so
does, for as long as its save is unanswered, what was sent (`SaveHolds`). `WatchInv` (mode `watch`): a request that nothing interrupts ends well
(`Working`), messages are on their way only to a page that joined (`Joined`), their numbers do not fall (`InOrder`), and
while requests have not crossed each other (`Settled`) at most one is served, what it found out is what runs, the last message
about what runs says so (`Heard`), and with none on its way the badge does or a question will (`Badge`).

Assumptions on constants that the proofs made explicit stand in the modules: `OrgScope` asks that the old data are made
of the users and organizations there are; `Accounts` that `"nobody"` is no browser, and its `Insert` is guarded by the bound on
rows as every other is; `Backups` that there is a profile, a bucket and a version; `ServiceDeploys` that there is a server and a process.

Only model-checked: the liveness properties (`PendingIsServed`, `RunningSettles`, `DeletionEnds`, `RequestsEnd`,
`CallsReturn`, `TasksEnd`), because liveness under fairness and `ENABLED` are outside what the installed
provers handle, as is induction over data and any `RECURSIVE` operator (none is used). Every safety property and action property that a passing run checks
is the subject of a theorem, with the assumptions said above.

## 6. Not modelled

Text of scripts, logs and messages; parsing and validation of input; encryption; who may call what
(guards): except in `MembersPage`, the models start at the point where a request has been admitted.

Components without a module, with the reason (`PROJECT.json` lists every one):

- *Throttling, guards, middleware, active organization*: atomic scripts, pure
  functions or caches that the next read repairs. There is no order of steps to get wrong.
- *Projects, registry, Traefik settings, Docker secrets, notifications, audit, license token*: rows
  written by one statement, or commands and calls passed on to an external service, with nothing in
  the API that has to agree with what they did.
- *Git integrations* beyond the hooks: OAuth exchanges and listings answered by the provider.
- *Backup of the API's own database, provisioning scripts*: run once, in one piece.
- *The pages of the web application*, except `authFetch`, the page of members, the page of a service and the replacement of a redeploy
  webhook: they show what the API answers.

Left out of components that have a module: builds on a second host and the transfer of the image
through a registry; uploads of source folders; Docker secrets managed for a service (their removal is a
step that can fail, nothing more); domains, TLS and Traefik of a server; the record a webhook's
agent posts back after a run; copying and listing objects in buckets; a second API process (the
promise chain of `ServiceHooks` and the flag of `ProvisionJobs` live in one).
