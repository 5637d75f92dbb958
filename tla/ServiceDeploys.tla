---------------------------- MODULE ServiceDeploys ----------------------------
(***************************************************************************)
(* One service from its saved text to what runs on its deploy host: edits  *)
(* (update, the application and database forms), deploy, redeploy, start,  *)
(* shutdown and remove requests, the redeploy an auto-deploy webhook asks  *)
(* for, the copy of the bundle on the host (the mirror) that every save    *)
(* pushes in the background, and the script a webhook runs on the host     *)
(* itself, from that mirror.                                               *)
(*                                                                         *)
(* Procs are the requests in progress; nothing in the code orders them.    *)
(* "mode" says how the service is used: "edit" edits a service that has no *)
(* host yet, "solo" starts something only when nothing else is going on,   *)
(* and "shared" starts anything at any time.                               *)
(***************************************************************************)
EXTENDS StackConfig, FiniteSets

CONSTANTS
    Kinds,        \* "app", "db" (both Swarm stacks) and "compose"
    Modes,
    Servers,
    NoHost,
    Procs,
    MaxHead,      \* bound: commits of the application's branch
    MaxSolo,      \* bound: requests and webhook scripts, one after the other,
    MaxShared,    \* or at the same time,
    MaxPage,      \* or while a browser shows the service
    MaxFaults     \* bound: calls that fail, tasks that fail, restarts of the API

ASSUME DeployAssumption ==
    /\ Kinds \subseteq {"app", "db", "compose"} /\ Modes \subseteq {"edit", "solo", "shared", "page", "watch"}
    /\ Servers # {} /\ NoHost \notin Servers /\ Procs # {}
    /\ MaxHead \in Nat \ {0} /\ MaxSolo \in Nat /\ MaxShared \in Nat /\ MaxPage \in Nat
    /\ MaxFaults \in Nat

VARIABLES
    kind, mode,
    row,       \* the row of services
    mirror,    \* /opt/weehawk-deployments/<app> of each host: stack file and env
    tree,      \* the git checkout there, as a commit
    image,     \* the image built there, as the commit it was built from
    stack,     \* what Docker runs for the service on each host
    op,        \* the requests in progress
    answer,    \* and how the last one of each ended
    push,      \* background pushes of the mirror
    script,    \* the webhook's script on the host
    head,      \* the last commit of the branch
    saves, requests, faults,
    moved      \* history: the service was given another host

config == <<kind, mode>>
host == <<mirror, tree, image, stack>>
bounds == <<saves, requests, faults>>
vars == <<config, row, host, op, answer, push, script, head, bounds, moved>>

Commit == 0..MaxHead
Row == [live : BOOLEAN, text : Text \cup {NoText}, env : Version, host : Servers \cup {NoHost},
        auto : BOOLEAN]
Bundle == [yml : Text \cup {NoText}, env : Version \cup {0}]
NoBundle == [yml |-> NoText, env |-> 0]
Stack == [yml : Text, env : Version \cup {0}, image : Commit, up : BOOLEAN, bad : BOOLEAN]
NoStack == [yml |-> NoText, up |-> FALSE]
Idle == [pc |-> "idle"]
Edits == {"nets", "vols", "env", "domains", "registry", "host", "git", "generate", "image", "auto"}
NoScript == [pc |-> "idle"]

\* what: the request; row: the entity it has read, or is about to save; seen:
\* the branch when it began, and 0 (history) once its forced update has failed
\* unnoticed; auto: it regenerates the text before it deploys;
\* edit: the edit, of one that saves; dirty: it changes the bundle.
Busy == [pc : {"store", "read", "target", "resolve", "fresh", "sync", "syncYml", "syncEnv",
               "yml", "stop", "up", "start", "clone", "build", "tag", "stack", "copy",
               "copyEnv", "force", "verify", "mark", "halt", "kill", "rm", "secrets", "drop"},
         what : {"edit", "deploy", "redeploy", "webhook", "start", "shutdown", "remove"},
         row : Row, seen : Commit, ctx : Commit, edit : Edits \cup {"none"},
         dirty : BOOLEAN, auto : BOOLEAN]
OnServer == {"syncYml", "syncEnv", "yml", "stop", "up", "start", "clone", "build", "tag", "stack",
             "copy", "copyEnv", "force", "verify", "halt", "kill", "rm"}
Push == [pc : {"read", "yml", "env"}, id : Version, row : Row]
Script == [pc : {"clone", "env", "build", "tag", "stack", "force", "up"}, at : Servers,
           env : Version \cup {0}, ctx : Commit]

TypeOK ==
    /\ kind \in Kinds /\ mode \in Modes
    /\ row \in Row
    /\ mirror \in [Servers -> Bundle]
    /\ tree \in [Servers -> Commit] /\ image \in [Servers -> Commit]
    /\ stack \in [Servers -> Stack \cup {NoStack}]
    /\ op \in [Procs -> {Idle} \cup Busy]
    /\ answer \in [Procs -> {"none", "ok", "failed"}]
    /\ \A q \in push : q \in Push
    /\ script \in {NoScript} \cup Script
    /\ head \in Commit \ {0} /\ saves \in Version
    /\ requests \in 0..(MaxSolo + MaxShared + MaxPage) /\ faults \in 0..MaxFaults /\ moved \in BOOLEAN
    /\ row.text # NoText => WellWritten(row.text)
    /\ \A p \in Procs : op[p] # Idle /\ op[p].pc \in OnServer => op[p].row.host \in Servers

Swarm == kind # "compose"
Quiet == (\A p \in Procs : op[p] = Idle) /\ push = {} /\ script = NoScript
MayStart ==
    CASE mode = "shared" -> requests < MaxShared
      [] mode \in {"page", "watch"} -> requests < MaxPage
      [] OTHER -> requests < MaxSolo /\ Quiet
Users == IF mode = "shared" THEN Procs ELSE {CHOOSE p \in Procs : TRUE}

Goto(p, pc) == op' = [op EXCEPT ![p].pc = pc] /\ UNCHANGED answer
End(p, ok) ==
    /\ op' = [op EXCEPT ![p] = Idle]
    /\ answer' = [answer EXCEPT ![p] = IF ok THEN "ok" ELSE "failed"]
Begin(p, what, pc, r, e) ==
    /\ op[p] = Idle /\ MayStart /\ row.live
    /\ requests' = requests + 1
    /\ op' = [op EXCEPT ![p] = [pc |-> pc, what |-> what, row |-> r, seen |-> head, ctx |-> 0,
                                edit |-> e, auto |-> FALSE,
                                dirty |-> r.text # row.text \/ r.env # row.env]]
    /\ answer' = [answer EXCEPT ![p] = "none"]

------------------------------------------------------------------------------
(* Edits.  Each reads the row, works out a new one and saves it whole.      *)

PatchNetworks(r, v) == [r EXCEPT !.text = Patch(@, "nets", v)]
PatchVolumes(r, v, c) == [r EXCEPT !.text = SetVolumes(@, v, c)]

\* The names go into the text, the values into env.
PatchEnv(r, v) == [r EXCEPT !.text = Patch(@, "keys", v), !.env = v]

\* update: domains and routes, the registry, the deploy host, a compose file
\* or its environment as the user typed them.
UpdateDomains(r) == [r EXCEPT !.text = Refresh(@)]
UpdateRegistry(r) == [r EXCEPT !.text = SetRegistry(@, ~@.reg)]
UpdateHost(r, s) == [r EXCEPT !.host = s]
UpdateYaml(r, v) == [r EXCEPT !.text.nets = v]
UpdateEnv(r, v) == [r EXCEPT !.env = v]

StageGitClone(r) == [r EXCEPT !.text = StageGit(@)]
GenerateFromSource(r, o) == [r EXCEPT !.text = Generate(@, o)]
SetImageDeploy(r, o) == [r EXCEPT !.text = SetImage(@, o)]

\* The database forms: credentials, or the published port and replicas.
ApplyDatabase(r, v) == [r EXCEPT !.text = Patch(@, "keys", v), !.env = v]
UpdateDatabaseStack(r, v) == [r EXCEPT !.text = Patch(@, "nets", v)]

ConfigureAutoDeploy(r) == [r EXCEPT !.auto = ~@]

\* The rows an edit e can come to, with v the version of what it changes.
Edited(r, e, v) ==
    CASE e = "nets" -> {IF kind = "app" THEN PatchNetworks(r, v)
                        ELSE IF kind = "db" THEN UpdateDatabaseStack(r, v) ELSE UpdateYaml(r, v)}
      [] e = "env" -> {IF kind = "app" THEN PatchEnv(r, v)
                       ELSE IF kind = "db" THEN ApplyDatabase(r, v) ELSE UpdateEnv(r, v)}
      [] e = "vols" -> {PatchVolumes(r, v, c) : c \in BOOLEAN}
      [] e = "domains" -> {UpdateDomains(r)}
      [] e = "registry" -> {UpdateRegistry(r)}
      [] e = "host" -> {UpdateHost(r, s) : s \in Servers \cup {NoHost}}
      [] e = "git" -> {StageGitClone(r)}
      [] e = "generate" -> {GenerateFromSource(r, o) : o \in IF mode = "edit" THEN Options(v) ELSE {Defaults}}
      [] e = "image" -> {SetImageDeploy(r, o) : o \in Options(v)}
      [] e = "auto" -> {ConfigureAutoDeploy(r)}

EditsOf ==
    IF mode = "edit"
    THEN IF row.text = NoText THEN {"git", "image"}
         ELSE {"nets", "vols", "env", "domains", "registry", "git", "generate", "image"}
    ELSE CASE kind = "app" -> {"nets", "env", "host", "auto"}
           [] kind = "db" -> {"nets", "env"}
           [] kind = "compose" -> {"nets", "env", "host"}

BeginEdit(p, e) ==
    /\ saves < MaxSaves
    /\ e = "generate" => row.text.git
    /\ saves' = saves + 1
    /\ \E r \in Edited(row, e, saves') : Begin(p, "edit", "store", r, e)
    /\ UNCHANGED <<config, row, host, push, script, head, faults, moved>>

\* save() writes the whole entity, and inserts the row again if it is gone.
\* The answer does not wait for the push, except for a generated text; the push
\* of a service that never gets a host finds nothing to do, and is left out.
Store(p) ==
    LET q == op[p] IN
    /\ q.pc = "store"
    /\ row' = q.row
    /\ moved' = (moved \/ q.edit = "host")
    /\ push' = IF q.what = "edit" /\ q.edit # "generate" /\ q.dirty /\ mode \notin {"edit", "page"}
               THEN push \cup {[pc |-> "read", id |-> saves, row |-> q.row]} ELSE push
    /\ IF q.auto \/ q.edit = "generate" THEN Goto(p, "sync") ELSE End(p, TRUE)
    /\ UNCHANGED <<config, host, script, head, bounds>>

------------------------------------------------------------------------------
(* The mirror of the bundle on the deploy host.                             *)

HasBundle(r) == r.live /\ r.host # NoHost /\ r.text # NoText

\* syncRemoteDeploymentMirror, in the background, of the row as it then is.
PushRead(q) ==
    /\ q \in push /\ q.pc = "read"
    /\ push' = (push \ {q}) \cup IF HasBundle(row) THEN {[q EXCEPT !.pc = "yml", !.row = row]} ELSE {}
    /\ UNCHANGED <<config, row, host, op, answer, script, head, bounds, moved>>

\* Mutant of PushYml: no service has its environment mirrored.
PushYmlOnly(q) ==
    /\ q \in push /\ q.pc = "yml"
    /\ mirror' = [mirror EXCEPT ![q.row.host].yml = q.row.text]
    /\ push' = push \ {q}
    /\ UNCHANGED <<config, row, tree, image, stack, op, answer, script, head, bounds, moved>>

\* A compose service has its stack file mirrored, and never its environment.
PushYml(q) ==
    /\ q \in push /\ q.pc = "yml"
    /\ mirror' = [mirror EXCEPT ![q.row.host].yml = q.row.text]
    /\ push' = (push \ {q}) \cup IF Swarm THEN {[q EXCEPT !.pc = "env"]} ELSE {}
    /\ UNCHANGED <<config, row, tree, image, stack, op, answer, script, head, bounds, moved>>

PushEnv(q) ==
    /\ q \in push /\ q.pc = "env"
    /\ mirror' = [mirror EXCEPT ![q.row.host].env = q.row.env]
    /\ push' = push \ {q}
    /\ UNCHANGED <<config, row, tree, image, stack, op, answer, script, head, bounds, moved>>

\* The same, awaited by a request that has just generated the text; whatever
\* comes of it, the request goes on.
AfterSync(p) == IF op[p].auto THEN Goto(p, "read") ELSE End(p, TRUE)

Sync(p) ==
    /\ op[p].pc = "sync"
    /\ IF HasBundle(row)
       THEN op' = [op EXCEPT ![p] = [@ EXCEPT !.pc = "syncYml", !.row = row]] /\ UNCHANGED answer
       ELSE AfterSync(p)
    /\ UNCHANGED <<config, row, host, push, script, head, bounds, moved>>

SyncYml(p) ==
    LET q == op[p] IN
    /\ q.pc = "syncYml"
    /\ mirror' = [mirror EXCEPT ![q.row.host].yml = q.row.text]
    /\ IF Swarm THEN Goto(p, "syncEnv") ELSE AfterSync(p)
    /\ UNCHANGED <<config, row, tree, image, stack, push, script, head, bounds, moved>>

SyncEnv(p) ==
    LET q == op[p] IN
    /\ q.pc = "syncEnv"
    /\ mirror' = [mirror EXCEPT ![q.row.host].env = q.row.env]
    /\ AfterSync(p)
    /\ UNCHANGED <<config, row, tree, image, stack, push, script, head, bounds, moved>>

------------------------------------------------------------------------------
(* Deploy, redeploy, start, and the redeploy of a webhook.                  *)

\* What Docker runs after it was given a text and an environment: tasks are
\* replaced when those differ from what is up, by the image of the host.
Deployed(s, text, env) ==
    IF stack[s].up /\ stack[s].yml = text /\ stack[s].env = env THEN stack[s]
    ELSE [yml |-> text, env |-> env, image |-> IF text.mode = "source" THEN image[s] ELSE 0,
          up |-> TRUE, bad |-> text.mode = "source" /\ image[s] = 0]

Rolled(s) ==
    LET t == stack[s] IN
    IF ~t.up THEN t
    ELSE [t EXCEPT !.image = IF t.yml.mode = "source" THEN image[s] ELSE 0,
                   !.bad = t.yml.mode = "source" /\ image[s] = 0]

\* executeDeploymentCore looks at the row to see whether auto-deploy is on;
\* then the text is generated again before it is deployed.
BeginDeploy(p, what) ==
    /\ mode # "edit"
    /\ what = "webhook" => row.auto
    /\ Begin(p, what, IF row.auto /\ what # "start" THEN "resolve" ELSE "read", row, "none")
    /\ UNCHANGED <<config, row, host, push, script, head, saves, faults, moved>>

\* runAutoDeployCloneAndDeploy: the ref is resolved, ...
ResolveRef(p) ==
    /\ op[p].pc = "resolve"
    /\ Goto(p, "fresh")
    /\ UNCHANGED <<config, row, host, push, script, head, bounds, moved>>

\* ... the row read again, and a text with no option given saved and mirrored.
ReadFresh(p) ==
    /\ op[p].pc = "fresh"
    /\ IF row.live
       THEN /\ op' = [op EXCEPT ![p] = [@ EXCEPT !.pc = "store", !.auto = TRUE,
                                                 !.row = GenerateFromSource(row, Defaults)]]
            /\ UNCHANGED answer
       ELSE End(p, FALSE)
    /\ UNCHANGED <<config, row, host, push, script, head, bounds, moved>>

\* execute, startContainers, shutdown and stopAndRemove read the service, ...
ReadRow(p) ==
    /\ op[p].pc = "read"
    /\ IF row.live
       THEN op' = [op EXCEPT ![p] = [@ EXCEPT !.pc = "target", !.row = row]] /\ UNCHANGED answer
       ELSE End(p, FALSE)
    /\ UNCHANGED <<config, row, host, push, script, head, bounds, moved>>

\* Where execute and the others go once they know the host.
Route(q) ==
    LET builds == kind = "app" /\ q.row.text.mode = "source" /\ q.what # "start" IN
    CASE q.what = "shutdown" -> "halt"
      [] q.what = "remove" -> "rm"
      [] OTHER -> IF kind = "compose" THEN "yml" ELSE IF ~builds THEN "stack"
                  ELSE IF q.row.text.git THEN "clone" ELSE "build"

\* Mutant of Target: the environment is read again with the host.
TargetEnv(p) ==
    LET q == op[p] IN
    /\ q.pc = "target"
    /\ IF row.host # NoHost
       THEN /\ op' = [op EXCEPT ![p] = [@ EXCEPT !.pc = Route(q), !.row.host = row.host,
                                                 !.row.env = row.env]]
            /\ UNCHANGED answer
       ELSE IF q.what = "remove" THEN Goto(p, "secrets") ELSE End(p, FALSE)
    /\ UNCHANGED <<config, row, host, push, script, head, bounds, moved>>

\* Mutant of Target: goes on without a host.
TargetAny(p) ==
    /\ op[p].pc = "target"
    /\ op' = [op EXCEPT ![p] = [@ EXCEPT !.pc = Route(op[p]), !.row.host = row.host]]
    /\ UNCHANGED <<config, row, host, answer, push, script, head, bounds, moved>>

\* ... and then its host: without one there is nothing to do or to remove.
Target(p) ==
    LET q == op[p] IN
    /\ q.pc = "target"
    /\ IF row.host # NoHost
       THEN /\ op' = [op EXCEPT ![p] = [@ EXCEPT !.pc = Route(q), !.row.host = row.host]]
            /\ UNCHANGED answer
       ELSE IF q.what = "remove" THEN Goto(p, "secrets") ELSE End(p, FALSE)
    /\ UNCHANGED <<config, row, host, push, script, head, bounds, moved>>

\* git fetch and reset, or clone.
Clone(p) ==
    LET q == op[p] IN
    /\ q.pc = "clone"
    /\ tree' = [tree EXCEPT ![q.row.host] = head]
    /\ Goto(p, "build")
    /\ UNCHANGED <<config, row, mirror, image, stack, push, script, head, bounds, moved>>

\* Mutant of Build: tries again for as long as there is no checkout.
BuildRetries(p) ==
    LET q == op[p]
        s == q.row.host IN
    /\ q.pc = "build" /\ tree[s] # 0
    /\ op' = [op EXCEPT ![p] = [@ EXCEPT !.pc = "tag", !.ctx = tree[s]]]
    /\ UNCHANGED <<config, row, host, answer, push, script, head, bounds, moved>>

\* docker build reads the checkout, and names the image when it is done.  With
\* no checkout the mirror is written again, the build tried once more, and
\* fails as it did.
Build(p) ==
    LET q == op[p]
        s == q.row.host IN
    /\ q.pc = "build"
    /\ IF tree[s] # 0
       THEN /\ op' = [op EXCEPT ![p] = [@ EXCEPT !.pc = "tag", !.ctx = tree[s]]]
            /\ UNCHANGED <<answer, mirror>>
       ELSE /\ End(p, FALSE)
            /\ mirror' = [mirror EXCEPT ![row.host] = IF HasBundle(row) THEN [yml |-> row.text, env |-> row.env] ELSE @]
    /\ UNCHANGED <<config, row, tree, image, stack, push, script, head, bounds, moved>>

Tag(p) ==
    LET q == op[p] IN
    /\ q.pc = "tag"
    /\ image' = [image EXCEPT ![q.row.host] = q.ctx]
    /\ Goto(p, "stack")
    /\ UNCHANGED <<config, row, mirror, tree, stack, push, script, head, bounds, moved>>

\* Mutant of StackDeploy: deploys the bundle of the mirror, as the script does.
StackDeployMirror(p) ==
    LET q == op[p]
        s == q.row.host IN
    /\ q.pc = "stack"
    /\ mirror[s].yml # NoText
    /\ stack' = [stack EXCEPT ![s] = Deployed(s, mirror[s].yml, mirror[s].env)]
    /\ Goto(p, "copy")
    /\ UNCHANGED <<config, row, mirror, tree, image, push, script, head, bounds, moved>>

\* docker stack deploy, of the text and the environment that were read.
StackDeploy(p) ==
    LET q == op[p]
        s == q.row.host IN
    /\ q.pc = "stack"
    /\ stack' = [stack EXCEPT ![s] = Deployed(s, q.row.text, q.row.env)]
    /\ Goto(p, "copy")
    /\ UNCHANGED <<config, row, mirror, tree, image, push, script, head, bounds, moved>>

\* The bundle just deployed becomes the mirror, one file after the other.
Copy(p) ==
    LET q == op[p] IN
    /\ q.pc = "copy"
    /\ mirror' = [mirror EXCEPT ![q.row.host].yml = q.row.text]
    /\ Goto(p, "copyEnv")
    /\ UNCHANGED <<config, row, tree, image, stack, push, script, head, bounds, moved>>

CopyEnv(p) ==
    LET q == op[p] IN
    /\ q.pc = "copyEnv"
    /\ mirror' = [mirror EXCEPT ![q.row.host].env = q.row.env]
    /\ \/ q.what = "start" /\ End(p, TRUE)
       \/ q.what = "deploy" /\ ~q.auto /\ Goto(p, "verify")
       \/ (q.what \in {"redeploy", "webhook"} \/ q.auto) /\ Goto(p, "force")
    /\ UNCHANGED <<config, row, tree, image, stack, push, script, head, bounds, moved>>

AfterForce(q) == IF q.auto THEN "mark" ELSE "verify"

\* Nothing was restarted, and the request goes on.
Unforced(p) ==
    /\ op' = [op EXCEPT ![p] = [@ EXCEPT !.pc = AfterForce(op[p]), !.seen = 0]]
    /\ UNCHANGED answer

\* Mutant of ForceUpdate: the rolling restart is skipped, nothing in the text changed.
ForceNothing(p) ==
    /\ op[p].pc = "force"
    /\ Goto(p, AfterForce(op[p]))
    /\ UNCHANGED <<config, row, host, push, script, head, bounds, moved>>

\* docker service update --force of every service of the stack.
ForceUpdate(p) ==
    LET q == op[p]
        s == q.row.host IN
    /\ q.pc = "force"
    /\ stack' = [stack EXCEPT ![s] = Rolled(s)]
    /\ Goto(p, AfterForce(q))
    /\ UNCHANGED <<config, row, mirror, tree, image, push, script, head, bounds, moved>>

\* mirrorDockerComposeToRemotePersistent, then docker compose in that directory.
ComposeYml(p) ==
    LET q == op[p] IN
    /\ q.pc = "yml"
    /\ mirror' = [mirror EXCEPT ![q.row.host].yml = q.row.text]
    /\ Goto(p, IF q.what = "redeploy" THEN "stop" ELSE IF q.what = "start" THEN "start" ELSE "up")
    /\ UNCHANGED <<config, row, tree, image, stack, push, script, head, bounds, moved>>

Halted(s) == [stack EXCEPT ![s].up = FALSE]

ComposeStop(p) ==
    LET s == op[p].row.host IN
    /\ op[p].pc = "stop"
    /\ stack' = Halted(s)
    /\ Goto(p, "up")
    /\ UNCHANGED <<config, row, mirror, tree, image, push, script, head, bounds, moved>>

ComposeUp(p) ==
    LET q == op[p]
        s == q.row.host IN
    /\ q.pc = "up"
    /\ stack' = [stack EXCEPT ![s] = Deployed(s, mirror[s].yml, q.row.env)]
    /\ IF q.what = "start" THEN End(p, TRUE) ELSE Goto(p, "verify")
    /\ UNCHANGED <<config, row, mirror, tree, image, push, script, head, bounds, moved>>

\* docker compose start, of the containers as they were; up when there are none.
ComposeStart(p) ==
    LET s == op[p].row.host IN
    /\ op[p].pc = "start"
    /\ IF stack[s] = NoStack
       THEN Goto(p, "up") /\ UNCHANGED stack
       ELSE stack' = [stack EXCEPT ![s].up = TRUE] /\ End(p, TRUE)
    /\ UNCHANGED <<config, row, mirror, tree, image, push, script, head, bounds, moved>>

\* validateApplicationRolloutAfterDeploy: failed tasks of an application, which
\* a stack that is not there does not have.
Verify(p) ==
    LET q == op[p]
        s == q.row.host IN
    /\ q.pc = "verify"
    /\ IF kind = "app" /\ stack[s] # NoStack /\ stack[s].bad THEN End(p, FALSE) ELSE Goto(p, "mark")
    /\ UNCHANGED <<config, row, host, push, script, head, bounds, moved>>

\* lastDeployedAt: a request of a user fails when the row is gone.
Mark(p) ==
    /\ op[p].pc = "mark"
    /\ End(p, row.live \/ op[p].auto)
    /\ UNCHANGED <<config, row, host, push, script, head, bounds, moved>>

------------------------------------------------------------------------------
(* Shutdown and remove.                                                     *)

BeginStop(p, what) ==
    /\ mode # "edit"
    /\ Begin(p, what, "read", row, "none")
    /\ UNCHANGED <<config, row, host, push, script, head, saves, faults, moved>>

\* Every service of the stack scaled to 0; or docker compose stop, and kill
\* when something still runs after it.
Halt(p) ==
    LET s == op[p].row.host IN
    /\ op[p].pc = "halt"
    /\ ~Swarm => mirror[s].yml # NoText
    /\ \/ stack' = Halted(s) /\ End(p, TRUE)
       \/ ~Swarm /\ stack[s].up /\ Goto(p, "kill") /\ UNCHANGED stack
    /\ UNCHANGED <<config, row, mirror, tree, image, push, script, head, bounds, moved>>

HaltNoBundle(p) ==
    LET s == op[p].row.host IN
    /\ op[p].pc = "halt" /\ ~Swarm /\ mirror[s].yml = NoText
    /\ End(p, FALSE)
    /\ UNCHANGED <<config, row, host, push, script, head, bounds, moved>>

Kill(p) ==
    /\ op[p].pc = "kill"
    /\ stack' = Halted(op[p].row.host)
    /\ End(p, TRUE)
    /\ UNCHANGED <<config, row, mirror, tree, image, push, script, head, bounds, moved>>

\* Mutant of StackRm: the stack is scaled to 0, as a shutdown does.
StackRmHalt(p) ==
    /\ op[p].pc = "rm"
    /\ stack' = Halted(op[p].row.host)
    /\ Goto(p, "secrets")
    /\ UNCHANGED <<config, row, mirror, tree, image, push, script, head, bounds, moved>>

\* docker stack rm, or docker compose down in the bundle's directory; errors
\* are only printed.  The directory itself stays.
StackRm(p) ==
    LET s == op[p].row.host IN
    /\ op[p].pc = "rm"
    /\ stack' = IF Swarm \/ mirror[s].yml # NoText THEN [stack EXCEPT ![s] = NoStack] ELSE stack
    /\ Goto(p, "secrets")
    /\ UNCHANGED <<config, row, mirror, tree, image, push, script, head, bounds, moved>>

Secrets(p) ==
    /\ op[p].pc = "secrets"
    /\ Goto(p, "drop")
    /\ UNCHANGED <<config, row, host, push, script, head, bounds, moved>>

Drop(p) ==
    /\ op[p].pc = "drop"
    /\ row' = [row EXCEPT !.live = FALSE]
    /\ End(p, TRUE)
    /\ UNCHANGED <<config, host, push, script, head, bounds, moved>>

------------------------------------------------------------------------------
(* The script a webhook runs on a host that has the bundle.                 *)

ScriptAt(pc) == script' = [script EXCEPT !.pc = pc]

BeginScript(s) ==
    /\ script = NoScript /\ MayStart /\ mode # "edit" /\ row.live
    /\ mirror[s].yml # NoText
    /\ requests' = requests + 1
    /\ script' = [pc |-> IF row.auto THEN "clone" ELSE IF Swarm THEN "env" ELSE "up",
                  at |-> s, env |-> 0, ctx |-> 0]
    /\ UNCHANGED <<config, row, host, op, answer, push, head, saves, faults, moved>>

ScriptClone ==
    /\ script.pc = "clone"
    /\ tree' = [tree EXCEPT ![script.at] = head]
    /\ ScriptAt("env")
    /\ UNCHANGED <<config, row, mirror, image, stack, op, answer, push, head, bounds, moved>>

\* The environment is sourced before the build, ...
ScriptEnv ==
    /\ script.pc = "env"
    /\ script' = [script EXCEPT !.env = mirror[script.at].env,
                                !.pc = IF mirror[script.at].yml.mode = "source" THEN "build" ELSE "stack"]
    /\ UNCHANGED <<config, row, host, op, answer, push, head, bounds, moved>>

ScriptBuild ==
    /\ script.pc = "build"
    /\ script' = IF tree[script.at] = 0 THEN NoScript
                 ELSE [script EXCEPT !.pc = "tag", !.ctx = tree[script.at]]
    /\ UNCHANGED <<config, row, host, op, answer, push, head, bounds, moved>>

ScriptTag ==
    /\ script.pc = "tag"
    /\ image' = [image EXCEPT ![script.at] = script.ctx]
    /\ ScriptAt("stack")
    /\ UNCHANGED <<config, row, mirror, tree, stack, op, answer, push, head, bounds, moved>>

\* ... and the stack file read after it.
ScriptStack ==
    LET s == script.at IN
    /\ script.pc = "stack"
    /\ stack' = [stack EXCEPT ![s] = Deployed(s, mirror[s].yml, script.env)]
    /\ ScriptAt("force")
    /\ UNCHANGED <<config, row, mirror, tree, image, op, answer, push, head, bounds, moved>>

ScriptForce ==
    /\ script.pc = "force"
    /\ stack' = [stack EXCEPT ![script.at] = Rolled(script.at)]
    /\ script' = NoScript
    /\ UNCHANGED <<config, row, mirror, tree, image, op, answer, push, head, bounds, moved>>

\* A compose project is stopped and brought up without the environment, which
\* the mirror does not have.
ScriptUp ==
    LET s == script.at IN
    /\ script.pc = "up"
    /\ stack' = [stack EXCEPT ![s] = Deployed(s, mirror[s].yml, 0)]
    /\ script' = NoScript
    /\ UNCHANGED <<config, row, mirror, tree, image, op, answer, push, head, bounds, moved>>

------------------------------------------------------------------------------
(* What goes wrong, and what changes around the service.                    *)

\* A call of a request fails.  The stop before a compose redeploy, and the
\* removal of the stack, may fail unnoticed; so may the mirror of a text that
\* was generated.  The forced update and the scaling to 0 end in "|| true": they
\* fail for the API only when Docker said so in words it looks for, or when
\* the host was lost, and are otherwise taken for done.
Fails(p) ==
    LET q == op[p] IN
    /\ q # Idle /\ faults < MaxFaults
    /\ faults' = faults + 1
    /\ CASE q.pc = "stop" -> Goto(p, "up")
         [] q.pc = "rm" -> Goto(p, "secrets")
         [] q.pc \in {"sync", "syncYml", "syncEnv"} -> AfterSync(p)
         [] q.pc = "force" -> End(p, FALSE) \/ Unforced(p)
         [] q.pc = "halt" /\ Swarm -> \E ok \in BOOLEAN : End(p, ok)
         [] OTHER -> End(p, FALSE)
    /\ UNCHANGED <<config, row, host, push, script, head, saves, requests, moved>>

\* A push is logged and forgotten, a script stops where it is.
PushFails(q) ==
    /\ q \in push /\ faults < MaxFaults
    /\ faults' = faults + 1
    /\ push' = push \ {q}
    /\ UNCHANGED <<config, row, host, op, answer, script, head, saves, requests, moved>>

ScriptFails ==
    /\ script # NoScript /\ faults < MaxFaults
    /\ faults' = faults + 1
    /\ script' = NoScript
    /\ UNCHANGED <<config, row, host, op, answer, push, head, saves, requests, moved>>

\* The API stops and starts: requests and pushes are gone, hosts go on.
Restart ==
    /\ faults < MaxFaults
    /\ (\E p \in Procs : op[p] # Idle) \/ push # {}
    /\ faults' = faults + 1
    /\ op' = [p \in Procs |-> Idle]
    /\ push' = {}
    /\ UNCHANGED <<config, row, host, answer, script, head, saves, requests, moved>>

TasksFail(s) ==
    /\ stack[s].up /\ ~stack[s].bad /\ faults < MaxFaults
    /\ faults' = faults + 1
    /\ stack' = [stack EXCEPT ![s].bad = TRUE]
    /\ UNCHANGED <<config, row, mirror, tree, image, op, answer, push, script, head, saves, requests,
                   moved>>

\* Somebody pushes to the branch.
CommitPushed ==
    /\ head < MaxHead /\ mode # "edit"
    /\ head' = head + 1
    /\ UNCHANGED <<config, row, host, op, answer, push, script, bounds, moved>>

\* A service that was saved and mirrored and never deployed; for "edit", an
\* application without a host and without a text.
Init ==
    /\ kind \in Kinds /\ mode \in Modes
    /\ mode \in {"edit", "page"} => kind = "app"
    /\ mode = "watch" => kind = "db"
    /\ \E linked \in IF mode \in {"edit", "solo"} THEN BOOLEAN ELSE {TRUE} :
       LET h == CHOOSE s \in Servers : TRUE
           first == IF kind = "app" THEN [Fresh EXCEPT !.git = linked, !.keys = 1]
                    ELSE [Fresh EXCEPT !.mode = "image", !.keys = 1]
           base == Write(first) IN
       /\ row = [live |-> TRUE, text |-> IF mode = "edit" THEN NoText ELSE base, env |-> 1,
                 host |-> IF mode \in {"edit", "page"} THEN NoHost ELSE h, auto |-> FALSE]
       /\ mirror = [s \in Servers |-> IF s # h \/ row.host = NoHost THEN NoBundle
                                      ELSE [yml |-> base, env |-> IF Swarm THEN 1 ELSE 0]]
    /\ tree = [s \in Servers |-> 0] /\ image = [s \in Servers |-> 0]
    /\ stack = [s \in Servers |-> NoStack]
    /\ op = [p \in Procs |-> Idle] /\ answer = [p \in Procs |-> "none"]
    /\ push = {} /\ script = NoScript
    /\ head = 1 /\ saves = 1 /\ requests = 0 /\ faults = 0 /\ moved = FALSE

Requests(p) ==
    \/ \E e \in EditsOf : BeginEdit(p, e)
    \/ \E what \in {"deploy", "redeploy", "start", "webhook"} : BeginDeploy(p, what)
    \/ \E what \in {"shutdown", "remove"} : BeginStop(p, what)

Advance(p) ==
    \/ Store(p) \/ Sync(p) \/ SyncYml(p) \/ SyncEnv(p)
    \/ ResolveRef(p) \/ ReadFresh(p) \/ ReadRow(p) \/ Target(p)
    \/ Clone(p) \/ Build(p) \/ Tag(p) \/ StackDeploy(p) \/ Copy(p) \/ CopyEnv(p) \/ ForceUpdate(p)
    \/ ComposeYml(p) \/ ComposeStop(p) \/ ComposeUp(p) \/ ComposeStart(p)
    \/ Verify(p) \/ Mark(p)
    \/ Halt(p) \/ HaltNoBundle(p) \/ Kill(p) \/ StackRm(p) \/ Secrets(p) \/ Drop(p)

Mirrors == \E q \in push : PushRead(q) \/ PushYml(q) \/ PushEnv(q)

OnHost == ScriptClone \/ ScriptEnv \/ ScriptBuild \/ ScriptTag \/ ScriptStack \/ ScriptForce \/ ScriptUp

Around ==
    \/ \E p \in Procs : Fails(p)
    \/ \E q \in push : PushFails(q)
    \/ \E s \in Servers : TasksFail(s) \/ BeginScript(s)
    \/ ScriptFails \/ Restart \/ CommitPushed

Next ==
    \/ \E p \in Users : Requests(p)
    \/ \E p \in Procs : Advance(p)
    \/ Mirrors \/ OnHost \/ Around

Spec == Init /\ [][Next]_vars

\* The event loop runs every request it has accepted.  Nothing here waits for
\* the pushes in the background or for a script on the host.
Fair == Spec /\ \A p \in Procs : WF_vars(Advance(p))

------------------------------------------------------------------------------
(* Properties.                                                              *)

Ends(p, what) == answer[p] # "ok" /\ answer'[p] = "ok" /\ op[p].what \in what
Deploys == {"deploy", "redeploy", "webhook"}

\* A deployment that is reported as a success has brought up, on the service's
\* host, the text and the environment that are saved: through whatever failed
\* before, on a service used by one request at a time.
SuccessMeansRunning ==
    [][\A p \in Procs : mode = "solo" /\ Ends(p, Deploys) =>
         LET t == stack[row.host] IN t.up /\ t.yml = row.text /\ t.env = row.env]_vars

\* A redeploy that succeeds, of an application whose text names a repository,
\* runs an image at least as new as the branch was when it was asked for:
\* whatever else has failed before, unless its own forced update failed without
\* being noticed (seen = 0), after which the old tasks may be running still.
FreshImage ==
    [][\A p \in Procs : mode = "solo" /\ kind = "app" /\ row.text.mode = "source" /\ row.text.git
         /\ Ends(p, {"redeploy", "webhook"}) /\ op[p].seen # 0
           => stack[row.host].image >= op[p].seen]_vars

\* Whatever runs at the same time, the API never gives Swarm the stack file of
\* one save with the environment of another: both are in the text and the
\* values it read together.
SavedTogether ==
    [][\A s \in Servers : kind = "app" /\ script' = script /\ stack'[s].up
         /\ (stack'[s].yml # stack[s].yml \/ stack'[s].env # stack[s].env)
           => stack'[s].yml.keys = stack'[s].env]_vars

\* When nothing has failed and nothing is going on, the mirror that webhooks
\* deploy from holds what was last saved; and a service that is gone has left
\* nothing running, and no copy of it stopped.
HostHoldsService ==
    mode = "solo" /\ Quiet /\ faults = 0 /\ ~moved =>
        IF row.live
        THEN /\ mirror[row.host].yml = row.text
             /\ Swarm => mirror[row.host].env = row.env
        ELSE \A s \in Servers : stack[s] = NoStack

\* What an edit is about.
About(e) ==
    CASE e = "nets" -> {"nets"} [] e = "vols" -> {"vols", "colon"}
      [] e = "env" -> {"keys"} [] OTHER -> {}

\* An edit of one aspect of an application's stack file (its networks, volumes,
\* variables, or a domain) loses nothing of the others, although all of them are
\* read back from the text.  The code does lose two: a port that is neither
\* published nor the default, and the volumes in which there is a colon too many.
PatchKeepsRest ==
    [][\A p \in Procs : mode = "edit" /\ op[p] # Idle /\ Store(p)
         /\ op[p].edit \in {"nets", "vols", "env", "domains"}
         /\ (row.text.publish \/ row.text.label = DefaultPort) =>
           \A f \in DOMAIN row.text \ About(op[p].edit) :
              row'.text[f] = row.text[f] \/ (row.text.colon /\ f \in About("vols"))]_vars

\* Every request is answered.
RequestsEnd == \A p \in Procs : op[p] # Idle ~> op[p] = Idle
==============================================================================
